------------------------ MODULE TestPublicationProofs ------------------------
(***************************************************************************)
(* Proofs about TestPublication, for every number of requests and keys,    *)
(* every mode and configuration of the connection, and everything the      *)
(* environment may do.                                                     *)
(***************************************************************************)
EXTENDS TestPublication, FiniteSetTheorems, TLAPS

-----------------------------------------------------------------------------
(* The inductive invariant *)

CompletedCreate(c) ==
  c \in DOMAIN journal /\ journal[c].kind = "CREATE" /\ journal[c].status = "COMPLETED"

PostOf(key) == { p \in DOMAIN posts : posts[p].key = key }

\* A key has one row and makes one post, a post was made under the key of a create, and a
\* completed row names a post: a create the one of its key.
JournalSound ==
  /\ \A i, j \in DOMAIN journal : journal[i].key = journal[j].key => i = j
  /\ \A p, q \in DOMAIN posts : posts[p].key = posts[q].key => p = q
  /\ \A p \in DOMAIN posts :
       \E i \in DOMAIN journal : journal[i].kind = "CREATE" /\ journal[i].key = posts[p].key
  /\ \A i \in DOMAIN journal : journal[i].status = "COMPLETED" =>
       /\ journal[i].post \in DOMAIN posts
       /\ journal[i].kind = "CREATE" => posts[journal[i].post].key = journal[i].key

\* The phases in which a request may still write the row it has reserved.
Holding(q) ==
  \/ q.phase \in { "start", "answered", "snapped", "failed", "calling" } /\ q.kind \in Mutations
  \/ q.phase = "reading" /\ q.kind = "CREATE"

\* Which phases the handler of a kind goes through.
PhaseSound(q) ==
  /\ q.phase = "idle" => q = NoRequest
  /\ q.phase # "idle" => q.kind # "NONE"
  /\ q.kind = "CREATE" => q.phase \in { "start", "reading", "calling", "answered", "snapped", "failed" }
  /\ q.phase = "start" => q.kind = "CREATE"
  /\ q.phase = "current" => q.kind \in Mutations
  /\ q.phase = "failed" => q.kind \in Mutations
  /\ q.phase = "snapped" => q.kind # "DELETE" /\ q.kind \in Mutations
  /\ q.phase = "restoring" => q.kind = "CURRENT"
  /\ q.phase = "listing" => q.kind \notin Mutations
  /\ q.notFound => q.phase \in { "failed", "missing" }
  /\ q.retry => Holding(q)

\* The row is the request's own: PENDING until it is written, but for a deletion tried again.
RowSound(q) ==
  Holding(q) =>
    /\ q.row \in DOMAIN journal
    /\ journal[q.row].key = q.key /\ journal[q.row].kind = q.kind
    /\ q.retry => q.kind = "DELETE"
    /\ ~ q.retry => journal[q.row].status = "PENDING"
    /\ q.kind # "CREATE" => journal[q.row].post = q.post

\* A selected draft was made by a completed create.
DraftSound(q) ==
  /\ q.phase = "reading" => \A c \in q.open : CompletedCreate(c)
  /\ q.phase \notin { "idle", "reading" } /\ q.kind # "CREATE" =>
       CompletedCreate(q.create) /\ journal[q.create].post = q.post

\* A create makes its post in the call, and what was ended or not found is no draft.
CallSound(q) ==
  /\ q.kind = "CREATE" /\ q.phase \in { "start", "reading", "calling" } => PostOf(q.key) = {}
  /\ q.kind = "CREATE" /\ q.phase \in { "answered", "snapped" } => q.post \in PostOf(q.key)
  /\ \/ q.phase = "missing"
     \/ q.phase = "failed" /\ q.notFound
     \/ q.phase \in { "answered", "snapped" } /\ q.kind \in { "PUBLISH", "DELETE" }
     => q.kind # "CREATE" /\ posts[q.post].state # "DRAFT"

RequestSound ==
  \A r \in Requests : /\ PhaseSound(request[r]) /\ RowSound(request[r])
                      /\ DraftSound(request[r]) /\ CallSound(request[r])

\* Two requests hold one row only if both try a deletion again.
OwnersApart ==
  \A r, s \in Requests :
    /\ r # s /\ Holding(request[r]) /\ Holding(request[s])
    /\ request[r].row = request[s].row
    => request[r].retry /\ request[s].retry

\* What is recorded as over is no draft.
EndedIsNoDraft == \A p \in DOMAIN posts : Ended(p) => posts[p].state # "DRAFT"

\* A create that has looked for a draft and found none is right.
CreateSound(q) ==
  q.kind = "CREATE" =>
    /\ q.phase = "reading" =>
         \A c \in DOMAIN journal :
           CompletedCreate(c) /\ posts[journal[c].post].state = "DRAFT" => c \in q.open
    /\ q.phase \in { "calling", "answered", "snapped" } => TrackedDrafts = {}

\* Without a cause: no draft was taken for missing, and creates are made one at a time.
NoCause ==
  causes = {} =>
    /\ \A p \in DOMAIN posts : posts[p].state = "DRAFT" => local[p] # "DELETED"
    /\ \A r, s \in Requests : request[r].kind = "CREATE" /\ request[s].kind = "CREATE" => r = s
    /\ \A r \in Requests : CreateSound(request[r])
    /\ \A p, q \in TrackedDrafts : p = q

IInv ==
  /\ TypeOK /\ JournalSound /\ RequestSound /\ OwnersApart /\ EndedIsNoDraft /\ NoCause

-----------------------------------------------------------------------------
(* Sequences *)

LEMMA Appended ==
  ASSUME NEW S, NEW seq \in Seq(S), NEW e \in S
  PROVE  /\ Append(seq, e) \in Seq(S)
         /\ Len(seq) + 1 \in Nat \ DOMAIN seq
         /\ DOMAIN Append(seq, e) = DOMAIN seq \cup { Len(seq) + 1 }
         /\ \A i \in DOMAIN seq : Append(seq, e)[i] = seq[i]
         /\ Append(seq, e)[Len(seq) + 1] = e
<1>1. /\ DOMAIN seq = 1 .. Len(seq) /\ Len(seq) \in Nat
      /\ DOMAIN Append(seq, e) = 1 .. Len(seq) + 1
  OBVIOUS
<1>2. 1 .. Len(seq) + 1 = (1 .. Len(seq)) \cup { Len(seq) + 1 }
  BY <1>1
<1>3. \A i \in 1 .. Len(seq) : Append(seq, e)[i] = seq[i]
  BY <1>1
<1> QED  BY <1>1, <1>2, <1>3

LEMMA Listed ==
  ASSUME NEW S, NEW n \in Nat, NEW f \in [ 1 .. n -> S ]
  PROVE  f \in Seq(S)
OBVIOUS

LEMMA Replaced ==
  ASSUME NEW S, NEW seq \in Seq(S), NEW i \in DOMAIN seq, NEW e \in S
  PROVE  /\ [ seq EXCEPT ![i] = e ] \in Seq(S)
         /\ DOMAIN [ seq EXCEPT ![i] = e ] = DOMAIN seq
OBVIOUS

LEMMA Indices ==
  ASSUME NEW S, NEW seq \in Seq(S)
  PROVE  DOMAIN seq \subseteq Nat \ {0} /\ \A i \in DOMAIN seq : seq[i] \in S
OBVIOUS

-----------------------------------------------------------------------------
(* Types *)

Types == TypeOK /\ RequestSound /\ JournalSound

\* What a request with a row or a draft may refer to.
LEMMA References ==
  ASSUME Types, NEW r \in Requests
  PROVE  /\ request[r] \in Request
         /\ Holding(request[r]) =>
              request[r].row \in DOMAIN journal /\ journal[request[r].row] \in Row
         /\ request[r].phase \notin { "idle", "reading" } /\ request[r].kind # "CREATE" =>
              /\ request[r].create \in DOMAIN journal
              /\ request[r].post \in DOMAIN posts
         /\ request[r].phase \in { "answered", "snapped" } => request[r].post \in DOMAIN posts
<1>1. request[r] \in Request /\ \A i \in DOMAIN journal : journal[i] \in Row
  BY DEF Types, TypeOK
<1>2. RowSound(request[r]) /\ DraftSound(request[r]) /\ CallSound(request[r]) /\ PhaseSound(request[r])
  BY DEF Types, RequestSound
<1>3. Holding(request[r]) =>
        request[r].row \in DOMAIN journal /\ journal[request[r].row] \in Row
  BY <1>1, <1>2 DEF RowSound
<1>4. request[r].phase \notin { "idle", "reading" } /\ request[r].kind # "CREATE" =>
        request[r].create \in DOMAIN journal /\ request[r].post \in DOMAIN posts
  BY <1>2 DEF DraftSound, CompletedCreate, Types, JournalSound
<1>5. request[r].phase \in { "answered", "snapped" } => request[r].post \in DOMAIN posts
  BY <1>2, <1>4 DEF CallSound, PostOf
<1> QED  BY <1>1, <1>3, <1>4, <1>5

RequestStep(r) ==
  \/ \E kind \in Kinds, key \in Keys \cup {NoKey} : ReadJournal(r, kind, key)
  \/ \E key \in Keys : reserve(r, key)
  \/ SelectCurrent(r)
  \/ Mutate(r) \/ LoseAnswer(r) \/ MutateMissing(r) \/ Refuse(r)
  \/ getPost(r) \/ findDraftInAdminList(r)
  \/ snapshot(r) \/ restoreReconciledDraft(r) \/ complete(r)
  \/ DeletionRecorded(r) \/ fail(r) \/ reconcileMissing(r)

LEMMA NextSteps ==
  Next <=> \/ \E r \in Requests : RequestStep(r)
           \/ \E p \in DOMAIN posts : SyncWrites(p) \/ ChangeOnBlogger(p)
           \/ Crash
BY DEF Next, RequestStep

LEMMA MarkTyped ==
  ASSUME TypeOK, NEW p \in DOMAIN posts, NEW status \in PostStates, Mark(p, status)
  PROVE  /\ local' \in [ DOMAIN posts -> PostStates \cup { "NONE" } ]
         /\ causes' \subseteq Causes
BY DEF TypeOK, Mark, Causes

LEMMA InitTyped == Init => TypeOK
<1> SUFFICES ASSUME Init PROVE TypeOK
  OBVIOUS
<1> USE TestPublicationAssumption
<1>1. NoRequest \in Request
  BY DEF NoRequest, Request, Kinds, PostStates
<1>2. \E created \in Seq(Keys) : Missing(created)
  <2>1. <<>> \in Seq(Keys) /\ \A key \in Keys : <<key>> \in Seq(Keys)
    OBVIOUS
  <2>2. Missing(<<>>) \/ \E key \in Keys : Missing(<<key>>)
    BY DEF Init
  <2>3. CASE Missing(<<>>)
    BY <2>1, <2>3
  <2>4. ASSUME NEW key \in Keys, Missing(<<key>>) PROVE \E created \in Seq(Keys) : Missing(created)
    BY <2>1, <2>4
  <2> QED  BY <2>2, <2>3, <2>4
<1>. PICK created \in Seq(Keys) : Missing(created)
  BY <1>2
<1>3. DOMAIN created = 1 .. Len(created) /\ Len(created) \in Nat
  OBVIOUS
<1>4. journal \in Seq(Row)
  <2>1. journal \in [ 1 .. Len(created) -> Row ]
    BY <1>3 DEF Missing, Row, Mutations
  <2> QED  BY <1>3, <2>1, Listed
<1>5. posts \in Seq([ key : Keys, state : PostStates ])
  <2>1. posts \in [ 1 .. Len(created) -> [ key : Keys, state : PostStates ] ]
    BY <1>3 DEF Missing, PostStates
  <2> QED  BY <1>3, <2>1, Listed
<1>6. /\ local \in [ DOMAIN posts -> PostStates \cup { "NONE" } ]
      /\ reconciled \subseteq DOMAIN journal /\ causes \subseteq Causes
  BY DEF Missing, PostStates, Causes
<1> QED  BY <1>1, <1>4, <1>5, <1>6 DEF Init, TypeOK

LEMMA SetTyped ==
  ASSUME TypeOK, NEW r \in Requests, NEW held \in Request, Set(r, held)
  PROVE  request' \in [ Requests -> Request ]
BY DEF TypeOK, Set

LEMMA NoRequestTyped == NoRequest \in Request
BY TestPublicationAssumption DEF NoRequest, Request, Kinds, PostStates

\* A finished request is idle, one that goes on keeps what it holds.
LEMMA GotoTyped ==
  ASSUME TypeOK, NEW r \in Requests, NEW phase \in { "start", "reading", "current", "calling",
           "listing", "answered", "snapped", "restoring", "failed", "missing" },
         Finish(r) \/ Goto(r, phase)
  PROVE  request' \in [ Requests -> Request ]
<1>1. request[r] \in Request
  BY DEF TypeOK
<1>2. [ request[r] EXCEPT !.phase = phase ] \in Request
  BY <1>1 DEF Request
<1> QED  BY <1>2, SetTyped, NoRequestTyped DEF Finish, Goto

LEMMA RequestStepTyped ==
  ASSUME Types, NEW r \in Requests, RequestStep(r)
  PROVE  TypeOK'
<1> DEFINE q == request[r]
<1>0. /\ TypeOK /\ q \in Request /\ PhaseSound(q)
      /\ request \in [ Requests -> Request ] /\ journal \in Seq(Row)
      /\ local \in [ DOMAIN posts -> PostStates \cup { "NONE" } ]
      /\ posts \in Seq([ key : Keys, state : PostStates ])
      /\ DOMAIN journal \subseteq Nat \ {0} /\ DOMAIN posts \subseteq Nat \ {0}
      /\ reconciled \subseteq DOMAIN journal
      /\ \A i \in DOMAIN journal : journal[i] \in Row
      /\ \A p \in DOMAIN posts : posts[p] \in [ key : Keys, state : PostStates ]
  BY References, Indices DEF Types, TypeOK, RequestSound
<1>r. /\ Holding(q) => q.row \in DOMAIN journal /\ journal[q.row] \in Row
      /\ q.phase \notin { "idle", "reading" } /\ q.kind # "CREATE" =>
           q.create \in DOMAIN journal /\ q.post \in DOMAIN posts
      /\ q.phase \in { "answered", "snapped" } => q.post \in DOMAIN posts
  BY References DEF Types
<1>1. ASSUME NEW kind \in Kinds, NEW key \in Keys \cup {NoKey}, ReadJournal(r, kind, key)
      PROVE  TypeOK'
  <2>1. OpenCreates \subseteq Nat
    BY <1>0 DEF OpenCreates
  <2>2. \A held \in Request : Reading(held) \in Request
    BY <2>1 DEF Reading, Request
  <2>3. [ NoRequest EXCEPT !.kind = kind, !.key = key ] \in Request
    BY NoRequestTyped DEF Request
  <2>4. request' \in [ Requests -> Request ]
    BY <1>0, <1>1, <2>2, <2>3, SetTyped DEF ReadJournal
  <2> QED  BY <1>0, <1>1, <2>4 DEF ReadJournal, TypeOK, storeVars, outside
<1>2. ASSUME NEW key \in Keys, reserve(r, key)
      PROVE  TypeOK'
  <2>1. ASSUME NEW held \in Request, NEW next \in { "start", "calling" }, Reserve(r, held, next),
               held.key \in Keys, held.kind \in Mutations
        PROVE  journal' \in Seq(Row) /\ DOMAIN journal \subseteq DOMAIN journal'
               /\ request' \in [ Requests -> Request ]
    <3>1. CASE RowsOf(held.key) = {}
      <4>1. [ key |-> held.key, kind |-> held.kind, status |-> "PENDING", post |-> held.post ] \in Row
        BY <2>1 DEF Row, Request
      <4>2. journal' \in Seq(Row) /\ DOMAIN journal \subseteq DOMAIN journal' /\ Len(journal) + 1 \in Nat
        <5>1. journal' = Append(journal, [ key |-> held.key, kind |-> held.kind,
                                           status |-> "PENDING", post |-> held.post ])
          BY <2>1, <3>1 DEF Reserve
        <5> HIDE DEF Row
        <5> QED  BY <1>0, <4>1, <5>1, Appended
      <4>3. [ held EXCEPT !.phase = next, !.row = Len(journal) + 1 ] \in Request
        BY <2>1, <4>2 DEF Request
      <4> QED  BY <1>0, <2>1, <3>1, <4>2, <4>3, SetTyped DEF Reserve
    <3>2. CASE RowsOf(held.key) # {}
      <4>1. \A i \in RowsOf(held.key) :
              [ held EXCEPT !.phase = next, !.row = i, !.retry = TRUE ] \in Request
        BY <1>0, <2>1 DEF RowsOf, Request
      <4> QED  BY <1>0, <2>1, <3>2, <4>1, SetTyped, NoRequestTyped DEF Reserve, Finish
    <3> QED  BY <3>1, <3>2
  <2>2. [ NoRequest EXCEPT !.kind = "CREATE", !.key = key ] \in Request
    BY NoRequestTyped DEF Request, Kinds, Mutations
  <2>3. /\ [ NoRequest EXCEPT !.kind = "CREATE", !.key = key ].key = key
        /\ [ NoRequest EXCEPT !.kind = "CREATE", !.key = key ].kind = "CREATE"
    BY DEF NoRequest
  <2>4. q.phase = "current" => q.kind \in Mutations
    BY <1>0 DEF PhaseSound
  <2>5. journal' \in Seq(Row) /\ DOMAIN journal \subseteq DOMAIN journal'
        /\ request' \in [ Requests -> Request ]
    <3>1. \/ Reserve(r, [ NoRequest EXCEPT !.kind = "CREATE", !.key = key ], "start")
          \/ q.phase = "current" /\ key = q.key /\ Reserve(r, q, "calling")
      BY <1>2 DEF reserve
    <3>2. CASE Reserve(r, [ NoRequest EXCEPT !.kind = "CREATE", !.key = key ], "start")
      BY <2>1, <2>2, <2>3, <3>2 DEF Mutations
    <3>3. CASE q.phase = "current" /\ key = q.key /\ Reserve(r, q, "calling")
      BY <1>0, <2>1, <2>4, <3>3
    <3> QED  BY <3>1, <3>2, <3>3
  <2>6. causes' \subseteq Causes
    BY <1>0, <1>2 DEF reserve, TypeOK, Causes
  <2> QED  BY <1>0, <1>2, <2>5, <2>6 DEF reserve, TypeOK, outside
<1>3. CASE SelectCurrent(r)
  <2>1. q.kind = "CREATE" => /\ [ journal EXCEPT ![q.row].status = "FAILED" ] \in Seq(Row)
                             /\ DOMAIN [ journal EXCEPT ![q.row].status = "FAILED" ] = DOMAIN journal
    <3>1. q.kind = "CREATE" => q.row \in DOMAIN journal /\ [ journal[q.row] EXCEPT !.status = "FAILED" ] \in Row
      BY <1>3, <1>r DEF SelectCurrent, Holding, Row
    <3> QED  BY <1>0, <3>1, Replaced
  <2>2. [ q EXCEPT !.phase = "calling", !.open = {}, !.marked = {} ] \in Request
    BY <1>0 DEF Request
  <2>3. ASSUME NEW c \in Candidates(r), NEW phase \in { "current", "calling" }, NEW recover \in BOOLEAN
        PROVE  [ q EXCEPT !.phase = phase, !.open = {}, !.marked = {}, !.create = c,
                          !.post = journal[c].post, !.recover = recover ] \in Request
    <3>1. c \in DOMAIN journal /\ c \in Nat /\ journal[c].post \in Nat
      BY <1>0, <1>3 DEF Candidates, SelectCurrent, Types, RequestSound, DraftSound, CompletedCreate, Row
    <3> QED  BY <1>0, <3>1 DEF Request
  <2>4. request' \in [ Requests -> Request ]
    <3>1. CASE q.kind = "CREATE"
      BY <1>0, <1>3, <2>2, <3>1, SetTyped, NoRequestTyped DEF SelectCurrent, Finish
    <3>2. CASE q.kind # "CREATE" /\ Candidates(r) = {}
      BY <1>0, <1>3, <3>2, SetTyped, NoRequestTyped DEF SelectCurrent, Finish
    <3>3. CASE q.kind # "CREATE" /\ Candidates(r) # {}
      <4>1. PICK c \in Candidates(r) :
              Set(r, [ q EXCEPT
                         !.phase = IF q.kind \in Mutations THEN "current" ELSE "calling",
                         !.open = {}, !.marked = {},
                         !.create = c, !.post = journal[c].post,
                         !.recover = q.kind = "CURRENT" /\ local[journal[c].post] = "DELETED" ])
        BY <1>3, <3>3 DEF SelectCurrent
      <4> QED  BY <1>0, <2>3, <4>1, SetTyped
    <3> QED  BY <3>1, <3>2, <3>3
  <2>5. journal' \in Seq(Row) /\ DOMAIN journal' = DOMAIN journal
    BY <1>0, <1>3, <2>1 DEF SelectCurrent
  <2> QED  BY <1>0, <1>3, <2>4, <2>5 DEF SelectCurrent, TypeOK, outside
<1>4. ASSUME Effect(r)
      PROVE  /\ CalledPost(r) \in Nat /\ StateAfter(r) \in PostStates
             /\ posts' \in Seq([ key : Keys, state : PostStates ])
             /\ local' \in [ DOMAIN posts' -> PostStates \cup { "NONE" } ]
             /\ UNCHANGED <<journal, reconciled, mode, syncs, causes>>
  <2>1. Holding(q) /\ q.kind \in Mutations /\ q.phase = "calling"
    BY <1>4 DEF Effect, Calls, Holding
  <2>2. q.key \in Keys
    BY <1>0, <2>1, <1>r DEF Row, Types, RequestSound, RowSound
  <2>3. CASE q.kind = "CREATE"
    <3>1. NewPost(r) \in [ key : Keys, state : PostStates ] /\ "NONE" \in PostStates \cup { "NONE" }
      BY <2>2 DEF NewPost, PostStates
    <3>2. DOMAIN posts = 1 .. Len(posts) /\ Len(posts) \in Nat
      BY <1>0
    <3>3. local \in Seq(PostStates \cup { "NONE" })
      BY <1>0, <3>2, Listed
    <3>4. Len(local) = Len(posts)
      BY <1>0, <3>2, <3>3
    <3>5. DOMAIN local' = DOMAIN posts' /\ local' \in Seq(PostStates \cup { "NONE" })
          /\ posts' \in Seq([ key : Keys, state : PostStates ])
      <4>1. posts' = Append(posts, NewPost(r)) /\ local' = Append(local, "NONE")
        BY <1>4, <2>3 DEF Effect
      <4>2. /\ posts' \in Seq([ key : Keys, state : PostStates ])
            /\ DOMAIN posts' = DOMAIN posts \cup { Len(posts) + 1 }
        BY <1>0, <3>1, <4>1, Appended
      <4>3. /\ local' \in Seq(PostStates \cup { "NONE" })
            /\ DOMAIN local' = DOMAIN local \cup { Len(posts) + 1 }
        BY <3>1, <3>3, <3>4, <4>1, Appended
      <4> QED  BY <1>0, <4>2, <4>3
    <3>6. local' \in [ DOMAIN posts' -> PostStates \cup { "NONE" } ]
      BY <3>5
    <3> QED  BY <1>4, <2>3, <3>2, <3>5, <3>6 DEF Effect, outside, CalledPost, StateAfter, PostStates
  <2>4. CASE q.kind # "CREATE"
    <3>1. q.post \in DOMAIN posts /\ posts[q.post] \in [ key : Keys, state : PostStates ]
      <4>1. q.post \in DOMAIN posts
        BY <1>r, <2>1, <2>4
      <4> QED  BY <1>0, <4>1
    <3>2. StateAfter(r) \in PostStates
      BY <2>4, <3>1 DEF StateAfter, PostStates
    <3>3. [ posts[q.post] EXCEPT !.state = StateAfter(r) ] \in [ key : Keys, state : PostStates ]
      BY <3>1, <3>2
    <3>4. posts' \in Seq([ key : Keys, state : PostStates ]) /\ DOMAIN posts' = DOMAIN posts
      <4>1. posts' = [ posts EXCEPT ![q.post] = [ posts[q.post] EXCEPT !.state = StateAfter(r) ] ]
        BY <1>4, <2>4 DEF Effect
      <4> QED  BY <1>0, <3>1, <3>3, <4>1, Replaced
    <3> QED  BY <1>0, <1>4, <2>4, <3>1, <3>2, <3>4 DEF Effect, outside, CalledPost
  <2> QED  BY <2>3, <2>4
<1>5. CASE Mutate(r)
  <2>1. [ q EXCEPT !.phase = "answered", !.post = CalledPost(r), !.seen = StateAfter(r) ] \in Request
    BY <1>0, <1>4, <1>5 DEF Mutate, Request
  <2> QED  BY <1>0, <1>4, <1>5, <2>1, SetTyped DEF Mutate, Answered, TypeOK
<1>6. CASE LoseAnswer(r)
  BY <1>0, <1>4, <1>6, GotoTyped DEF LoseAnswer, TypeOK
<1>7. CASE MutateMissing(r)
  <2>1. [ q EXCEPT !.phase = "failed", !.notFound = (mode = "MOCK") ] \in Request
    BY <1>0 DEF Request
  <2> QED  BY <1>0, <1>7, <2>1, SetTyped DEF MutateMissing, TypeOK, storeVars, outside
<1>8. CASE Refuse(r)
  BY <1>0, <1>8, GotoTyped DEF Refuse, TypeOK, storeVars, outside
<1>9. ASSUME NEW state \in PostStates, NEW p \in DOMAIN posts, Answered(r, p, state)
      PROVE  request' \in [ Requests -> Request ]
  <2>1. [ q EXCEPT !.phase = "answered", !.post = p, !.seen = state ] \in Request
    BY <1>0 DEF Request
  <2> QED  BY <1>0, <1>9, <2>1, SetTyped DEF Answered
<1>10. CASE getPost(r)
  <2>1. q.post \in DOMAIN posts /\ posts[q.post].state \in PostStates
    BY <1>0, <1>r, <1>10 DEF getPost, Calls, Mutations
  <2> QED  BY <1>0, <1>9, <1>10, <2>1, GotoTyped DEF getPost, NotFound, TypeOK, storeVars, outside
<1>11. CASE findDraftInAdminList(r)
  <2>1. q.post \in DOMAIN posts
    BY <1>0, <1>r, <1>11 DEF findDraftInAdminList, PhaseSound, Mutations
  <2> QED  BY <1>0, <1>9, <1>11, <2>1, GotoTyped
           DEF findDraftInAdminList, NotFound, TypeOK, storeVars, outside, PostStates
<1>12. CASE snapshot(r)
  <2>1. q.post \in DOMAIN posts /\ q.seen \in PostStates
    BY <1>0, <1>r, <1>12 DEF snapshot, Request
  <2>2. request' \in [ Requests -> Request ]
    BY <1>0, <1>12, GotoTyped DEF snapshot
  <2>3. /\ local' \in [ DOMAIN posts -> PostStates \cup { "NONE" } ]
        /\ causes' \subseteq Causes
    BY <1>0, <1>12, <2>1, MarkTyped DEF snapshot
  <2> QED  BY <1>0, <1>12, <2>2, <2>3 DEF snapshot, TypeOK, outside
<1>13. CASE restoreReconciledDraft(r)
  <2>1. q.post \in DOMAIN posts
    BY <1>0, <1>r, <1>13 DEF restoreReconciledDraft, PhaseSound
  <2>3. /\ local' \in [ DOMAIN posts -> PostStates \cup { "NONE" } ]
        /\ causes' \subseteq Causes
    BY <1>0, <1>13, <2>1, MarkTyped DEF restoreReconciledDraft, PostStates
  <2> QED  BY <1>0, <1>13, <2>3, GotoTyped DEF restoreReconciledDraft, TypeOK, outside
<1>14. ASSUME Completed(r), Holding(q), q.post \in DOMAIN posts
       PROVE  journal' \in Seq(Row) /\ DOMAIN journal' = DOMAIN journal
  <2>1. [ journal[q.row] EXCEPT !.status = "COMPLETED", !.post = q.post ] \in Row
    BY <1>0, <1>r, <1>14 DEF Row
  <2> QED  BY <1>0, <1>r, <1>14, <2>1, Replaced DEF Completed
<1>15. CASE complete(r)
  <2>1. Holding(q) /\ q.post \in DOMAIN posts
    BY <1>0, <1>r, <1>15 DEF complete, PhaseSound, Holding
  <2> QED  BY <1>0, <1>14, <1>15, <2>1, GotoTyped DEF complete, TypeOK, outside
<1>16. CASE DeletionRecorded(r)
  <2>1. Holding(q) /\ q.post \in DOMAIN posts
    BY <1>0, <1>r, <1>16 DEF DeletionRecorded, Holding, Mutations
  <2>2. /\ local' \in [ DOMAIN posts -> PostStates \cup { "NONE" } ]
        /\ causes' \subseteq Causes
    BY <1>0, <1>16, <2>1, MarkTyped DEF DeletionRecorded, PostStates
  <2> QED  BY <1>0, <1>14, <1>16, <2>1, <2>2, GotoTyped DEF DeletionRecorded, TypeOK, outside
<1>17. CASE fail(r)
  <2>1. q.row \in DOMAIN journal /\ [ journal[q.row] EXCEPT !.status = "FAILED" ] \in Row
    BY <1>0, <1>r, <1>17 DEF fail, PhaseSound, Holding, Row
  <2>2. journal' \in Seq(Row) /\ DOMAIN journal' = DOMAIN journal
    BY <1>0, <1>17, <2>1, Replaced DEF fail
  <2> QED  BY <1>0, <1>17, <2>2, GotoTyped DEF fail, TypeOK, outside
<1>18. CASE reconcileMissing(r)
  <2>1. q.post \in DOMAIN posts /\ q.create \in DOMAIN journal
    BY <1>0, <1>r, <1>18 DEF reconcileMissing, Types, RequestSound, CallSound
  <2>2. /\ local' \in [ DOMAIN posts -> PostStates \cup { "NONE" } ]
        /\ causes' \subseteq Causes
    BY <1>0, <1>18, <2>1, MarkTyped DEF reconcileMissing, PostStates
  <2> QED  BY <1>0, <1>18, <2>1, <2>2, GotoTyped DEF reconcileMissing, TypeOK, outside
<1> QED  BY <1>1, <1>2, <1>3, <1>5, <1>6, <1>7, <1>8, <1>10, <1>11, <1>12, <1>13,
            <1>15, <1>16, <1>17, <1>18 DEF RequestStep

LEMMA EnvironmentTyped ==
  ASSUME Types,
         Crash \/ \E p \in DOMAIN posts : SyncWrites(p) \/ ChangeOnBlogger(p)
  PROVE  TypeOK'
<1>0. /\ TypeOK /\ posts \in Seq([ key : Keys, state : PostStates ])
      /\ \A p \in DOMAIN posts : posts[p] \in [ key : Keys, state : PostStates ]
  BY Indices DEF Types, TypeOK
<1>1. CASE Crash
  <2>1. posts' \in Seq([ key : Keys, state : PostStates ]) /\ DOMAIN posts' = DOMAIN posts
    <3>1. CASE mode = "LIVE"
      BY <1>0, <1>1, <3>1 DEF Crash
    <3>2. CASE mode # "LIVE"
      <4>1. DOMAIN posts = 1 .. Len(posts) /\ Len(posts) \in Nat
        BY <1>0
      <4>2. posts' \in [ 1 .. Len(posts) -> [ key : Keys, state : PostStates ] ]
        BY <1>0, <1>1, <3>2, <4>1 DEF Crash, PostStates
      <4> QED  BY <4>1, <4>2, Listed
    <3> QED  BY <3>1, <3>2
  <2> QED  BY <1>0, <1>1, <2>1, NoRequestTyped DEF Crash, TypeOK, storeVars, outside
<1>2. ASSUME NEW p \in DOMAIN posts, SyncWrites(p)
      PROVE  TypeOK'
  <2>1. \A status \in { "DRAFT", posts[p].state, "DELETED" } : status \in PostStates
    BY <1>0 DEF PostStates
  <2>2. /\ local' \in [ DOMAIN posts -> PostStates \cup { "NONE" } ]
        /\ causes' \subseteq Causes
    BY <1>0, <1>2, <2>1, MarkTyped DEF SyncWrites
  <2>3. syncs' \in 0 .. MaxSyncs
    BY <1>0, <1>2, TestPublicationAssumption DEF SyncWrites, TypeOK
  <2> QED  BY <1>0, <1>2, <2>2, <2>3 DEF SyncWrites, TypeOK
<1>3. ASSUME NEW p \in DOMAIN posts, ChangeOnBlogger(p)
      PROVE  TypeOK'
  <2>1. PICK state \in { "PUBLISHED", "DELETED" } :
          posts' = [ posts EXCEPT ![p] = [ posts[p] EXCEPT !.state = state ] ]
    BY <1>3 DEF ChangeOnBlogger
  <2>2. [ posts[p] EXCEPT !.state = state ] \in [ key : Keys, state : PostStates ]
    BY <1>0 DEF PostStates
  <2>3. posts' \in Seq([ key : Keys, state : PostStates ]) /\ DOMAIN posts' = DOMAIN posts
    BY <1>0, <2>1, <2>2, Replaced
  <2> QED  BY <1>0, <1>3, <2>3 DEF ChangeOnBlogger, TypeOK, storeVars, outside
<1> QED  BY <1>1, <1>2, <1>3

-----------------------------------------------------------------------------
(* What a step leaves of journal and posts.  The acting request is q, or      *)
(* NoRequest when the environment acts.                                       *)

SoundRequest(q) == PhaseSound(q) /\ RowSound(q) /\ DraftSound(q) /\ CallSound(q)

Recording(q) == q.phase \in { "answered", "snapped" } \/ (q.phase = "failed" /\ q.notFound)

RowsKept(q) ==
  /\ \A i \in DOMAIN journal :
       /\ i \in DOMAIN journal'
       /\ \/ journal'[i] = journal[i]
          \/ /\ Holding(q) /\ i = q.row
             /\ journal'[i].key = journal[i].key /\ journal'[i].kind = journal[i].kind
             /\ journal'[i].kind # "CREATE" => journal'[i].post = journal[i].post
             /\ journal'[i].status = "COMPLETED" =>
                  Recording(q) /\ journal'[i].post = q.post /\ posts' = posts
                  /\ (q.kind = "CREATE" => q.phase = "snapped")
             /\ journal'[i].status # "COMPLETED" => q.kind = "CREATE" \/ q.phase = "failed"
  /\ \A i \in DOMAIN journal' :
       i \in DOMAIN journal \/ (i = Len(journal) + 1 /\ RowsOf(journal'[i].key) = {}
                                  /\ journal'[i].status = "PENDING")

PostsKept(q) ==
  /\ \A p \in DOMAIN posts :
       /\ p \in DOMAIN posts' /\ posts'[p].key = posts[p].key
       /\ posts'[p].state = "DRAFT" => posts[p].state = "DRAFT"
  /\ \A p \in DOMAIN posts' :
       p \in DOMAIN posts \/ ( /\ p = Len(posts) + 1 /\ posts'[p].key = q.key
                                /\ q.kind = "CREATE" /\ q.phase = "calling" )

Kept(q) == RowsKept(q) /\ PostsKept(q)

\* A completed create is never written again.
LEMMA CreatesKept ==
  ASSUME JournalSound, NEW q, SoundRequest(q), Kept(q)
  PROVE  \A c : CompletedCreate(c) => CompletedCreate(c)' /\ journal'[c] = journal[c]
<1> SUFFICES ASSUME NEW c, CompletedCreate(c)
             PROVE  journal'[c] = journal[c] /\ c \in DOMAIN journal'
  BY DEF CompletedCreate
<1>1. Holding(q) /\ c = q.row => FALSE
  BY DEF SoundRequest, RowSound, CompletedCreate
<1> QED  BY <1>1 DEF Kept, RowsKept, CompletedCreate

LEMMA JournalKept ==
  ASSUME JournalSound, NEW q, SoundRequest(q), Kept(q)
  PROVE  JournalSound'
<1>1. ASSUME NEW i \in DOMAIN journal', NEW j \in DOMAIN journal', journal'[i].key = journal'[j].key
      PROVE  i = j
  <2>1. \A k \in DOMAIN journal : journal'[k].key = journal[k].key
    BY DEF Kept, RowsKept
  <2> QED  BY <1>1, <2>1 DEF Kept, RowsKept, JournalSound, RowsOf
<1>2. ASSUME NEW p \in DOMAIN posts', NEW s \in DOMAIN posts', posts'[p].key = posts'[s].key
      PROVE  p = s
  BY <1>2 DEF Kept, PostsKept, JournalSound, SoundRequest, CallSound, PostOf
<1>3. ASSUME NEW p \in DOMAIN posts'
      PROVE  \E i \in DOMAIN journal' :
               journal'[i].kind = "CREATE" /\ journal'[i].key = posts'[p].key
  <2>1. \A i \in DOMAIN journal :
          i \in DOMAIN journal' /\ journal'[i].key = journal[i].key /\ journal'[i].kind = journal[i].kind
    BY DEF Kept, RowsKept
  <2>2. CASE p \in DOMAIN posts
    BY <2>1, <2>2 DEF JournalSound, Kept, PostsKept
  <2>3. CASE p \notin DOMAIN posts
    <3>1. q.kind = "CREATE" /\ Holding(q) /\ posts'[p].key = q.key
      BY <2>3 DEF Kept, PostsKept, Holding, Mutations
    <3> QED  BY <2>1, <3>1 DEF SoundRequest, RowSound
  <2> QED  BY <2>2, <2>3
<1>4. ASSUME NEW i \in DOMAIN journal', journal'[i].status = "COMPLETED"
      PROVE  /\ journal'[i].post \in DOMAIN posts'
             /\ journal'[i].kind = "CREATE" => posts'[journal'[i].post].key = journal'[i].key
  <2>1. i \in DOMAIN journal
    BY <1>4 DEF Kept, RowsKept
  <2>2. CASE journal'[i] = journal[i]
    BY <1>4, <2>1, <2>2 DEF JournalSound, Kept, PostsKept
  <2>3. CASE journal'[i] # journal[i]
    <3>1. /\ Holding(q) /\ i = q.row /\ journal'[i].post = q.post /\ posts' = posts
          /\ journal'[i].key = q.key /\ journal'[i].kind = q.kind
          /\ Recording(q) /\ (q.kind = "CREATE" => q.phase = "snapped")
      BY <1>4, <2>1, <2>3 DEF Kept, RowsKept, SoundRequest, RowSound
    <3>2. q.kind = "CREATE" => q.post \in PostOf(q.key)
      BY <3>1 DEF SoundRequest, CallSound
    <3>3. q.kind # "CREATE" => q.post \in DOMAIN posts
      BY <3>1 DEF SoundRequest, DraftSound, JournalSound, CompletedCreate, Recording
    <3> QED  BY <3>1, <3>2, <3>3 DEF PostOf
  <2> QED  BY <2>2, <2>3
<1> QED  BY <1>1, <1>2, <1>3, <1>4 DEF JournalSound

LEMMA EndedKept ==
  ASSUME JournalSound, EndedIsNoDraft, NEW q, SoundRequest(q), Kept(q)
  PROVE  EndedIsNoDraft'
<1> SUFFICES ASSUME NEW p \in DOMAIN posts', Ended(p)'
             PROVE  posts'[p].state # "DRAFT"
  BY DEF EndedIsNoDraft
<1>1. PICK i \in DOMAIN journal' : /\ journal'[i].kind \in { "PUBLISH", "DELETE" }
                                   /\ journal'[i].status = "COMPLETED" /\ journal'[i].post = p
  BY DEF Ended
<1>2. i \in DOMAIN journal
  BY <1>1 DEF Kept, RowsKept
<1>3. CASE journal'[i] = journal[i]
  BY <1>1, <1>2, <1>3 DEF Ended, EndedIsNoDraft, JournalSound, Kept, PostsKept
<1>4. CASE journal'[i] # journal[i]
  BY <1>1, <1>2, <1>4
  DEF Kept, RowsKept, SoundRequest, RowSound, CallSound, DraftSound, JournalSound, Recording
<1> QED  BY <1>3, <1>4

\* A post becomes a tracked draft only when the create that made it is completed.
LEMMA TrackedKept ==
  ASSUME JournalSound, NEW q, SoundRequest(q), Kept(q)
  PROVE  \A p \in TrackedDrafts' :
           \/ p \in TrackedDrafts
           \/ q.kind = "CREATE" /\ q.phase = "snapped" /\ p = q.post
<1> SUFFICES ASSUME NEW p \in TrackedDrafts'
             PROVE  p \in TrackedDrafts \/ (q.kind = "CREATE" /\ q.phase = "snapped" /\ p = q.post)
  OBVIOUS
<1>1. PICK i \in DOMAIN journal' : /\ journal'[i].kind = "CREATE"
                                   /\ journal'[i].status = "COMPLETED" /\ journal'[i].post = p
  BY DEF TrackedDrafts
<1>2. p \in DOMAIN posts' /\ posts'[p].state = "DRAFT" /\ i \in DOMAIN journal
  BY <1>1 DEF TrackedDrafts, Kept, RowsKept
<1>3. CASE journal'[i] = journal[i]
  BY <1>1, <1>2, <1>3 DEF TrackedDrafts, JournalSound, Kept, PostsKept
<1>4. CASE journal'[i] # journal[i]
  BY <1>1, <1>2, <1>4 DEF Kept, RowsKept, SoundRequest, RowSound
<1> QED  BY <1>3, <1>4

-----------------------------------------------------------------------------
(* The requests that do not act *)

\* A request that holds a row its own way: another one may hold it only for a retry.
LEMMA OthersSound ==
  ASSUME JournalSound, NEW CONSTANT q, NEW CONSTANT o,
         SoundRequest(q), SoundRequest(o), Kept(q),
         Holding(q) /\ Holding(o) /\ q.row = o.row => q.retry /\ o.retry
  PROVE  SoundRequest(o)'
<1>1. \A c : CompletedCreate(c) => CompletedCreate(c)' /\ journal'[c] = journal[c]
  BY CreatesKept
<1>2. PhaseSound(o)'
  BY DEF SoundRequest, PhaseSound
<1>3. RowSound(o)'
  <2> SUFFICES ASSUME Holding(o) PROVE RowSound(o)'
    BY DEF RowSound, Holding
  <2>1. /\ o.row \in DOMAIN journal
        /\ journal[o.row].key = o.key /\ journal[o.row].kind = o.kind
        /\ o.retry => o.kind = "DELETE"
        /\ ~ o.retry => journal[o.row].status = "PENDING"
        /\ o.kind # "CREATE" => journal[o.row].post = o.post
    BY DEF SoundRequest, RowSound
  <2>2. CASE journal'[o.row] = journal[o.row]
    BY <2>1, <2>2 DEF RowSound, Kept, RowsKept
  <2>3. CASE journal'[o.row] # journal[o.row]
    <3>1. Holding(q) /\ q.row = o.row
      BY <2>1, <2>3 DEF Kept, RowsKept
    <3> QED  BY <2>1, <3>1 DEF RowSound, Kept, RowsKept
  <2> QED  BY <2>2, <2>3
<1>4. DraftSound(o)'
  BY <1>1 DEF SoundRequest, DraftSound
<1>5. CallSound(o)'
  <2>1. ASSUME o.kind = "CREATE", o.phase \in { "start", "reading", "calling" }, NEW p \in PostOf(o.key)'
        PROVE  FALSE
    <3>1. p \in DOMAIN posts' /\ posts'[p].key = o.key
      BY DEF PostOf
    <3>2. p \notin DOMAIN posts
      BY <2>1, <3>1 DEF SoundRequest, CallSound, PostOf, Kept, PostsKept
    <3>3. q.key = o.key /\ q.kind = "CREATE" /\ q.phase = "calling"
      BY <3>1, <3>2 DEF Kept, PostsKept
    <3>4. Holding(q) /\ Holding(o)
      BY <2>1, <3>3 DEF Holding, Mutations
    <3>5. q.row = o.row
      BY <3>3, <3>4 DEF SoundRequest, RowSound, JournalSound
    <3> QED  BY <3>3, <3>4, <3>5 DEF SoundRequest, RowSound
  <2>2. o.kind # "CREATE" /\ o.phase \notin { "idle", "reading" } => o.post \in DOMAIN posts
    BY DEF SoundRequest, DraftSound, CompletedCreate, JournalSound
  <2>3. PostOf(o.key) \subseteq PostOf(o.key)'
    BY DEF PostOf, Kept, PostsKept
  <2> QED  BY <2>1, <2>2, <2>3 DEF SoundRequest, CallSound, Kept, PostsKept, Mutations
<1> QED  BY <1>2, <1>3, <1>4, <1>5 DEF SoundRequest

Alone(r) == \A s \in Requests : s # r => request'[s] = request[s]

-----------------------------------------------------------------------------
(* The request that acts *)

LEMMA SetAlone ==
  ASSUME TypeOK, NEW r \in Requests, NEW held, Set(r, held)
  PROVE  Alone(r) /\ request'[r] = held
BY DEF TypeOK, Set, Alone

LEMMA NoRequestSound == SoundRequest(NoRequest) /\ ~ Holding(NoRequest)
BY DEF NoRequest, SoundRequest, PhaseSound, RowSound, DraftSound, CallSound, Holding, Mutations

Stores == journal' = journal /\ posts' = posts

LEMMA StoresKept ==
  ASSUME Stores, NEW q
  PROVE  Kept(q)
BY DEF Stores, Kept, RowsKept, PostsKept

Continues(q, next) ==
  /\ next.key = q.key /\ next.kind = q.kind /\ next.row = q.row /\ next.retry = q.retry

\* What the step of a request does to it, besides what Kept says.
Advance(r) ==
  /\ Alone(r) /\ Kept(request[r]) /\ SoundRequest(request[r])'
  /\ request'[r].kind = "CREATE" =>
       \/ request[r].kind = "CREATE" /\ Continues(request[r], request'[r])
       \/ "overlap" \in causes' \/ \A s \in Requests : request[s].kind # "CREATE"
  /\ Holding(request'[r]) =>
       \/ Holding(request[r]) /\ Continues(request[r], request'[r])
       \/ request'[r].row \notin DOMAIN journal
       \/ request'[r].retry /\ journal[request'[r].row].status = "FAILED"

LEMMA StableStores ==
  ASSUME NEW CONSTANT h, Stores
  PROVE  SoundRequest(h)' <=> SoundRequest(h)
BY DEF Stores, SoundRequest, PhaseSound, RowSound, DraftSound, CallSound, CompletedCreate, PostOf, Holding

\* A step that leaves journal and posts alone.
LEMMA QuietAdvance ==
  ASSUME TypeOK, NEW r \in Requests, NEW CONSTANT h, Set(r, h), Stores, SoundRequest(h),
         h.kind = "CREATE" => Continues(request[r], h),
         Holding(h) => Holding(request[r]) /\ Continues(request[r], h)
  PROVE  Advance(r)
<1>1. Alone(r) /\ request'[r] = h
  BY SetAlone
<1>2. Kept(request[r])
  BY StoresKept
<1>3. SoundRequest(h)'
  BY StableStores
<1> QED  BY <1>1, <1>2, <1>3 DEF Advance, Continues, Holding, SoundRequest

\* A request that ends leaves no trace but in the stores.
LEMMA FinishAdvance ==
  ASSUME TypeOK, NEW r \in Requests, Finish(r), Kept(request[r])
  PROVE  Advance(r)
<1>1. Alone(r) /\ request'[r] = NoRequest
  BY SetAlone DEF Finish
<1>2. SoundRequest(request[r])'
  BY <1>1 DEF NoRequest, SoundRequest, PhaseSound, RowSound, DraftSound, CallSound, Holding, Mutations
<1> QED  BY <1>1, <1>2 DEF Advance, NoRequest, Holding, Mutations

LEMMA RequestAdvances ==
  ASSUME TypeOK, JournalSound, NEW r \in Requests, SoundRequest(request[r]), RequestStep(r)
  PROVE  Advance(r)
<1>. PICK q : q = request[r]
  OBVIOUS
<1>0. /\ TypeOK /\ q \in Request /\ request[r] = q /\ SoundRequest(q) /\ PhaseSound(q)
      /\ journal \in Seq(Row) /\ posts \in Seq([ key : Keys, state : PostStates ])
      /\ DOMAIN journal \subseteq Nat \ {0} /\ DOMAIN posts \subseteq Nat \ {0}
      /\ \A i \in DOMAIN journal : journal[i] \in Row
      /\ \A p \in DOMAIN posts : posts[p] \in [ key : Keys, state : PostStates ]
  BY Indices DEF TypeOK, SoundRequest
<1>a. q.phase \notin { "idle", "reading" } /\ q.kind # "CREATE" => q.post \in DOMAIN posts
  BY <1>0 DEF SoundRequest, DraftSound, CompletedCreate, JournalSound
<1>b. Finish(r) /\ Stores => Advance(r)
  BY <1>0, FinishAdvance, StoresKept
<1>1. ASSUME NEW kind \in Kinds, NEW key \in Keys \cup {NoKey}, ReadJournal(r, kind, key)
      PROVE  Advance(r)
  <2>1. Stores
    BY <1>1 DEF ReadJournal, Stores, storeVars
  <2>2. \A c \in OpenCreates : CompletedCreate(c)
    BY DEF OpenCreates, CompletedCreate
  <2>3. CASE q = NoRequest
    <3>. PICK h : h = Reading([ NoRequest EXCEPT !.kind = kind, !.key = key ])
      OBVIOUS
    <3>1. /\ h.phase = "reading" /\ h.kind = kind /\ h.open = OpenCreates /\ ~ h.notFound /\ ~ h.retry
      BY DEF Reading, NoRequest
    <3>2. kind # "CREATE" /\ Set(r, h)
      BY <1>0, <1>1, <2>3 DEF ReadJournal, NoRequest
    <3>3. SoundRequest(h) /\ ~ Holding(h)
      BY <2>2, <3>1, <3>2
      DEF SoundRequest, PhaseSound, RowSound, DraftSound, CallSound, Holding, Kinds, Mutations
    <3> QED  BY <1>0, <2>1, <3>1, <3>2, <3>3, QuietAdvance
  <2>4. CASE q.phase = "start"
    <3>. PICK h : h = Reading(q)
      OBVIOUS
    <3>1. h = [ q EXCEPT !.phase = "reading", !.open = OpenCreates,
                         !.marked = OpenCreates \cap reconciled ]
      BY DEF Reading
    <3>2. Set(r, h) /\ q.kind = "CREATE"
      BY <1>0, <1>1, <2>4 DEF ReadJournal, NoRequest, PhaseSound
    <3>3. /\ h.phase = "reading" /\ h.kind = "CREATE" /\ h.open = OpenCreates
          /\ h.notFound = q.notFound /\ Continues(q, h) /\ Holding(h) /\ Holding(q) /\ h.post = q.post
      BY <1>0, <2>4, <3>1, <3>2 DEF Request, Continues, Holding, Mutations
    <3>4. SoundRequest(h)
      BY <1>0, <2>2, <2>4, <3>2, <3>3
      DEF SoundRequest, PhaseSound, RowSound, DraftSound, CallSound, Continues
    <3> QED  BY <1>0, <2>1, <3>2, <3>3, <3>4, QuietAdvance
  <2> QED  BY <1>0, <1>1, <2>3, <2>4 DEF ReadJournal
<1>7. CASE MutateMissing(r)
  <2>. PICK h : h = [ q EXCEPT !.phase = "failed", !.notFound = (mode = "MOCK") ]
    OBVIOUS
  <2>1. /\ Set(r, h) /\ Stores /\ q.phase = "calling" /\ q.kind \in Mutations \ { "CREATE" }
        /\ posts[q.post].state = "DELETED"
    BY <1>0, <1>7 DEF MutateMissing, Calls, Gone, Stores, storeVars
  <2>2. /\ h.phase = "failed" /\ Continues(q, h) /\ h.post = q.post /\ h.create = q.create
    BY <1>0 DEF Request, Continues
  <2>3. SoundRequest(h) /\ Holding(h) /\ Holding(q)
    BY <1>0, <2>1, <2>2
    DEF SoundRequest, PhaseSound, RowSound, DraftSound, CallSound, Continues, Holding
  <2> QED  BY <1>0, <2>1, <2>2, <2>3, QuietAdvance
<1>8. CASE Refuse(r)
  <2>1. Stores /\ q.phase \in { "calling", "listing" }
    BY <1>0, <1>8 DEF Refuse, Stores, storeVars
  <2>2. CASE q.kind \in Mutations
    <3>. PICK h : h = [ q EXCEPT !.phase = "failed" ]
      OBVIOUS
    <3>1. Set(r, h) /\ q.phase = "calling"
      BY <1>0, <1>8, <2>1, <2>2 DEF Refuse, Goto, PhaseSound
    <3>2. /\ h.phase = "failed" /\ Continues(q, h) /\ h.post = q.post /\ h.create = q.create
      BY <1>0 DEF Request, Continues
    <3>4. SoundRequest(h) /\ Holding(h) /\ Holding(q)
      BY <1>0, <2>2, <3>1, <3>2
      DEF SoundRequest, PhaseSound, RowSound, DraftSound, CallSound, Continues, Holding
    <3> QED  BY <1>0, <2>1, <3>1, <3>2, <3>4, QuietAdvance
  <2>3. CASE q.kind \notin Mutations
    BY <1>0, <1>b, <1>8, <2>1, <2>3 DEF Refuse
  <2> QED  BY <2>2, <2>3
<1>2. ASSUME NEW key \in Keys, reserve(r, key)
      PROVE  Advance(r)
  <2>0. posts' = posts
    BY <1>2 DEF reserve
  <2>1. ASSUME NEW CONSTANT held, NEW next \in { "start", "calling" }, Reserve(r, held, next),
               held \in Request, held.key \in Keys, held.kind \in Mutations, ~ held.retry,
               ~ held.notFound,
               \/ /\ held.kind = "CREATE" /\ next = "start"
                  /\ causes' = IF \E other \in Requests : request[other].kind = "CREATE"
                               THEN causes \cup { "overlap" } ELSE causes
               \/ /\ held.kind # "CREATE" /\ next = "calling"
                  /\ CompletedCreate(held.create) /\ journal[held.create].post = held.post
        PROVE  Advance(r)
    <3>1. CASE RowsOf(held.key) = {}
      <4>. PICK row : row = [ key |-> held.key, kind |-> held.kind, status |-> "PENDING",
                              post |-> held.post ]
        OBVIOUS
      <4>. PICK h : h = [ held EXCEPT !.phase = next, !.row = Len(journal) + 1 ]
        OBVIOUS
      <4>1. row \in Row /\ row.key = held.key /\ row.kind = held.kind /\ row.post = held.post
            /\ row.status = "PENDING"
        BY <2>1 DEF Row, Request
      <4>2. journal' = Append(journal, row) /\ Set(r, h)
        BY <2>1, <3>1 DEF Reserve
      <4>3. /\ DOMAIN journal' = DOMAIN journal \cup { Len(journal) + 1 }
            /\ \A i \in DOMAIN journal : journal'[i] = journal[i]
            /\ journal'[Len(journal) + 1] = row /\ Len(journal) + 1 \notin DOMAIN journal
        BY <1>0, <4>1, <4>2, Appended
      <4>4. Kept(q)
        BY <2>0, <3>1, <4>1, <4>3 DEF Kept, RowsKept, PostsKept
      <4>5. /\ h.phase = next /\ h.key = held.key /\ h.kind = held.kind /\ h.post = held.post
            /\ h.create = held.create /\ h.row = Len(journal) + 1 /\ ~ h.retry /\ ~ h.notFound
        BY <2>1 DEF Request
      <4>6. held.kind = "CREATE" => PostOf(held.key)' = {}
        BY <2>0, <3>1 DEF RowsOf, PostOf, JournalSound
      <4>7. PhaseSound(h)' /\ RowSound(h)'
        BY <2>1, <4>1, <4>3, <4>5 DEF PhaseSound, RowSound, Mutations
      <4>8. DraftSound(h)'
        BY <2>1, <4>3, <4>5 DEF DraftSound, CompletedCreate
      <4>9. CallSound(h)'
        BY <2>1, <4>5, <4>6 DEF CallSound
      <4>10. Alone(r) /\ request'[r] = h
        BY <1>0, <4>2, SetAlone
      <4> QED  BY <1>0, <2>1, <4>4, <4>5, <4>7, <4>8, <4>9, <4>10 DEF Advance, SoundRequest
    <3>2. CASE RowsOf(held.key) # {}
      <4>1. PICK i \in RowsOf(held.key) :
              /\ IF Retried(held, i)
                 THEN Set(r, [ held EXCEPT !.phase = next, !.row = i, !.retry = TRUE ])
                 ELSE Finish(r)
              /\ UNCHANGED journal
        BY <2>1, <3>2 DEF Reserve
      <4>2. Stores
        BY <2>0, <4>1 DEF Stores
      <4>3. CASE ~ Retried(held, i)
        BY <1>b, <4>1, <4>2, <4>3
      <4>4. CASE Retried(held, i)
        <5>. PICK h : h = [ held EXCEPT !.phase = next, !.row = i, !.retry = TRUE ]
          OBVIOUS
        <5>1. /\ h.phase = next /\ h.key = held.key /\ h.kind = held.kind /\ h.post = held.post
              /\ h.create = held.create /\ h.row = i /\ h.retry /\ ~ h.notFound
          BY <2>1 DEF Request
        <5>2. /\ held.kind = "DELETE" /\ journal[i].kind = "DELETE" /\ journal[i].post = held.post
              /\ journal[i].status = "FAILED" /\ i \in DOMAIN journal /\ journal[i].key = held.key
          BY <4>4 DEF Retried, RowsOf
        <5>3. SoundRequest(h)
          BY <2>1, <5>1, <5>2
          DEF SoundRequest, PhaseSound, RowSound, DraftSound, CallSound, Holding, Mutations
        <5>4. SoundRequest(h)' /\ Kept(q)
          BY <4>2, <5>3, StableStores, StoresKept
        <5>5. Alone(r) /\ request'[r] = h
          BY <1>0, <4>1, <4>4, SetAlone
        <5> QED  BY <1>0, <5>1, <5>2, <5>4, <5>5 DEF Advance, SoundRequest
      <4> QED  BY <4>3, <4>4
    <3> QED  BY <3>1, <3>2
  <2>2. CASE /\ q = NoRequest
             /\ Reserve(r, [ NoRequest EXCEPT !.kind = "CREATE", !.key = key ], "start")
             /\ causes' = IF \E other \in Requests : request[other].kind = "CREATE"
                          THEN causes \cup { "overlap" } ELSE causes
    <3>. PICK held : held = [ NoRequest EXCEPT !.kind = "CREATE", !.key = key ]
      OBVIOUS
    <3>1. held \in Request
      BY NoRequestTyped DEF Request, Kinds, Mutations
    <3>2. held.key = key /\ held.kind = "CREATE" /\ ~ held.retry /\ ~ held.notFound
      BY DEF NoRequest
    <3>3. held.kind \in Mutations
      BY <3>2 DEF Mutations
    <3> QED  BY <2>1, <2>2, <3>1, <3>2, <3>3
  <2>3. CASE q.phase = "current" /\ key = q.key /\ Reserve(r, q, "calling")
    <3>1. q.kind \in Mutations /\ q.kind # "CREATE" /\ ~ q.notFound /\ ~ q.retry
      BY <1>0, <2>3 DEF PhaseSound, Holding
    <3>2. CompletedCreate(q.create) /\ journal[q.create].post = q.post
      BY <1>0, <2>3, <3>1 DEF SoundRequest, DraftSound
    <3> QED  BY <1>0, <2>1, <2>3, <3>1, <3>2
  <2> QED  BY <1>0, <1>2, <2>2, <2>3 DEF reserve
<1>3. CASE SelectCurrent(r)
  <2>0. posts' = posts /\ q.phase = "reading"
    BY <1>0, <1>3 DEF SelectCurrent
  <2>1. CASE q.kind = "CREATE" /\ CreateRefused(r)
    <3>1. Finish(r) /\ journal' = [ journal EXCEPT ![q.row].status = "FAILED" ]
      BY <1>0, <1>3, <2>1 DEF SelectCurrent
    <3>2. Holding(q) /\ q.row \in DOMAIN journal
      BY <1>0, <2>0, <2>1 DEF Holding, SoundRequest, RowSound
    <3>3. Kept(q)
      BY <1>0, <2>0, <2>1, <3>1, <3>2 DEF Kept, RowsKept, PostsKept, Row
    <3> QED  BY <1>0, <3>1, <3>3, FinishAdvance
  <2>2. CASE q.kind = "CREATE" /\ ~ CreateRefused(r)
    <3>. PICK h : h = [ q EXCEPT !.phase = "calling", !.open = {}, !.marked = {} ]
      OBVIOUS
    <3>1. Set(r, h) /\ Stores
      BY <1>0, <1>3, <2>0, <2>2 DEF SelectCurrent, Stores
    <3>2. /\ h.phase = "calling" /\ Continues(q, h) /\ h.notFound = q.notFound
          /\ Holding(h) /\ Holding(q)
      BY <1>0, <2>0, <2>2 DEF Request, Continues, Holding, Mutations
    <3>3. SoundRequest(h)
      BY <1>0, <2>0, <2>2, <3>2
      DEF SoundRequest, PhaseSound, RowSound, DraftSound, CallSound, Continues
    <3> QED  BY <1>0, <3>1, <3>2, <3>3, QuietAdvance
  <2>3. CASE q.kind # "CREATE" /\ Candidates(r) = {}
    <3>1. Finish(r) /\ Stores
      BY <1>0, <1>3, <2>0, <2>3 DEF SelectCurrent, Stores
    <3> QED  BY <1>b, <3>1
  <2>4. CASE q.kind # "CREATE" /\ Candidates(r) # {}
    <3>1. PICK c \in Candidates(r) :
            Set(r, [ q EXCEPT
                       !.phase = IF q.kind \in Mutations THEN "current" ELSE "calling",
                       !.open = {}, !.marked = {},
                       !.create = c, !.post = journal[c].post,
                       !.recover = q.kind = "CURRENT" /\ local[journal[c].post] = "DELETED" ])
      BY <1>0, <1>3, <2>4 DEF SelectCurrent
    <3>. PICK h : h = [ q EXCEPT
                       !.phase = IF q.kind \in Mutations THEN "current" ELSE "calling",
                       !.open = {}, !.marked = {},
                       !.create = c, !.post = journal[c].post,
                       !.recover = q.kind = "CURRENT" /\ local[journal[c].post] = "DELETED" ]
      OBVIOUS
    <3>2. Set(r, h) /\ Stores
      BY <1>0, <1>3, <2>0, <2>4, <3>1 DEF SelectCurrent, Stores
    <3>3. /\ h.phase = IF q.kind \in Mutations THEN "current" ELSE "calling"
          /\ h.kind = q.kind /\ h.create = c /\ h.post = journal[c].post /\ h.notFound = q.notFound
          /\ h.retry = q.retry
      BY <1>0 DEF Request
    <3>4. CompletedCreate(c)
      BY <1>0, <2>0 DEF Candidates, SoundRequest, DraftSound
    <3>5. SoundRequest(h) /\ ~ Holding(h)
      BY <1>0, <2>0, <2>4, <3>3, <3>4
      DEF SoundRequest, PhaseSound, RowSound, DraftSound, CallSound, Holding, Request
    <3> QED  BY <1>0, <2>4, <3>2, <3>3, <3>5, QuietAdvance
  <2> QED  BY <2>1, <2>2, <2>3, <2>4
<1>4. ASSUME Effect(r)
      PROVE  /\ Kept(q) /\ journal' = journal /\ q.phase = "calling" /\ q.kind \in Mutations
             /\ Holding(q) /\ DOMAIN posts \subseteq DOMAIN posts'
             /\ q.kind = "CREATE" => CalledPost(r) \in PostOf(q.key)'
             /\ q.kind # "CREATE" => CalledPost(r) = q.post /\ posts'[q.post].state = StateAfter(r)
  <2>1. /\ q.phase = "calling" /\ q.kind \in Mutations /\ journal' = journal /\ Holding(q)
        /\ q.kind # "CREATE" => posts[q.post].state # "DELETED"
    BY <1>0, <1>4 DEF Effect, Calls, Possible, Gone, Holding
  <2>2. CASE q.kind = "CREATE"
    <3>1. q.key \in Keys
      BY <1>0, <2>1 DEF SoundRequest, RowSound, Row
    <3>2. NewPost(r) \in [ key : Keys, state : PostStates ] /\ NewPost(r).key = q.key
      BY <1>0, <3>1 DEF NewPost, PostStates
    <3>3. posts' = Append(posts, NewPost(r)) /\ CalledPost(r) = Len(posts) + 1
      BY <1>0, <1>4, <2>2 DEF Effect, CalledPost
    <3>4. /\ DOMAIN posts' = DOMAIN posts \cup { Len(posts) + 1 }
          /\ \A p \in DOMAIN posts : posts'[p] = posts[p]
          /\ posts'[Len(posts) + 1] = NewPost(r)
      BY <1>0, <3>2, <3>3, Appended
    <3> QED  BY <2>1, <2>2, <3>2, <3>3, <3>4 DEF Kept, RowsKept, PostsKept, PostOf
  <2>3. CASE q.kind # "CREATE"
    <3>1. q.post \in DOMAIN posts /\ posts[q.post] \in [ key : Keys, state : PostStates ]
      BY <1>0, <1>a, <2>1, <2>3
    <3>2. posts' = [ posts EXCEPT ![q.post] = [ posts[q.post] EXCEPT !.state = StateAfter(r) ] ]
          /\ CalledPost(r) = q.post
      BY <1>0, <1>4, <2>3 DEF Effect, CalledPost
    <3>3. StateAfter(r) = "DRAFT" => posts[q.post].state = "DRAFT"
      BY <1>0, <2>1, <2>3 DEF StateAfter
    <3> QED  BY <1>0, <2>1, <2>3, <3>1, <3>2, <3>3 DEF Kept, RowsKept, PostsKept
  <2> QED  BY <2>2, <2>3
<1>d. ASSUME Kept(q), journal' = journal, Holding(q), q.phase = "calling", NEW CONSTANT h,
             Set(r, h), Continues(q, h), h.create = q.create, ~ h.notFound,
             h.phase \in { "answered", "failed" }, q.kind # "CREATE" => h.post = q.post,
             CallSound(h)'
      PROVE  Advance(r)
  <2>1. Alone(r) /\ request'[r] = h
    BY <1>0, <1>d, SetAlone
  <2>2. q.kind \in Mutations
    BY <1>d DEF Holding
  <2>3. PhaseSound(h)' /\ Holding(h)
    BY <1>0, <1>d, <2>2 DEF PhaseSound, Continues, Holding, Mutations
  <2>4. RowSound(h)'
    BY <1>0, <1>d, <2>2 DEF SoundRequest, RowSound, Continues, Holding
  <2>5. DraftSound(h)'
    BY <1>0, <1>d, <2>2 DEF SoundRequest, DraftSound, Continues, CompletedCreate
  <2> QED  BY <1>0, <1>d, <2>1, <2>3, <2>4, <2>5 DEF Advance, SoundRequest, Continues
<1>5. CASE Mutate(r)
  <2>. PICK h : h = [ q EXCEPT !.phase = "answered", !.post = CalledPost(r), !.seen = StateAfter(r) ]
    OBVIOUS
  <2>1. /\ Effect(r) /\ Set(r, h)
    BY <1>0, <1>5 DEF Mutate, Answered
  <2>2. /\ h.phase = "answered" /\ Continues(q, h) /\ h.create = q.create /\ h.post = CalledPost(r)
        /\ h.notFound = q.notFound
    BY <1>0 DEF Request, Continues
  <2>3. q.kind \in { "PUBLISH", "DELETE" } => StateAfter(r) # "DRAFT"
    BY <1>0 DEF StateAfter
  <2>4. CallSound(h)'
    BY <1>4, <2>1, <2>2, <2>3 DEF CallSound, Continues
  <2>5. ~ q.notFound
    BY <1>0, <1>4, <2>1 DEF PhaseSound
  <2> QED  BY <1>d, <1>4, <2>1, <2>2, <2>4, <2>5
<1>6. CASE LoseAnswer(r)
  <2>. PICK h : h = [ q EXCEPT !.phase = "failed" ]
    OBVIOUS
  <2>1. Effect(r) /\ Set(r, h)
    BY <1>0, <1>6 DEF LoseAnswer, Goto
  <2>2. /\ h.phase = "failed" /\ Continues(q, h) /\ h.create = q.create /\ h.post = q.post
        /\ h.notFound = q.notFound
    BY <1>0 DEF Request, Continues
  <2>3. ~ q.notFound
    BY <1>0, <1>4, <2>1 DEF PhaseSound
  <2>4. CallSound(h)'
    BY <2>2, <2>3 DEF CallSound
  <2> QED  BY <1>d, <1>4, <2>1, <2>2, <2>3, <2>4
<1>9. ASSUME Answered(r, q.post, posts[q.post].state), Stores, q.kind \notin Mutations,
             q.phase \in { "calling", "listing" }
      PROVE  Advance(r)
  <2>. PICK h : h = [ q EXCEPT !.phase = "answered", !.post = q.post, !.seen = posts[q.post].state ]
    OBVIOUS
  <2>1. /\ h.phase = "answered" /\ h.kind = q.kind /\ h.create = q.create /\ h.post = q.post
        /\ h.notFound = q.notFound /\ h.retry = q.retry
    BY <1>0 DEF Request
  <2>2. Set(r, h)
    BY <1>0, <1>9 DEF Answered
  <2>3. SoundRequest(h) /\ ~ Holding(h)
    BY <1>0, <1>9, <2>1
    DEF SoundRequest, PhaseSound, RowSound, DraftSound, CallSound, Holding, Mutations
  <2> QED  BY <1>0, <1>9, <2>1, <2>2, <2>3, QuietAdvance DEF Mutations
<1>10. ASSUME NEW phase \in { "listing", "missing" }, Goto(r, phase), Stores, q.kind \notin Mutations,
              q.phase \in { "calling", "listing" }, phase = "missing" => posts[q.post].state # "DRAFT"
       PROVE  Advance(r)
  <2>. PICK h : h = [ q EXCEPT !.phase = phase ]
    OBVIOUS
  <2>1. /\ h.phase = phase /\ Continues(q, h) /\ h.create = q.create /\ h.post = q.post
        /\ h.notFound = q.notFound
    BY <1>0 DEF Request, Continues
  <2>2. Set(r, h)
    BY <1>0, <1>10 DEF Goto
  <2>3. SoundRequest(h) /\ ~ Holding(h)
    BY <1>0, <1>10, <2>1
    DEF SoundRequest, PhaseSound, RowSound, DraftSound, CallSound, Holding, Mutations, Continues
  <2> QED  BY <1>0, <1>10, <2>1, <2>2, <2>3, QuietAdvance DEF Mutations
<1>11. CASE getPost(r)
  <2>1. Stores /\ q.phase = "calling" /\ q.kind \in { "CURRENT", "GET" } /\ q.kind \notin Mutations
    BY <1>0, <1>11 DEF getPost, Calls, Stores, storeVars, Mutations
  <2>2. CASE Answered(r, q.post, posts[q.post].state)
    BY <1>9, <2>1, <2>2
  <2>3. CASE mode = "LIVE" /\ Goto(r, "listing")
    BY <1>10, <2>1, <2>3
  <2>4. CASE NotFound(r) /\ posts[q.post].state = "DELETED"
    BY <1>0, <1>b, <1>10, <2>1, <2>4 DEF NotFound
  <2> QED  BY <1>0, <1>11, <2>2, <2>3, <2>4 DEF getPost
<1>12. CASE findDraftInAdminList(r)
  <2>1. Stores /\ q.phase = "listing" /\ q.kind \notin Mutations
    BY <1>0, <1>12 DEF findDraftInAdminList, Stores, storeVars, PhaseSound
  <2> QED  BY <1>0, <1>9, <1>10, <1>b, <1>12, <2>1 DEF findDraftInAdminList, NotFound
<1>13. CASE snapshot(r)
  <2>1. Stores /\ q.phase = "answered" /\ q.kind # "DELETE"
    BY <1>0, <1>13 DEF snapshot, Stores
  <2>2. CASE Finish(r)
    BY <1>b, <2>1, <2>2
  <2>3. ASSUME NEW phase \in { "snapped", "restoring" }, Goto(r, phase),
               phase = "snapped" => q.kind \in Mutations, phase = "restoring" => q.kind = "CURRENT"
        PROVE  Advance(r)
    <3>. PICK h : h = [ q EXCEPT !.phase = phase ]
      OBVIOUS
    <3>1. /\ h.phase = phase /\ Continues(q, h) /\ h.create = q.create /\ h.post = q.post
          /\ h.notFound = q.notFound
      BY <1>0 DEF Request, Continues
    <3>2. Set(r, h)
      BY <1>0, <2>3 DEF Goto
    <3>3. SoundRequest(h) /\ (Holding(h) <=> Holding(q))
      BY <1>0, <2>1, <2>3, <3>1
      DEF SoundRequest, PhaseSound, RowSound, DraftSound, CallSound, Holding, Mutations, Continues
    <3> QED  BY <1>0, <2>1, <3>1, <3>2, <3>3, QuietAdvance
  <2> QED  BY <1>0, <1>13, <2>2, <2>3 DEF snapshot
<1>14. CASE restoreReconciledDraft(r)
  BY <1>b, <1>14 DEF restoreReconciledDraft, Stores
<1>15. ASSUME Completed(r), Finish(r), Recording(q), Holding(q), posts' = posts,
              q.kind = "CREATE" => q.phase = "snapped"
       PROVE  Advance(r)
  <2>1. q.row \in DOMAIN journal /\ journal[q.row].kind = q.kind
        /\ (q.kind # "CREATE" => journal[q.row].post = q.post)
    BY <1>0, <1>15 DEF SoundRequest, RowSound
  <2>2. journal' = [ journal EXCEPT ![q.row] = [ journal[q.row] EXCEPT !.status = "COMPLETED",
                                                                       !.post = q.post ] ]
    BY <1>0, <1>15, <2>1 DEF Completed
  <2>3. Kept(q)
    BY <1>0, <1>15, <2>1, <2>2 DEF Kept, RowsKept, PostsKept, Row
  <2> QED  BY <1>0, <1>15, <2>3, FinishAdvance
<1>16. CASE complete(r)
  <2>1. q.phase = "snapped" /\ posts' = posts /\ Completed(r) /\ Finish(r)
    BY <1>0, <1>16 DEF complete
  <2>2. Holding(q) /\ Recording(q)
    BY <1>0, <2>1 DEF PhaseSound, Holding, Recording
  <2> QED  BY <1>15, <2>1, <2>2
<1>17. CASE DeletionRecorded(r)
  <2>1. /\ q.kind = "DELETE" /\ posts' = posts /\ Completed(r) /\ Finish(r)
        /\ q.phase = "answered" \/ (q.phase = "failed" /\ q.notFound)
    BY <1>0, <1>17 DEF DeletionRecorded
  <2>2. Holding(q) /\ Recording(q)
    BY <2>1 DEF Holding, Recording, Mutations
  <2> QED  BY <1>15, <2>1, <2>2
<1>18. CASE fail(r)
  <2>1. /\ q.phase = "failed" /\ posts' = posts /\ ~ (q.kind = "DELETE" /\ q.notFound)
        /\ journal' = [ journal EXCEPT ![q.row].status = "FAILED" ]
        /\ IF q.notFound THEN Goto(r, "missing") ELSE Finish(r)
    BY <1>0, <1>18 DEF fail
  <2>2. Holding(q) /\ q.row \in DOMAIN journal /\ q.kind \in Mutations
    BY <1>0, <2>1 DEF Holding, SoundRequest, RowSound, PhaseSound
  <2>3. Kept(q)
    BY <1>0, <2>1, <2>2 DEF Kept, RowsKept, PostsKept, Row
  <2>4. CASE q.notFound
    <3>. PICK h : h = [ q EXCEPT !.phase = "missing" ]
      OBVIOUS
    <3>1. /\ h.phase = "missing" /\ Continues(q, h) /\ h.create = q.create /\ h.post = q.post
          /\ h.notFound
      BY <1>0, <2>4 DEF Request, Continues
    <3>2. Alone(r) /\ request'[r] = h
      BY <1>0, <2>1, <2>4, SetAlone DEF Goto
    <3>3. q.kind # "CREATE" /\ posts[q.post].state # "DRAFT" /\ ~ q.retry
      BY <1>0, <2>1, <2>2, <2>4 DEF SoundRequest, CallSound, RowSound
    <3>4. CompletedCreate(q.create) /\ journal[q.create].post = q.post
      BY <1>0, <2>1, <3>3 DEF SoundRequest, DraftSound
    <3>5. CompletedCreate(q.create)' /\ journal'[q.create] = journal[q.create]
      BY <1>0, <2>3, <3>4, CreatesKept
    <3>6. ~ Holding(h) /\ PhaseSound(h)' /\ RowSound(h)' /\ DraftSound(h)' /\ CallSound(h)'
      BY <2>1, <2>2, <3>1, <3>3, <3>4, <3>5
      DEF PhaseSound, RowSound, DraftSound, CallSound, Holding, Continues, Mutations
    <3> QED  BY <1>0, <2>3, <3>1, <3>2, <3>3, <3>6 DEF Advance, SoundRequest, Continues
  <2>5. CASE ~ q.notFound
    BY <1>0, <2>1, <2>3, <2>5, FinishAdvance
  <2> QED  BY <2>4, <2>5
<1>19. CASE reconcileMissing(r)
  BY <1>b, <1>19 DEF reconcileMissing, Stores
<1> QED  BY <1>1, <1>2, <1>3, <1>5, <1>6, <1>7, <1>8, <1>11, <1>12, <1>13, <1>14,
            <1>16, <1>17, <1>18, <1>19 DEF RequestStep

-----------------------------------------------------------------------------
(* Steps without a cause for a second draft *)

\* The local copy of a draft is marked DELETED only with a cause.
LocalKept ==
  /\ causes \subseteq causes'
  /\ \A p \in DOMAIN posts' : local'[p] = "DELETED" =>
       \/ p \in DOMAIN posts /\ (local[p] = "DELETED" \/ posts[p].state # "DRAFT")
       \/ "missing" \in causes'

LEMMA MarkKept ==
  ASSUME TypeOK, NEW p \in DOMAIN posts, NEW status, Mark(p, status), posts' = posts
  PROVE  LocalKept
BY DEF TypeOK, Mark, LocalKept

LEMMA LocalUnchanged ==
  ASSUME PostsKept(NoRequest), local' = local, causes \subseteq causes'
  PROVE  LocalKept
BY DEF LocalKept, PostsKept, NoRequest

LEMMA RequestKeepsLocal ==
  ASSUME Types, NEW r \in Requests, RequestStep(r)
  PROVE  LocalKept
<1> DEFINE q == request[r]
<1>0. /\ TypeOK /\ PhaseSound(q)
      /\ q.phase \notin { "idle", "reading" } /\ q.kind # "CREATE" => q.post \in DOMAIN posts
      /\ q.phase \in { "answered", "snapped" } => q.post \in DOMAIN posts
  BY References DEF Types, RequestSound
<1>1. posts' = posts /\ local' = local /\ causes \subseteq causes' => LocalKept
  BY DEF LocalKept
<1>2. ASSUME NEW kind \in Kinds, NEW key \in Keys \cup {NoKey}, ReadJournal(r, kind, key)
      PROVE  LocalKept
  BY <1>1, <1>2 DEF ReadJournal, storeVars
<1>3. ASSUME NEW key \in Keys, reserve(r, key)
      PROVE  LocalKept
  BY <1>1, <1>3 DEF reserve
<1>4. SelectCurrent(r) \/ MutateMissing(r) \/ Refuse(r) \/ getPost(r) \/ findDraftInAdminList(r)
        \/ complete(r) \/ fail(r) => LocalKept
  BY <1>1 DEF SelectCurrent, MutateMissing, Refuse, getPost, findDraftInAdminList, complete,
              fail, storeVars
<1>5. ASSUME Effect(r)
      PROVE  LocalKept
  <2>1. CASE q.kind = "CREATE"
    <3>1. local \in Seq(PostStates \cup { "NONE" }) /\ DOMAIN local = DOMAIN posts
      <4>1. DOMAIN posts = 1 .. Len(posts) /\ Len(posts) \in Nat
        BY <1>0 DEF TypeOK
      <4> QED  BY <1>0, <4>1, Listed DEF TypeOK
    <3>2. /\ local' = Append(local, "NONE") /\ causes' = causes
      BY <1>5, <2>1 DEF Effect
    <3>3. /\ DOMAIN local' = DOMAIN local \cup { Len(local) + 1 }
          /\ \A i \in DOMAIN local : local'[i] = local[i]
          /\ local'[Len(local) + 1] = "NONE"
      BY <3>1, <3>2, Appended
    <3>4. DOMAIN posts' = DOMAIN local'
      BY <1>0, <1>5, RequestStepTyped DEF Types, TypeOK
    <3> QED  BY <3>1, <3>2, <3>3, <3>4 DEF LocalKept
  <2>2. CASE q.kind # "CREATE"
    <3>1. local' = local /\ causes' = causes /\ DOMAIN posts' = DOMAIN posts
      BY <1>0, <1>5, <2>2 DEF Effect, TypeOK
    <3> QED  BY <3>1 DEF LocalKept
  <2> QED  BY <2>1, <2>2
<1>6. Mutate(r) \/ LoseAnswer(r) => LocalKept
  BY <1>5 DEF Mutate, LoseAnswer
<1>7. CASE snapshot(r)
  BY <1>0, <1>7, MarkKept DEF snapshot
<1>8. CASE restoreReconciledDraft(r)
  BY <1>0, <1>8, MarkKept DEF restoreReconciledDraft, PhaseSound
<1>9. CASE DeletionRecorded(r)
  BY <1>0, <1>9, MarkKept DEF DeletionRecorded
<1>10. CASE reconcileMissing(r)
  <2>1. q.kind # "CREATE"
    BY <1>10 DEF reconcileMissing, Types, RequestSound, CallSound
  <2> QED  BY <1>0, <1>10, <2>1, MarkKept DEF reconcileMissing
<1> QED  BY <1>2, <1>3, <1>4, <1>6, <1>7, <1>8, <1>9, <1>10 DEF RequestStep

\* How a create gets past the check for a current draft.
CreatePath(r) ==
  request'[r].kind = "CREATE" =>
    \/ request'[r].phase \in { "start", "failed" }
    \/ request'[r].phase = "reading" /\ request'[r].open = OpenCreates /\ Stores
    \/ /\ request'[r].phase = "calling" /\ Stores
       /\ request[r].kind = "CREATE" /\ request[r].phase = "reading" /\ Candidates(r) = {}
    \/ /\ request'[r].phase \in { "answered", "snapped" }
       /\ request[r].kind = "CREATE" /\ request[r].phase \in { "calling", "answered" }

LEMMA CreatesTakePath ==
  ASSUME Types, NEW r \in Requests, RequestStep(r)
  PROVE  CreatePath(r)
<1> DEFINE q == request[r]
<1>0. TypeOK /\ q \in Request /\ PhaseSound(q) /\ CallSound(q)
  BY References DEF Types, RequestSound
<1>1. Finish(r) => CreatePath(r)
  BY <1>0, SetAlone DEF Finish, NoRequest, CreatePath
<1>2. \A h : Set(r, h) => request'[r] = h
  BY <1>0 DEF Set, TypeOK
<1>3. \A phase : Goto(r, phase) => request'[r].phase = phase /\ request'[r].kind = q.kind
  BY <1>0, <1>2 DEF Goto, Request
<1>4. ASSUME NEW kind \in Kinds, NEW key \in Keys \cup {NoKey}, ReadJournal(r, kind, key)
      PROVE  CreatePath(r)
  <2>1. Stores
    BY <1>4 DEF ReadJournal, Stores, storeVars
  <2>2. \A h \in Request : Reading(h).phase = "reading" /\ Reading(h).open = OpenCreates
    BY DEF Reading, Request
  <2>3. [ NoRequest EXCEPT !.kind = kind, !.key = key ] \in Request
    BY NoRequestTyped DEF Request
  <2> QED  BY <1>0, <1>2, <1>4, <2>1, <2>2, <2>3 DEF ReadJournal, CreatePath
<1>5. ASSUME NEW key \in Keys, reserve(r, key)
      PROVE  CreatePath(r)
  <2>1. \A held \in Request, next \in { "start", "calling" } :
          Reserve(r, held, next) =>
            Finish(r) \/ (request'[r].phase = next /\ request'[r].kind = held.kind)
    <3>1. ASSUME NEW held \in Request, NEW next \in { "start", "calling" }, Reserve(r, held, next)
          PROVE  Finish(r) \/ (request'[r].phase = next /\ request'[r].kind = held.kind)
      <4>1. \/ Finish(r)
            \/ \E i : \/ request'[r] = [ held EXCEPT !.phase = next, !.row = i ]
                      \/ request'[r] = [ held EXCEPT !.phase = next, !.row = i, !.retry = TRUE ]
        BY <1>2, <3>1 DEF Reserve
      <4> QED  BY <4>1 DEF Request
    <3> QED  BY <3>1
  <2>2. [ NoRequest EXCEPT !.kind = "CREATE", !.key = key ] \in Request
    BY NoRequestTyped DEF Request, Kinds, Mutations
  <2>3. q.phase = "current" => q.kind # "CREATE"
    BY <1>0 DEF PhaseSound
  <2> QED  BY <1>0, <1>1, <1>5, <2>1, <2>2, <2>3 DEF reserve, CreatePath
<1>6. CASE SelectCurrent(r)
  <2>1. CASE q.kind = "CREATE" /\ ~ CreateRefused(r)
    <3>1. [ q EXCEPT !.phase = "calling", !.open = {}, !.marked = {} ].phase = "calling"
      BY <1>0 DEF Request
    <3> QED  BY <1>2, <1>6, <2>1, <3>1 DEF SelectCurrent, CreateRefused, CreatePath, Stores
  <2>2. CASE q.kind = "CREATE" /\ CreateRefused(r)
    BY <1>1, <1>6, <2>2 DEF SelectCurrent
  <2>3. CASE q.kind # "CREATE"
    <3>1. ASSUME NEW c,
                 Set(r, [ q EXCEPT !.phase = IF q.kind \in Mutations THEN "current" ELSE "calling",
                                   !.open = {}, !.marked = {},
                                   !.create = c, !.post = journal[c].post,
                                   !.recover = q.kind = "CURRENT"
                                                 /\ local[journal[c].post] = "DELETED" ])
          PROVE  request'[r].kind = q.kind
      <4>. PICK phase, recover :
             /\ phase = IF q.kind \in Mutations THEN "current" ELSE "calling"
             /\ recover = (q.kind = "CURRENT" /\ local[journal[c].post] = "DELETED")
        OBVIOUS
      <4>1. request'[r] = [ q EXCEPT !.phase = phase, !.open = {}, !.marked = {},
                                     !.create = c, !.post = journal[c].post, !.recover = recover ]
        BY <1>2, <3>1
      <4> QED  BY <1>0, <4>1 DEF Request
    <3>2. Finish(r) \/ request'[r].kind = q.kind
      BY <1>6, <2>3, <3>1 DEF SelectCurrent
    <3> QED  BY <1>1, <2>3, <3>2 DEF CreatePath
  <2> QED  BY <2>1, <2>2, <2>3
<1>7. CASE Mutate(r)
  <2>1. /\ q.phase = "calling" /\ request'[r].phase = "answered" /\ request'[r].kind = q.kind
    BY <1>0, <1>2, <1>7 DEF Mutate, Effect, Calls, Answered, Request
  <2> QED  BY <2>1 DEF CreatePath
<1>8. CASE MutateMissing(r)
  <2>1. request'[r].kind = q.kind /\ q.kind # "CREATE"
    BY <1>0, <1>2, <1>8 DEF MutateMissing, Calls, Request
  <2> QED  BY <2>1 DEF CreatePath
<1>9. LoseAnswer(r) \/ Refuse(r) => CreatePath(r)
  BY <1>1, <1>3 DEF LoseAnswer, Refuse, CreatePath
<1>10. \A p, state : Answered(r, p, state) => request'[r].kind = q.kind
  BY <1>0, <1>2 DEF Answered, Request
<1>11. getPost(r) \/ findDraftInAdminList(r) => CreatePath(r)
  <2>1. getPost(r) \/ findDraftInAdminList(r) => q.kind # "CREATE"
    BY <1>0 DEF getPost, findDraftInAdminList, Calls, PhaseSound
  <2> QED  BY <1>1, <1>3, <1>10, <2>1 DEF getPost, findDraftInAdminList, NotFound, CreatePath
<1>12. CASE snapshot(r)
  BY <1>1, <1>3, <1>12 DEF snapshot, CreatePath
<1>13. restoreReconciledDraft(r) \/ complete(r) \/ DeletionRecorded(r) \/ reconcileMissing(r)
         => CreatePath(r)
  BY <1>1 DEF restoreReconciledDraft, complete, DeletionRecorded, reconcileMissing
<1>14. CASE fail(r)
  <2>1. q.notFound => q.kind # "CREATE"
    BY <1>0, <1>14 DEF fail, CallSound
  <2> QED  BY <1>1, <1>3, <1>14, <2>1 DEF fail, CreatePath
<1> QED  BY <1>4, <1>5, <1>6, <1>7, <1>8, <1>9, <1>11, <1>12, <1>13, <1>14 DEF RequestStep

LEMMA NoCauseKept ==
  ASSUME IInv, NEW r \in Requests, Advance(r), CreatePath(r), LocalKept, TypeOK'
  PROVE  NoCause'
<1>. PICK q : q = request[r]
  OBVIOUS
<1> SUFFICES ASSUME causes' = {}
             PROVE  /\ \A p \in DOMAIN posts' : posts'[p].state = "DRAFT" => local'[p] # "DELETED"
                    /\ \A s, t \in Requests :
                         request'[s].kind = "CREATE" /\ request'[t].kind = "CREATE" => s = t
                    /\ \A s \in Requests : CreateSound(request[s])'
                    /\ \A p, t \in TrackedDrafts' : p = t
  BY DEF NoCause
<1>0. /\ TypeOK /\ JournalSound /\ EndedIsNoDraft /\ SoundRequest(q) /\ request[r] = q /\ Kept(q)
      /\ \A s \in Requests : s # r => request'[s] = request[s]
  BY DEF IInv, RequestSound, SoundRequest, Advance, Alone
<1>1. /\ \A p \in DOMAIN posts : posts[p].state = "DRAFT" => local[p] # "DELETED"
      /\ \A s, t \in Requests : request[s].kind = "CREATE" /\ request[t].kind = "CREATE" => s = t
      /\ \A s \in Requests : CreateSound(request[s])
      /\ \A p, t \in TrackedDrafts : p = t
  BY DEF IInv, NoCause, LocalKept
<1>2. \A p \in TrackedDrafts' :
        p \in TrackedDrafts \/ (q.kind = "CREATE" /\ q.phase = "snapped" /\ p = q.post)
  BY <1>0, TrackedKept
<1>3. ASSUME NEW p \in DOMAIN posts', posts'[p].state = "DRAFT"
      PROVE  local'[p] # "DELETED"
  BY <1>0, <1>1, <1>3 DEF LocalKept, Kept, PostsKept
<1>4. \A s, t \in Requests :
        request'[s].kind = "CREATE" /\ request'[t].kind = "CREATE" => s = t
  BY <1>0, <1>1 DEF Advance
<1>5. ASSUME NEW s \in Requests, s # r, request[s].kind = "CREATE"
      PROVE  CreateSound(request[s])'
  <2>1. q.kind # "CREATE" /\ request'[s] = request[s]
    BY <1>0, <1>1, <1>5
  <2>2. TrackedDrafts' \subseteq TrackedDrafts
    BY <1>2, <2>1
  <2>3. ASSUME NEW c \in DOMAIN journal', CompletedCreate(c)', posts'[journal'[c].post].state = "DRAFT"
        PROVE  c \in DOMAIN journal /\ CompletedCreate(c) /\ posts[journal[c].post].state = "DRAFT"
    <3>1. c \in DOMAIN journal /\ journal'[c].kind = "CREATE" /\ journal'[c].status = "COMPLETED"
      BY <1>0, <2>3 DEF CompletedCreate, Kept, RowsKept
    <3>2. journal'[c] = journal[c]
      BY <1>0, <2>1, <3>1 DEF Kept, RowsKept, SoundRequest, RowSound
    <3> QED  BY <1>0, <2>3, <3>1, <3>2 DEF CompletedCreate, JournalSound, Kept, PostsKept
  <2>4. CreateSound(request[s])
    BY <1>1
  <2> QED  BY <2>1, <2>2, <2>3, <2>4 DEF CreateSound
<1>6. CreateSound(request[r])'
  <2> SUFFICES ASSUME request'[r].kind = "CREATE"
               PROVE  /\ request'[r].phase = "reading" =>
                           \A c \in DOMAIN journal' :
                             CompletedCreate(c)' /\ posts'[journal'[c].post].state = "DRAFT"
                               => c \in request'[r].open
                      /\ request'[r].phase \in { "calling", "answered", "snapped" } =>
                           TrackedDrafts' = {}
    BY DEF CreateSound
  <2>1. CASE request'[r].phase = "reading" /\ request'[r].open = OpenCreates /\ Stores
    <3>1. \A c \in DOMAIN journal :
            CompletedCreate(c) /\ posts[journal[c].post].state = "DRAFT" => c \in OpenCreates
      BY <1>0 DEF OpenCreates, CompletedCreate, EndedIsNoDraft, Ended, JournalSound
    <3> QED  BY <2>1, <3>1 DEF Stores, CompletedCreate
  <2>2. CASE /\ request'[r].phase = "calling" /\ Stores
             /\ q.kind = "CREATE" /\ q.phase = "reading" /\ Candidates(r) = {}
    <3>1. ASSUME NEW p \in TrackedDrafts
          PROVE  FALSE
      <4>1. PICK c \in DOMAIN journal : CompletedCreate(c) /\ journal[c].post = p
        BY DEF TrackedDrafts, CompletedCreate
      <4>2. c \in q.open /\ local[p] # "DELETED"
        BY <1>0, <1>1, <2>2, <4>1 DEF CreateSound, TrackedDrafts
      <4> QED  BY <1>0, <2>2, <4>1, <4>2 DEF Candidates
    <3> QED  BY <1>2, <2>2, <3>1
  <2>3. CASE /\ request'[r].phase \in { "answered", "snapped" }
             /\ q.kind = "CREATE" /\ q.phase \in { "calling", "answered" }
    BY <1>0, <1>1, <1>2, <2>3 DEF CreateSound
  <2>4. CASE request'[r].phase \in { "start", "failed" }
    BY <2>4
  <2> QED  BY <1>0, <2>1, <2>2, <2>3, <2>4 DEF CreatePath
<1>7. ASSUME NEW p \in TrackedDrafts', NEW t \in TrackedDrafts'
      PROVE  p = t
  BY <1>0, <1>1, <1>2 DEF CreateSound
<1>8. ASSUME NEW s \in Requests, s # r, request[s].kind # "CREATE"
      PROVE  CreateSound(request[s])'
  BY <1>0, <1>8 DEF CreateSound
<1> QED  BY <1>3, <1>4, <1>5, <1>6, <1>7, <1>8

-----------------------------------------------------------------------------
(* The invariant *)

LEMMA RequestKeepsInvariant ==
  ASSUME IInv, NEW r \in Requests, RequestStep(r)
  PROVE  IInv'
<1>0. Types /\ SoundRequest(request[r])
  BY DEF IInv, Types, RequestSound, SoundRequest
<1>1. TypeOK' /\ LocalKept /\ CreatePath(r)
  BY <1>0, RequestStepTyped, RequestKeepsLocal, CreatesTakePath
<1>2. Advance(r)
  BY <1>0, RequestAdvances DEF Types
<1>3. Kept(request[r]) /\ Alone(r)
  BY <1>2 DEF Advance
<1>4. JournalSound' /\ EndedIsNoDraft'
  BY <1>0, <1>3, JournalKept, EndedKept DEF IInv
<1>5. ASSUME NEW s \in Requests
      PROVE  SoundRequest(request[s])'
  <2>. PICK q : q = request[r]
    OBVIOUS
  <2>. PICK o : o = request[s]
    OBVIOUS
  <2>1. CASE s = r
    BY <1>2, <2>1 DEF Advance
  <2>2. CASE s # r
    <3>1. SoundRequest(q) /\ SoundRequest(o) /\ Kept(q) /\ request'[s] = o /\ JournalSound
          /\ (Holding(q) /\ Holding(o) /\ q.row = o.row => q.retry /\ o.retry)
      BY <1>0, <1>3, <2>2 DEF IInv, RequestSound, SoundRequest, OwnersApart, Alone
    <3>2. SoundRequest(o)'
      BY <3>1, OthersSound
    <3> QED  BY <3>1, <3>2 DEF SoundRequest
  <2> QED  BY <2>1, <2>2
<1>6. RequestSound'
  BY <1>5 DEF RequestSound, SoundRequest
<1>7. OwnersApart'
  <2>1. ASSUME NEW s \in Requests, s # r, Holding(request'[r]), Holding(request[s]),
               request'[r].row = request[s].row
        PROVE  request'[r].retry /\ request[s].retry
    <3>1. RowSound(request[s])
      BY DEF IInv, RequestSound
    <3>2. request[s].row \in DOMAIN journal
          /\ (~ request[s].retry => journal[request[s].row].status = "PENDING")
      BY <2>1, <3>1 DEF RowSound
    <3> QED  BY <1>2, <2>1, <3>2 DEF Advance, Continues, IInv, OwnersApart
  <2> QED  BY <1>3, <2>1 DEF OwnersApart, IInv, Alone, Holding
<1>8. NoCause'
  BY <1>1, <1>2, NoCauseKept
<1> QED  BY <1>1, <1>4, <1>6, <1>7, <1>8 DEF IInv

\* Syncs, Blogger and crashes take no draft for one that is not there.
LEMMA EnvironmentKeepsInvariant ==
  ASSUME IInv, Crash \/ \E p \in DOMAIN posts : SyncWrites(p) \/ ChangeOnBlogger(p)
  PROVE  IInv'
<1>0. TypeOK /\ TypeOK' /\ Types
  BY EnvironmentTyped DEF IInv, Types
<1>p. \A p \in DOMAIN posts : posts[p] \in [ key : Keys, state : PostStates ]
  BY <1>0, Indices DEF TypeOK
<1>1. PostsKept(NoRequest) /\ journal' = journal /\ DOMAIN posts' = DOMAIN posts
  <2>1. CASE Crash
    BY <1>0, <1>p, <2>1 DEF Crash, PostsKept, storeVars
  <2>2. ASSUME NEW p \in DOMAIN posts, SyncWrites(p)
        PROVE  PostsKept(NoRequest) /\ journal' = journal /\ DOMAIN posts' = DOMAIN posts
    BY <2>2 DEF SyncWrites, PostsKept
  <2>3. ASSUME NEW p \in DOMAIN posts, ChangeOnBlogger(p)
        PROVE  PostsKept(NoRequest) /\ journal' = journal /\ DOMAIN posts' = DOMAIN posts
    BY <1>0, <1>p, <2>3 DEF ChangeOnBlogger, PostsKept, storeVars
  <2> QED  BY <2>1, <2>2, <2>3
<1>2. LocalKept
  <2>1. CASE Crash
    BY <1>1, <2>1, LocalUnchanged DEF Crash, storeVars
  <2>2. ASSUME NEW p \in DOMAIN posts, SyncWrites(p)
        PROVE  LocalKept
    BY <1>0, <2>2, MarkKept DEF SyncWrites
  <2>3. ASSUME NEW p \in DOMAIN posts, ChangeOnBlogger(p)
        PROVE  LocalKept
    BY <1>1, <2>3, LocalUnchanged DEF ChangeOnBlogger, storeVars
  <2> QED  BY <2>1, <2>2, <2>3
<1>3. Kept(NoRequest) /\ SoundRequest(NoRequest) /\ ~ Holding(NoRequest)
  BY <1>1, NoRequestSound DEF Kept, RowsKept
<1>4. JournalSound' /\ EndedIsNoDraft'
  BY <1>3, JournalKept, EndedKept DEF IInv
<1>5. \A s \in Requests : request'[s] = request[s] \/ request'[s] = NoRequest
  BY <1>0 DEF Crash, SyncWrites, ChangeOnBlogger, TypeOK
<1>6. ASSUME NEW s \in Requests
      PROVE  SoundRequest(request[s])'
  <2>. PICK o : o = request'[s]
    OBVIOUS
  <2>1. SoundRequest(o) /\ JournalSound
    BY <1>3, <1>5 DEF IInv, RequestSound, SoundRequest
  <2>. PICK none : none = NoRequest
    OBVIOUS
  <2>2. SoundRequest(none) /\ Kept(none) /\ ~ Holding(none)
    BY <1>3
  <2>3. SoundRequest(o)'
    BY <2>1, <2>2, OthersSound
  <2> QED  BY <2>3 DEF SoundRequest
<1>7. RequestSound'
  BY <1>6 DEF RequestSound, SoundRequest
<1>8. OwnersApart'
  BY <1>3, <1>5 DEF OwnersApart, IInv
<1>9. NoCause'
  <2> SUFFICES ASSUME causes' = {}
               PROVE  /\ \A p \in DOMAIN posts' : posts'[p].state = "DRAFT" => local'[p] # "DELETED"
                      /\ \A s, t \in Requests :
                           request'[s].kind = "CREATE" /\ request'[t].kind = "CREATE" => s = t
                      /\ \A s \in Requests : CreateSound(request[s])'
                      /\ \A p, t \in TrackedDrafts' : p = t
    BY DEF NoCause
  <2>1. /\ \A p \in DOMAIN posts : posts[p].state = "DRAFT" => local[p] # "DELETED"
        /\ \A s, t \in Requests : request[s].kind = "CREATE" /\ request[t].kind = "CREATE" => s = t
        /\ \A s \in Requests : CreateSound(request[s])
        /\ \A p, t \in TrackedDrafts : p = t
    BY <1>2 DEF IInv, NoCause, LocalKept
  <2>2. TrackedDrafts' \subseteq TrackedDrafts
    BY <1>1 DEF TrackedDrafts, PostsKept
  <2>3. \A p \in DOMAIN posts' : posts'[p].state = "DRAFT" => local'[p] # "DELETED"
    BY <1>1, <1>2, <2>1 DEF LocalKept, PostsKept
  <2>4. NoRequest.kind # "CREATE"
    BY DEF NoRequest
  <2>5. ASSUME NEW s \in Requests
        PROVE  CreateSound(request[s])'
    <3>1. \A c \in DOMAIN journal' :
            CompletedCreate(c)' /\ posts'[journal'[c].post].state = "DRAFT" =>
              CompletedCreate(c) /\ posts[journal[c].post].state = "DRAFT"
      BY <1>1 DEF IInv, JournalSound, CompletedCreate, PostsKept
    <3>2. CreateSound(request[s])
      BY <2>1
    <3> QED  BY <1>1, <1>5, <2>2, <2>4, <3>1, <3>2 DEF CreateSound
  <2> QED  BY <1>5, <2>1, <2>2, <2>3, <2>4, <2>5
<1> QED  BY <1>0, <1>4, <1>7, <1>8, <1>9 DEF IInv

LEMMA InitInvariant == Init => IInv
<1> SUFFICES ASSUME Init PROVE IInv
  OBVIOUS
<1>1. TypeOK
  BY InitTyped
<1>2. \A r \in Requests : request[r] = NoRequest
  BY DEF Init
<1>3. PICK created :
        /\ Missing(created) /\ created \in Seq(Keys)
        /\ Len(created) <= 1
  <2>1. Missing(<<>>) \/ \E key \in Keys : Missing(<<key>>)
    BY DEF Init
  <2>2. <<>> \in Seq(Keys) /\ \A key \in Keys : <<key>> \in Seq(Keys)
    OBVIOUS
  <2>3. Len(<<>>) <= 1 /\ \A key \in Keys : Len(<<key>>) <= 1
    OBVIOUS
  <2>4. CASE Missing(<<>>)
    BY <2>2, <2>3, <2>4
  <2>5. ASSUME NEW key \in Keys, Missing(<<key>>)
        PROVE  \E created : /\ Missing(created) /\ created \in Seq(Keys)
                            /\ Len(created) <= 1
    BY <2>2, <2>3, <2>5
  <2> QED  BY <2>1, <2>4, <2>5
<1>4. /\ DOMAIN journal = DOMAIN created /\ DOMAIN posts = DOMAIN created
      /\ \A i \in DOMAIN created : journal[i].key = created[i] /\ journal[i].kind = "CREATE"
                                     /\ journal[i].status = "COMPLETED" /\ journal[i].post = i
                                     /\ posts[i].key = created[i] /\ posts[i].state = "DRAFT"
      /\ causes = {} => created = <<>>
  BY <1>3 DEF Missing
<1>5. JournalSound
  <2>1. \A i, j \in DOMAIN created : i = j
    BY <1>3
  <2> QED  BY <1>4, <2>1 DEF JournalSound
<1>6. RequestSound /\ OwnersApart
  BY <1>2, NoRequestSound DEF RequestSound, SoundRequest, OwnersApart
<1>7. EndedIsNoDraft
  BY <1>4 DEF EndedIsNoDraft, Ended
<1>8. NoCause
  <2>1. \A r \in Requests : request[r].kind # "CREATE"
    BY <1>2 DEF NoRequest
  <2>2. causes = {} => DOMAIN posts = {}
    BY <1>4
  <2> QED  BY <2>1, <2>2 DEF NoCause, CreateSound, TrackedDrafts
<1> QED  BY <1>1, <1>5, <1>6, <1>7, <1>8 DEF IInv

LEMMA NextInvariant == IInv /\ [Next]_vars => IInv'
<1> SUFFICES ASSUME IInv, [Next]_vars PROVE IInv'
  OBVIOUS
<1>1. ASSUME NEW r \in Requests, RequestStep(r)
      PROVE  IInv'
  BY <1>1, RequestKeepsInvariant
<1>2. CASE Crash \/ \E p \in DOMAIN posts : SyncWrites(p) \/ ChangeOnBlogger(p)
  BY <1>2, EnvironmentKeepsInvariant
<1>3. CASE UNCHANGED vars
  <2>1. TypeOK' /\ JournalSound' /\ OwnersApart' /\ EndedIsNoDraft'
    BY <1>3 DEF vars, IInv, TypeOK, JournalSound, OwnersApart, EndedIsNoDraft, Ended, Holding
  <2>2. RequestSound'
    BY <1>3 DEF vars, IInv, RequestSound, PhaseSound, RowSound, DraftSound, CallSound,
                CompletedCreate, PostOf, Holding
  <2>3. NoCause'
    BY <1>3 DEF vars, IInv, NoCause, CreateSound, CompletedCreate, TrackedDrafts
  <2> QED  BY <2>1, <2>2, <2>3 DEF IInv
<1> QED  BY <1>1, <1>2, <1>3, NextSteps

THEOREM Invariance == Spec => []IInv
<1> QED  BY InitInvariant, NextInvariant, PTL DEF Spec

-----------------------------------------------------------------------------
(* Theorems *)

\* Rows, copies, posts and requests keep their types.
THEOREM TypeCorrect == Spec => []TypeOK
<1>1. IInv => TypeOK
  BY DEF IInv
<1> QED  BY <1>1, Invariance, PTL

\* However often a create is sent, lost, refused or interrupted, a key makes one post, and
\* the row that completes it names that post.
THEOREM OnePostPerKey == Spec => []KeyMakesOnePost
<1>1. IInv => KeyMakesOnePost
  BY DEF IInv, JournalSound, KeyMakesOnePost
<1> QED  BY <1>1, Invariance, PTL

\* Two tracked drafts take creates that overlap, or a draft that was taken for missing.
THEOREM SecondDraftExplained == Spec => []SecondDraftHasCause
<1>1. ASSUME IInv, causes = {}
      PROVE  ~ Cardinality(TrackedDrafts) > 1
  <2>1. TrackedDrafts = {} \/ \E p : TrackedDrafts = {p}
    <3>1. \A p, q \in TrackedDrafts : p = q
      BY <1>1 DEF IInv, NoCause
    <3>2. \A p \in TrackedDrafts : TrackedDrafts = {p}
      BY <3>1
    <3> QED  BY <3>2
  <2>2. Cardinality(TrackedDrafts) \in { 0, 1 }
    BY <2>1, FS_EmptySet, FS_Singleton
  <2> QED  BY <2>2
<1>2. IInv => SecondDraftHasCause
  BY <1>1 DEF SecondDraftHasCause
<1> QED  BY <1>2, Invariance, PTL

\* What is reconciled as missing is no draft: the search of the drafts decides, and what
\* was a draft never becomes one again.
THEOREM OnlyMissingReconciled == Spec => ReconciledIsNoDraft
<1> DEFINE Step == \A c \in reconciled' \ reconciled : posts[journal[c].post].state # "DRAFT"
<1>1. ASSUME IInv, Next
      PROVE  Step
  <2>1. ASSUME NEW r \in Requests, reconcileMissing(r)
        PROVE  Step
    <3>1. /\ DraftSound(request[r]) /\ CallSound(request[r]) /\ request[r].phase = "missing"
      BY <1>1, <2>1 DEF IInv, RequestSound, reconcileMissing
    <3>2. journal[request[r].create].post = request[r].post
          /\ posts[request[r].post].state # "DRAFT"
      BY <3>1 DEF DraftSound, CallSound
    <3> QED  BY <2>1, <3>2 DEF reconcileMissing
  <2>2. \/ \E r \in Requests : reconcileMissing(r)
        \/ reconciled' = reconciled
    BY <1>1 DEF Next, ReadJournal, reserve, SelectCurrent, Mutate, LoseAnswer, Effect,
                MutateMissing, Refuse, getPost, findDraftInAdminList, snapshot,
                restoreReconciledDraft, complete, DeletionRecorded, fail, SyncWrites,
                ChangeOnBlogger, Crash, storeVars
  <2> QED  BY <2>1, <2>2
<1>2. IInv /\ [Next]_vars => [Step]_vars
  BY <1>1
<1>3. Spec => [][Step]_vars
  BY <1>2, Invariance, PTL DEF Spec
<1> QED  BY <1>3 DEF ReconciledIsNoDraft

\* An end that is recorded stays recorded, unless the failure of a deletion that was tried
\* again is written over it.
THEOREM EndsStay == Spec => EndedStaysEnded
<1> DEFINE Step == \A p \in DOMAIN posts : Ended(p) =>
        \/ Ended(p)'
        \/ \E r \in Requests : /\ request[r].phase = "failed" /\ request[r].retry
                               /\ request[r].kind = "DELETE" /\ request[r].post = p
<1>1. ASSUME IInv, Next
      PROVE  Step
  <2> SUFFICES ASSUME NEW p \in DOMAIN posts, Ended(p)
               PROVE  \/ Ended(p)'
                      \/ \E r \in Requests : /\ request[r].phase = "failed" /\ request[r].retry
                                             /\ request[r].kind = "DELETE" /\ request[r].post = p
    OBVIOUS
  <2>1. PICK i \in DOMAIN journal : /\ journal[i].kind \in { "PUBLISH", "DELETE" }
                                    /\ journal[i].status = "COMPLETED" /\ journal[i].post = p
    BY DEF Ended
  <2>2. CASE i \in DOMAIN journal' /\ journal'[i] = journal[i]
    BY <2>1, <2>2 DEF Ended
  <2>3. ASSUME NEW r \in Requests, RequestStep(r), ~ (i \in DOMAIN journal' /\ journal'[i] = journal[i])
        PROVE  \/ Ended(p)'
               \/ \E s \in Requests : /\ request[s].phase = "failed" /\ request[s].retry
                                      /\ request[s].kind = "DELETE" /\ request[s].post = p
    <3>1. /\ SoundRequest(request[r]) /\ Types
      BY <1>1 DEF IInv, RequestSound, SoundRequest, Types
    <3>2. Kept(request[r])
      BY <2>3, <3>1, RequestAdvances DEF Advance, Types
    <3>3. /\ Holding(request[r]) /\ i = request[r].row /\ request[r].retry
          /\ request[r].kind = "DELETE" /\ request[r].post = p
          /\ journal'[i].kind = journal[i].kind /\ journal'[i].post = p
      BY <2>1, <2>3, <3>1, <3>2 DEF Kept, RowsKept, SoundRequest, RowSound
    <3>4. CASE request[r].phase = "failed"
      BY <3>3, <3>4
    <3>5. CASE journal'[i].status = "COMPLETED"
      BY <2>1, <3>2, <3>3, <3>5 DEF Ended, Kept, RowsKept
    <3>6. journal'[i].status # "COMPLETED" => request[r].phase = "failed"
      BY <2>1, <2>3, <3>2, <3>3 DEF Kept, RowsKept
    <3> QED  BY <3>4, <3>5, <3>6
  <2>4. CASE Crash \/ \E s \in DOMAIN posts : SyncWrites(s) \/ ChangeOnBlogger(s)
    BY <2>2, <2>4 DEF Crash, SyncWrites, ChangeOnBlogger, storeVars
  <2> QED  BY <1>1, <2>2, <2>3, <2>4, NextSteps
<1>2. IInv /\ [Next]_vars => [Step]_vars
  BY <1>1
<1>3. Spec => [][Step]_vars
  BY <1>2, Invariance, PTL DEF Spec
<1> QED  BY <1>3 DEF EndedStaysEnded
=============================================================================
