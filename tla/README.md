# Verification of the AI Content Operating System

TLA+ models, TLC runs and TLAPS proofs for the API and worker of this repository.
Everything is translated from the source under `src/`; the documents under `docs/` are
only quoted where the code disagrees with them.

## 1. The system

A NestJS API (several handlers run at once, every `await` is an interleaving point), a
BullMQ worker, PostgreSQL through Prisma, Redis, and two external services (Google
Blogger, an AI provider). No handler holds a lock between two awaits. What protects the
state is: optimistic versions, unique indexes, serializable transactions, idempotency
keys, and checks on rows that were read earlier.

| Component | State | Operations that change it | Interacts with |
|---|---|---|---|
| Editorial life cycle (`contents.service.ts`) | `content_items` (version, status, text, creator, assignee), `content_revisions` | create, update, transition, archive | review, generation, handoff |
| Review centre (`content-review.service.ts`) | `content_reviews`, comments | decide; comment, resolve, reopen | life cycle |
| Article generation (`article-generation.service.ts`) | `ai_generation_candidates` | generate, apply, discard | life cycle, AI execution |
| Draft handoff (`content-publication.service.ts`) | `content_publications` (binding), `provider_publications` (journal), `publicationStatus` | createDraft, updateDraft, state | life cycle, Blogger |
| Test publication (`blogger-publication.service.ts`) | `provider_publications` without an item, `external_posts` | create, update, publish, delete, reconcile | Blogger, sync |
| Blogger connections (`blogger-connections.service.ts`) | `website_connections`, OAuth states | authorize, callback, select site, refresh, disconnect | all provider calls |
| Blogger sync (`blogger-sync.service.ts`, `apps/worker`) | `integration_sync_runs`, queue jobs, `external_posts` | enqueue, process, fail | Blogger, connections |
| AI execution (`ai.service.ts`, `ai-execution.ts`) | `ai_runs`, `ai_configurations` | configure, test, generate with retries | generation, websites |
| Workspaces and members (`workspaces.service.ts`, `users.service.ts`) | memberships, user status | add, change role, remove, deactivate | authorization |
| Sessions (`auth.service.ts`, `access-token.guard.ts`) | sessions, rate limits in Redis | login, refresh, logout, change password | every request |
| Content profiles (`content-profiles.service.ts`) | profiles, the default profile | create, update, deactivate, set default | generation |
| Websites (`websites.service.ts`) | websites | create, update, delete | all |
| Content editor of the web UI (`content-ui.tsx`) | query cache, form, commands in flight | type, save, transition, apply, hand over, reload | life cycle, handoff |
| Audit log, health, configuration, seed | none that a property is about | | |

What is hard, and what correctness means, per component:

- **Life cycle.** Checks are made on a row read before the transaction; other requests
  commit in between. Correct: a history without gaps along lawful edges, decisions only
  by review and about the text that was read, writers confined to their own items.
- **Generation.** The AI call takes seconds; the item moves on. Correct: a machine draft
  is used at most once, on the version it was made for, and never against review.
- **Handoff.** Three stores (binding, journal, Blogger) and no common transaction. The
  call can fail after taking effect, the process can die between any two steps, editors
  go on editing. Correct: no duplicate post, nothing unaccounted for, no false claim.
- **Test publication.** The current draft is derived from a journal and from local copies
  that the sync writes too. Correct: a key makes one post, a second draft has a cause, a
  draft that is there is never reconciled away, what is over stays over.
- **Connections.** A handler writes the row it loaded seconds ago, by id. Correct: late
  writes never bring a revoked connection back, a website has one, a callback counts once.
- **Sync.** A run row, a queue job and the worker's many small writes can come apart, and
  jobs are delivered more than once. Correct: one synchronization at a time, nothing
  marked as deleted that Blogger listed, no run stuck without a reason.
- **AI execution.** A limit checked before it is spent, a run and a candidate that are two
  rows, a configuration written with the credential it had when it was read. Correct: the
  limit is exceeded by a bounded amount, the rows agree, no row is in progress without a
  handler or a reason.
- **Websites and profiles.** One default profile, and an active one.
- **Members.** Each active workspace keeps an active owner under concurrent demotions,
  removals, deactivations and new workspaces.
- **Sessions.** Refresh tokens rotate, a reused one must revoke the session; resets and
  deactivations must reach logins and refreshes in flight. The rate limit is two Redis
  calls.

- **Content editor.** Fetches, renders, answers and typing interleave in each browser. The
  server's version check is worth what the client sends: correct means that the form sent
  with a version descends from that version.

The lines where each of these bites are listed as hazards in `PROJECT.json`.

## 2. Plan

| Step | Module | Content | Status |
|---|---|---|---|
| 1 | `ContentDomain` | statuses, edges, roles, permissions | done |
| 2 | `ContentLifecycle` | abstract promise of the editorial side | done |
| 3 | `Editorial`, `EditorialProofs` | life cycle, review, generation; refines `ContentLifecycle` | done, proved |
| 4 | `ContentPublication`, `ContentPublicationProofs` | handoff, composed with `ContentLifecycle` | done, proved |
| 5 | `Members`, `MembersProofs` | memberships and the last owner | done, proved |
| 6 | `Sessions`, `RateLimit`, `SessionsProofs` | login, refresh, revocation, access; the counter | done, proved |
| 7 | `BloggerConnections`, `BloggerConnectionsProofs` | OAuth states, late writes, site selection | done, proved |
| 8 | `BloggerSync`, `BloggerSyncProofs` | enqueue, queue, worker, crashes | done, proved |
| 9 | `Sites`, in `AiExecutionProofs` | the website and its profiles | done, proved |
| 10 | `AiExecution`, `AiExecutionProofs` | configurations, runs, candidates, over `Sites` | done, proved |
| 11 | `TestPublication`, `TestPublicationProofs` | Phase 2 journal: create, update, publish, delete, reconcile | done, proved |
| 12 | `WebEditor`, in `EditorialProofs` | the content editor in several browsers | done, proved |
| 13 | an at-most-once handoff | abstract specification, implemented by both publication services | open |

"Proved" means every safety property a run checks, as a theorem for all values of the
constants; the two liveness properties stay with TLC (section 6). What step 13 would add
is one statement for what `KeyCreatesOnce` and `KeyMakesOnePost` now say separately: a key
is reserved, used once, and settled.

## 3. Modules

### `ContentDomain`
The tables of `content-domain.ts`, the writer and reviewer tables of
`contents.service.ts`, and the content permissions of `permissions.ts` that change state.

### `ContentLifecycle`
One item as the rest of the system may rely on it: `version`, `status`, `body`,
`approved`. A text is named by the version that wrote it. `Edit` keeps the status, `Move`
and `Decide` keep the text, `Redraft` starts from an editable status only. `EditAhead` and
`MoveAhead` are what is left of the promise when a client runs ahead of the version: an
edit of any item, a move to a status that moves can bring, never a review's outcome, and
beyond review only after an approval. `ahead` holds the versions written so.

### `Editorial`
One item with its revisions, reviews, machine drafts and the requests in flight. A
handler is a `Begin...` step (everything it checks on the row it loaded) and a
`Commit...` step (its serializable transaction). Between them any other request may
commit. `Abort` is every way of writing nothing: a version conflict, a serialization
failure, a crash. `decide` is the review's transaction, `Assignees` who may be given the
item. `VersionMatches` is the `where version = expectedVersion` of every
`updateMany`; `Write` is the update together with `createRevision`.

`SentVersions` is what a client may send. The DTO asks for an integer of at least 1, and
update, transition and archive never compare it with the row whose status, owner and
permissions they checked: it may be a version that another request is about to write, and
the checks are then those of an older row. ADR-015:21 asks clients to send the version they
have loaded; the API does not. Review, generation and application do compare. A revision
remembers the version its writer's request was checked on and the one it sent (`checked`,
`sent`); `Ahead` tells the writes of clients that ran ahead.

Correspondence: `item` is the row, `revisions`, `reviews`, `candidates` the tables,
`request[r]` the local variables of a handler.

### `ContentPublication`
EXTENDS `ContentLifecycle`, whose steps are its environment (`EditorialStep`): that this
is sound is what `ImplementsLifecycle` shows. One action per await of `synchronize()` and
`state()`. `request[r].phase` is the program counter:

    idle -> loaded -> (unbound ->) bound -> reserved -> confirmed | failed -> idle
    idle -> checking -> seen (-> missing) -> idle

`posts` is Blogger. The live provider sends no idempotency key, so every create makes a
new post. `Failures` selects what the environment does: refuse a call, lose an answer
after the effect, change posts on Blogger, use a key elsewhere on the connection, make a
query throw, kill the process. `reserveOperation` runs outside the try block, and so does
the transaction that records a failure: `Leave` is a handler that ends there, or dies, and
leaves the binding as it is.

### `Members`
Accounts, workspaces, membership rows and the requests in flight. The route guards read
the actor's role once (`WorkspaceRoute`, `UserRoute`); a handler then reads its target
(`BeginChangeRole`, `FindUser`, `FindDuplicate`, ...) and writes last. The serializable
transactions that count owners are one action each; a serialization failure is `Abort`.
PostgreSQL does not track the READ COMMITTED inserts of `create` and `addMember` for them:
a deactivation is `BeginDeactivate`, which takes its snapshot (`known`), and `deactivate`,
which counts owners over those rows only and may commit after an insert it has not seen.
A row inserted after a removal is another member of `Memberships`.

### `Sessions`
Accounts, session rows, the access tokens handed out, and requests in flight: `login`
(verify, insert the session, sign), `refresh` (read and compare, rotate by id, sign),
`logout`, `logoutAll`, `revokeSession`, `changePassword`, and what account administration
does. The history variables say which token was exchanged for which (`rotations`), which
password and security version a session was opened with (`checked`, `knows`, `late`), and
whether requests ever overlapped.

### `RateLimit`
The counter of one identity: INCR by an attempt, PEXPIRE by the attempt that made the key,
the decision, the expiry of the key, and a crash between any two of these. `attempt[r]`
holds the count an attempt was given.

### `BloggerConnections`
Connection rows and OAuth states. `requireConnection` is how every user of a connection
begins; what it does later (`disconnect`, `selectSite`, `testConnection`, `refresh`,
`markError`) writes the row it loaded, by id. The sync worker and the publication
services write nothing to a connection that these do not (`CONNECTED`, `DEGRADED`,
`EXPIRED`). `InUse` is both the query and the partial unique index.

### `BloggerSync`
Runs, BullMQ jobs, the posts on Blogger and their rows, two workers, requests. One action
per await of `process()` that matters:

    idle -> taken -> found -> connected -> (listing <-> importing) -> reconciling
         -> completing -> returning -> idle          (taken | found | ... -> failing)

BullMQ is external: `Take`, `Stall` (the lock of a job lapses because its worker died, or
although it lives), `Return`, `Throw` (attempts). So is Blogger (`PublishOnBlogger`,
`ScheduleOnBlogger`, `ReleaseOnBlogger`, `DeleteOnBlogger`). A scheduled post is on Blogger
but not `Listed`: the live provider asks for live posts and drafts only
(`live-blogger.provider.ts:342`). Local variables are reset where the code leaves their scope.

### `Sites`
The `websites` row, the `content_profiles` rows and the requests in flight. Where a handler
looks at a row before it writes it is two steps (`BeginSetDefault`, `setDefault`), where it
only looks whether the row is there it is one. `WithoutDefault` is the `updateMany` that
clears the default.

### `AiExecution`
EXTENDS `Sites`, whose steps are its environment (`SiteStep`). A generation is
`InsertCandidate`, then the prompt, the configuration (`resolve`, `findConfiguration`),
the limit, the run and its calls, the outcome of the run and that of the candidate:

    idle -> prompt -> resolved -> loaded -> allowed -> calling -> answered -> completed -> idle
                                                              \-> failed -> unfinished -> idle

A test of a configuration is the middle part with a key of its own, an update of a
configuration is `BeginUpsert` and `WriteConfiguration`. `abandoned` remembers the keys
whose handler died, could not render the prompt or could not write the outcome.

### `TestPublication`
The journal rows in the order of their creation, the local copies, and the posts at the
provider, for a connection in LIVE or MOCK mode. There is no row for the current draft:
`ReadJournal` and `SelectCurrent` are the two reads of `findCurrentLocal`. A mutation:

    (create: idle -> start -> reading | other: idle -> reading -> current) -> calling
      -> answered -> snapped -> idle        calling -> failed (-> missing) -> idle

and a lookup: reading -> calling (-> listing) -> answered (-> restoring) | missing -> idle.
`SyncWrites` is what `BloggerSync` may do to the local copies; `Enabled` is what the
server's configuration permits. One initial state has a
draft that a reconciliation has already taken for missing, so that restoring it is reached
within the bounds.

### `WebEditor`
What each page's query cache holds, what it shows, its form, its fetch and its commands in
flight, against the server's item (`latest`). A text is the set of the edits it contains, so that an
overwritten edit is one that is missing. `Answered`, `Fetched`, `Hydrate` and `Saved` are
the steps after an answer, in the order in which the query library and React run them:
invalidate and wait for the fetch, render, run the effect, and only then set the form to
the answer of the save. The effect depends on all of the item's data, and so does `Hydrate`:
`stamp` counts the changes of `publicationStatus` and `updatedAt` that make no version,
which are the outcome of a handoff (`HandedOff`, `HandoffFailed`) and of a look at the draft
that finds it missing (`DraftMissing`).

## 4. Runs

| Run | Instance | Shows |
|---|---|---|
| `editorial` | editor and writer, 2 requests, a machine draft, 5 versions, clients one version behind or ahead | `RevisionHistory`, `LawfulHistory`, `ReviewBinding`, `CandidateProvenance`, `ImplementsLifecycle` |
| `publication` | 2 handlers, 2 keys, 5 versions, all failures, fair handlers | `KeyCreatesOnce`, `JournalCoversBlogger`, `BindingHonest`, `SecondDraftHasCause`, `ReservationEnds` |
| `test_publication` | 2 requests, 2 keys, both modes, all failures, 1 sync write | `KeyMakesOnePost`, `SecondDraftHasCause`, `ReconciledIsNoDraft`, `EndedStaysEnded` |
| `members` | 2 accounts, 2 workspaces, 3 rows, 2 requests | `OneMembership`, `OwnersLostOnlyStale` |
| `members_last_owner` | 2 accounts, 1 workspace, 2 requests | `OwnerRemains` is violated |
| `sessions` | 2 requests, tokens up to 3, security versions up to 2, passwords up to 3 | `CurrentUnlessLate`, `TokensSpentOnceInOrder`, `RevocationIsFinal`, `AccessEnds` |
| `rate_limit` | 3 attempts at once, limit 2, crashes | `AttemptsBounded`, `WindowEnds` |
| `blogger_connections` | 2 websites, 3 rows, 3 states, 1 blog, 2 requests | `OneConnectionInUse`, `StateUsedOnce`, `SiteAttachedOnce`, `RevokedIsLeftAlone` |
| `blogger_sync` | 2 runs, 2 workers, 1 request, 1 post | `OneSyncAtATime`, `ProgressHasJob`, `CompletedIsFinal`, `DeletedWasUnlisted`, `SnapshotIsExact` |
| `sites` | 3 profiles, 2 requests | `OneDefault`, `InactiveDefaultHasCause` |
| `ai_execution` | 2 requests, 1 generation key, 2 tests, 1 configuration, limit 1, all failures | `UsageBounded`, `InProgressHasOwner`, `OutcomesAgree`, `CredentialKept` |
| `web_editor` | 2 pages, 2 edits, 3 commands or missing drafts, 1 handoff, 2 lost answers, failed fetches or focused windows | `OverwriteHasCause`, `OwnWritesSeen`, `QuietTypingKept` |

The runs spend their time on what could be wrong; types are proved where there is a proof
module (section 6) and can be checked by adding `TypeOK` (`SitesTypeOK`,
`RateTypeOK`, `EditorTypeOK`) to a `.cfg` everywhere. Some more properties are proved and
in no run: `GeneratableIsNotPublished`, `OnlyReviewsDecide`, `ReadyWasApproved`, `WriterScope`,
`OwnershipFromOwners`, `InUseHasCredentials` and others.

**Bounds.** Two requests suffice for every race of two handlers. `editorial`: five versions
let an item pass review and be written once more (creation, review, decision, edit, one
more); `UpdateFields` holds one kind of update that does not reassign the item, since
reassignment multiplies the states and `WriterScope` is proved for all of them.
`MaxVersion` stops new requests (in `ContentPublication`, edits); `MaxLag = 1` lets clients
be one write behind and `MaxLead = 1` one ahead, which is what another write in between makes
current. `publication`: the item is ready at version 4 at the earliest and can be edited once;
`AheadTo` lets a client that runs ahead leave it in DRAFT, from where it is generated for
again. `test_publication`: two keys let a create meet another create, an
update, a publication, a deletion or its own repetition; one sync write is a false alarm or
a stale copy at any moment. `members`: a third row makes removal and re-entry possible, a
second workspace makes `create` possible. `blogger_connections`: three rows and states let a
website be connected, replaced and connected again beside another website. `sessions`: three
tokens let a session be refreshed twice, so that a token of two generations ago exists;
three passwords let one be changed and reset. `blogger_sync`: two runs let a failed run come
back beside a new one; two attempts and one redelivery per job exercise retry and giving up;
one job may be handed out while its worker lives; the page and the post are one because a
page boundary is an await like any other. `sites`: three profiles let two defaults be made
while a third is one. `ai_execution`: with a limit and a price of one token the second
request in flight is the one too many; three runs, two months, two writes of the
configuration and one step of the website let each check be followed by what makes it
stale; one retry is enough for both outcomes of a retry. `web_editor`: three commands are a
save, a write in between and the save that follows it; `MaxRecords = 1` stops further handoffs
when one has been recorded, and one is enough to change the data at one version. Requests, keys, rows, workers, pages
and drafts are symmetric where no liveness is checked. Users stop when they like, so
deadlock is not checked.

**Fairness.** `FairSpec` of `ContentPublication`: weak fairness of `Continue(r)`. A Node
handler that is not killed proceeds: database calls return, and provider calls carry
`AbortSignal.timeout` (`live-blogger.provider.ts:47`). Users, editors, Blogger, errors and
crashes are never fair; a reservation whose handler was killed, threw outside its try block or
met a key used elsewhere is never released, which is the exception `ReservationEnds` names
(`orphaned`). `FairSpec` of `RateLimit`: Redis expires keys and calls
return; crashes are allowed, and `WindowEnds` says what they cost. Elsewhere only safety is
checked; `ProgressHasJob` and `InProgressHasOwner` are the safety half of "every run ends",
with the ways in which it does not end named.

## 5. Findings

The run that is expected to fail, with the sentence it contradicts in `PROJECT.json`:
**the last owner can be lost** (`members_last_owner`). A demotion or removal that read the
member's role before the member became an owner skips the count. Also, an account
deactivated while its own request creates a workspace leaves it with an inactive owner; so
does a deactivation whose snapshot does not have the row that makes the account an owner.

Seven more definitions state what a document or a test says and the code does not do. They
are in the modules and not in a run; adding the definition to the `.cfg` as an invariant,
or as a property where it is an action, shows the counterexample:

| Definition | What happens | What it contradicts |
|---|---|---|
| `NoDuplicateDrafts` (`ContentPublication`) | an answer is lost, the binding goes to ERROR without a post id, and the next create posts again | ADR-013 |
| `SynchronizedIsTrue` (`ContentPublication`) | two updates overtake each other between Blogger and the database; the older text stays and counts as SYNCHRONIZED | ADR-016:22 |
| `LawfulWithoutLead` (`Editorial`) | a client sends the version after the one that is loaded; its checks are made on the old row, another request writes that version (archives the item, say), and the request commits on it | ADR-015:21, which asks clients for the version loaded and is enforced nowhere |
| `DeletedIsMissing` (`BloggerSync`) | a post is scheduled on Blogger, the listing does not have it, and an undisturbed run marks its row as deleted | `docs/database/schema.md:37` |
| `TokensSpentOnce` (`Sessions`) | two refreshes at once exchange one token twice, and the reuse is not noticed | `security-baseline.md:9` |
| `ReconciledAllowsCreate` (`TestPublication`) | a draft deleted on Blogger and reconciled as missing is still the current draft of `findCurrentLocal`, and the create that should follow is refused | `apps/web/test/blogger-ui.spec.tsx:350` |
| `NoSilentOverwrite` (`WebEditor`) | after a save the page fetches the item, shows another user's newer version, and then sets the form to its own older answer (`content-ui.tsx:416`); the next save sends that text with the newer version and drops the other's edit | ADR-015:21, `docs/api/contents.md:20` |

What the models also exhibit and passing properties are therefore qualified by:

- two creates race for an item's binding; the loser goes on if the winner has synchronized
  another revision, and both post (`SecondDraftHasCause`);
- two test creates with different keys look for a draft before either has made one, and
  both post (`SecondDraftHasCause` of `TestPublication`);
- of two deletions with one key, the late failure of one is written over the completion of
  the other, and the deleted draft is current again (`EndedStaysEnded`);
- a reservation outlives its handler without a crash: a key used elsewhere on the
  connection, or a query that fails outside the try block (`ReservationEnds`, `orphaned`);
- a client that runs ahead edits an archived item, moves one that is in review, or writes one
  that is no longer its writer's (`LawfulHistory`, `WriterScope`, `ahead`); the version sent
  is then one that did not exist when the checks were made;
- the outcome of a handoff replaces the form of every page that fetches the item, and what
  was typed and not saved is gone without a new version (`QuietTypingKept` excepts it);
- a READY_TO_PUBLISH item can be edited and stays ready, so a text no review approved can
  be handed off;
- a login that verified its password before a reset inserts its session after it and stays
  logged in (`CurrentUnlessLate`, `late`);
- a crash between INCR and PEXPIRE leaves a counter without expiry (`WindowEnds`);
- a `refresh` in flight writes credentials into a row a disconnect has erased; the row is
  not found any more, but holds them again (`RevokedIsLeftAlone` excludes requests in
  flight; `docs/api/blogger.md` says disconnect erases credentials);
- two selections of one blog at once both succeed (`SiteAttachedOnce`, `overlapped`);
- a run whose request or job died stays PENDING or RUNNING for ever and keeps every other
  from being created (`ProgressHasJob`, `abandoned`);
- a post made during a sync, after its page was listed, is marked as deleted until the
  next sync, as is a scheduled post until it is released (`DeletedWasUnlisted` says only that
  Blogger did not list it at some moment);
- the monthly token limit is exceeded by up to one run per request in flight
  (`UsageBounded`);
- an AI run or a candidate whose handler died, or whose prompt could not be rendered, stays
  RUNNING or PENDING and its key is used up (`InProgressHasOwner`, `abandoned`);
- a configuration written without a credential brings back the one it had read, although
  another write has replaced or removed it (`CredentialKept`);
- a profile deactivated while it is being made the default is an inactive default
  (`InactiveDefaultHasCause`).

## 6. Proofs

`EditorialProofs` proves, for every set of users, roles, requests and machine drafts and
every bound, all properties of `Editorial`. Assumptions: `EditorialAssumption` only.

The inductive invariant is `IInv`: `TypeOK`, `RevisionHistory`, `LawfulHistory`,
`ReviewBinding`, `OnlyReviewsDecide`, `ReadyWasApproved`, `CandidateSound`,
`CandidateProvenance` and `RequestSound`. The last one is the key. It says that what a
handler checked is still true of the *revision* it loaded, which nothing rewrites. Whether
it is true of the row that is written depends on the version sent: review, generation and
application have compared it with the row loaded, so the lock makes the row written the one
checked; the others have not, and then the history only has an edge from the row checked
(`LawfulHistory`, `StartsFrom`), and the writer's scope, which no revision keeps, is claimed
only where the version sent is not ahead of the row loaded. `SoundAfterWrite` carries this
over a commit of another request, `SoundWithoutWrite` over all other steps. `CandidateSound` is needed because applying a draft sets DRAFT
without asking for the status: the revision at the base of a candidate was generatable,
the lock says the base is current, and the history says the row is that revision.

The refinement (`Implementation`) maps `approved` to the texts of revisions with an
approving review, and `ahead` to the versions whose writers ran ahead; `ApprovedKept` shows
that no review is ever ahead of the history. That a client which runs ahead cannot make an
unapproved item ready (`MoveAhead`) rests on `ReadyWasApproved`: a lawful edge past review
starts from an older row that was itself past review.

`MembersProofs` proves the properties of `Members` for every number of accounts,
workspaces, rows and requests, from `MembersAssumption`. `IInv` is `TypeOK`,
`OneMembership` and `RequestSound` (what a request has checked of its target, and that an
Admin's request neither starts from an owner nor makes one). That a counted owner leaves another (`AnotherOwner`) is a fact about
cardinalities; with it `LostOnlyStaleStep` goes through the actions and finds that only a
stale role, or a row that the deactivation's snapshot does not have, loses the last owner. `OwnerRemainsInOrder` is the other side of the run `members_last_owner`: if
requests follow one another (`OneRequest`), `OwnerRemains` is an invariant. Its inductive
invariant `InOrder` adds that what the request has read is still so (`ReadIsFresh`).

`BloggerConnectionsProofs` proves the properties of `BloggerConnections` for every number
of websites, rows, states, blogs and requests, from `ConnectionsAssumption`. What makes it
work is `LateWrite`: a request that writes the row it loaded earlier may change status,
credentials and blog, but it never takes back a revocation, and a row it does not revoke
it leaves in use and with its credentials. `IInv` adds to the properties that rows, states and
requests are sound by themselves (`RowSound`, `StateSound`, `RequestSound`), that a used
state is held by one callback or one row (`ConsumedByOne`, which is what lets a callback
insert without looking again), and that a selection that has looked for a duplicate and
met no other selection still finds none (`SelectionSound`).

`AiExecutionProofs` begins with `Sites`: types, `OneDefault` and `InactiveDefaultHasCause`
for every number of profiles and requests. `OneDefault` is inductive with the types:
`ProfileStep` says that a step writes one profile, and either clears the default first or
does not set one. It then proves types, `UsageBounded`, `InProgressHasOwner`, `OutcomesAgree`
and `CredentialKept` for every number of requests, keys, connection tests and profiles,
every limit and every price of an answer, from `SitesAssumption` and `AiAssumption`
(requests finite and not empty, keys finite, an answer costs something). `IInv` adds to
the types, `OneDefault` and two of these properties: `RequestSound` (the phase of a request tells how
far the run of its key is; a version an update has read is not ahead of the row's, and at
the same version the credential is still the one read), `KeysApart` (two requests do not
run the same key at once), `UnbegunRuns`, `RunsInTime` and `LimitKept`. The last one is
what the bound rests on. `Load` counts the keys that are charged or may still be; it only
grows when a request passes the check, which happens below the limit, and the keys that
passed and are not yet charged are no more than the requests. So the limit is exceeded by
at most what the concurrent requests cost. `OwnStep` is the general lemma for a step of
one request on its key; `KeylessStep` is the one for all others.

`ContentPublicationProofs` proves the safety properties of `ContentPublication` for every
number of requests, keys, failures and posts, from `PublicationAssumption`, under `Spec`
and with it under `FairSpec` (`FairInvariance`). `IInv` adds to `KeyCreatesOnce`,
`JournalCoversBlogger` and `BindingHonest`: what a handler holds is still so when it uses it
(`RequestSound`: the row of its key is PENDING with its revision, nothing is posted under
the key of a create that has yet to call, and an update works on a post whose create
completed); no two requests hold one key's row (`KeysApart`); nothing is linked before an
operation completed, nor handed off before the item was ready (`UnlinkedUntilCompleted`,
`HandoffIsLate`, which a client that ran ahead ends). The keys used elsewhere are blank to all
of this (`UnusedIsBlank`), and a handler that leaves in whatever way is a request that goes
idle (`Leave`). `SecondDraftHasCause` rests on `OneOwner`: as long as nothing failed and
every operation sent one revision, one create owns the binding from its reservation to the
link, so there is at most one post. Steps are taken apart twice: what a request does to
itself (`Advance`) and what it leaves of journal, posts and binding (`Kept`), of which the
other requests' soundness follows without going through the actions again.

`TestPublicationProofs` proves `KeyMakesOnePost`, `SecondDraftHasCause`,
`ReconciledIsNoDraft` and `EndedStaysEnded` for every number of requests, keys, journal
rows and posts, from `TestPublicationAssumption`. `JournalSound` is what a key is worth: it
has one row and one post, and a completed create names the post of its key. `RequestSound` says what a request
knows of its row and of the draft it selected, and that what it is about to record as over,
or not found, is no draft. `OwnersApart` is the exception behind `EndedStaysEnded`: two
requests hold one row only if both try a deletion again. `NoCause` carries
`SecondDraftHasCause`: without a cause, a create that found no draft is right until it has
made its own.

`SessionsProofs` proves the properties of `Sessions` for every number of accounts,
sessions and requests, from `SessionsAssumption`. What no step takes back (`RowsKept`: a
row's account, its revocation, the age of its token, the security version of an account)
is proved once from the actions; that the requests, the access tokens and the recorded
exchanges stay sound is then a consequence (`HeldStaysTrue`), and `RequestMoves` shows what
the acting request is left with. `TokensSpentOnceInOrder` needs `ComparedIsCurrent`: while
requests follow one another, the token a refresh has compared is the one it replaces. That
hypothesis is the code's own: with two refreshes at once, `TokensSpentOnce` fails (section 5).
The module ends with `RateLimit`. `AttemptsBounded` is not inductive; `RateInv` counts the
attempts already let through together with those that will be (`Admissible`) and shows
that they are no more than the counts granted in this window (`Granted`) and one for each
attempt that can have been under way when it began.

`BloggerSyncProofs` proves the five properties of `BloggerSync` for every number of runs,
workers, requests, posts and retries, from `SyncAssumption`. The invariant has two halves.
The first is about the queue: unless BullMQ handed out the job of a living worker
(`lapses`), who works on a run owns its job (`JobsOwned`), and the phase of a worker fits
the status of its run (`RunsFit`); one run is in progress at a time; a run that is PENDING
has a job or the request that is about to make it one (`RequestsSound`, `ProgressHasJob`).
The second is about what a worker has seen: each post it has passed was seen or was not
listed since (`ScanSound`), and a worker that nothing has disturbed is alone and knows
exactly what Blogger lists as far as it has come (`QuietSound`). In each half a step has one of a
few shapes (`Moved`, `RunSet`, `Dropped`, ...; `Steps`, `ScanDisturbed`, `ScanStarted`),
each with one lemma, and an action is shown to have its shape.

The second part of `EditorialProofs` proves the properties of `WebEditor` for every set of
pages, reviewers and edits, from `EditorAssumption`. `PageSound` says of each page: what it
shows, what it has cached, what is about to be answered and what the server has are ever
newer versions, and of one version there is one text, whatever is recorded beside it
(`InOrderOfVersions`); a command sent
has a version no newer than what is shown (`CommandsFit`); unless a save was overtaken, the
form contains what is shown and a save that can be accepted contains the item
(`FormDescends`, of which `OverwriteHasCause` is the consequence at `Accept`); a version the
page was told of is cached, on its way, or was refused with an error (`ToldIsFetched`); and
whatever may come into the form contains what was typed in peace (`CalmIsKept`). A step of
one page leaves the others alone (`OnePageMoves`), but for `Accept`, which makes the item
newer than anything the other pages have seen or sent (`OvertakenIsSound`), and for what a
handoff records, which leaves version and text and ends what was typed in peace
(`RecordedIsSound`). That `Accept`
can only meet a save whose page still shows the item (`SaverIsSound`) is where the version
check and the chain of versions meet.

Only model-checked: `ReservationEnds` (`ContentPublication`) and `WindowEnds`
(`RateLimit`), since liveness under fairness is out of the prover's reach; and the seven
definitions of section 5, which are false.

## 7. Not modelled

Comments and queues of the review centre, reading and search, text formatting and HTML
sanitizing, audit records (`audit.service.ts` swallows its errors, so no control depends
on them), several sites or connections per website in the handoff and the test
publication, labels and counters of a sync, the HTTP details of OAuth and of the AI
providers (their outcomes are modelled), prices, the pages of the web UI other than the
content editor (they show what the API answers and keep nothing), health, configuration
and seed data (of the seed, what `Sites` starts from).
