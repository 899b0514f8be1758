----------------------------- MODULE BloggerSync -----------------------------
(***************************************************************************)
(* Synchronization of one Blogger connection: BloggerSyncService enqueues  *)
(* runs, BullMQ hands their jobs to the workers, BloggerSyncProcessor      *)
(* imports the posts.  At the same time test posts are made through the    *)
(* API, posts come and go on Blogger, and processes die.                   *)
(*                                                                         *)
(* Abstractions: posts are numbered in the order in which Blogger lists    *)
(* them and a page holds one; a post on Blogger is listed (live or draft)  *)
(* or scheduled; of a snapshot row only its being DELETED or not is kept;  *)
(* labels, counters and error texts are left out; a run is its id, which   *)
(* is also its job's.                                                      *)
(***************************************************************************)
EXTENDS Naturals, FiniteSets

CONSTANTS
  Runs,         \* bound: the runs that are ever created
  Workers,      \* concurrency of the worker: jobs processed at the same time
  Requests,     \* API requests in flight at the same time
  LastPost,     \* bound: posts on Blogger
  MaxAttempts,  \* BLOGGER_MAX_RETRIES + 1
  MaxStalls,    \* BullMQ: how often a job is handed out again after its lock lapsed
  MaxLapses,    \* bound: how often a job is handed out while its worker is alive
  NoRun, NoWorker

ASSUME SyncAssumption ==
  /\ NoRun \notin Runs
  /\ NoWorker \notin Workers
  /\ LastPost \in Nat
  /\ MaxAttempts \in Nat \ {0}
  /\ MaxStalls \in Nat
  /\ MaxLapses \in Nat

VARIABLES
  revoked,      \* whether the connection was disconnected
  run,          \* status of the integration_sync_runs rows
  job,          \* the BullMQ jobs
  blogger,      \* the posts on Blogger
  row,          \* the external_posts rows
  request,      \* API requests in flight
  worker,       \* what each worker is at
  abandoned,    \* history: runs whose enqueuing or job was given up by a failure
  lapses        \* history: how often a job was handed out while its worker was alive

history == <<abandoned, lapses>>
vars == <<revoked, run, job, blogger, row, request, worker, history>>

Posts == 1 .. LastPost

PostStates == { "unborn", "listed", "scheduled", "deleted" }

\* The listing asks for live posts and drafts.
Listed(p) == blogger[p] = "listed"

OnBlogger(p) == blogger[p] \in { "listed", "scheduled" }

Job ==
  [ state : { "none", "waiting", "active", "done", "dead" },
    attempts : Nat, stalls : Nat, owner : Workers \cup {NoWorker} ]

Request ==
  [ phase : { "idle", "checked", "created", "posted" }, run : Runs \cup {NoRun},
    post : 0 .. LastPost ]

NoRequest == [ phase |-> "idle", run |-> NoRun, post |-> 0 ]

\* History: gone are the posts that Blogger did not list at some moment since the listing
\* began; quiet is whether nothing else has touched Blogger or the rows since.
Worker ==
  [ phase : { "idle", "taken", "found", "connected", "listing", "importing",
              "reconciling", "completing", "failing", "returning" },
    run : Runs \cup {NoRun}, page : Nat, seen : SUBSET Posts, missing : SUBSET Posts,
    gone : SUBSET Posts, quiet : BOOLEAN ]

IdleWorker ==
  [ phase |-> "idle", run |-> NoRun, page |-> 0, seen |-> {}, missing |-> {},
    gone |-> {}, quiet |-> FALSE ]

TypeOK ==
  /\ revoked \in BOOLEAN
  /\ run \in [ Runs -> { "NONE", "PENDING", "RUNNING", "COMPLETED", "FAILED" } ]
  /\ job \in [ Runs -> Job ]
  /\ \A k \in Runs : job[k].attempts <= MaxAttempts /\ job[k].stalls <= MaxStalls
  /\ blogger \in [ Posts -> PostStates ]
  /\ row \in [ Posts -> { "NONE", "LIVE", "DELETED" } ]
  /\ request \in [ Requests -> Request ]
  /\ worker \in [ Workers -> Worker ]
  /\ abandoned \subseteq Runs
  /\ lapses \in 0 .. MaxLapses

Init ==
  /\ revoked = FALSE
  /\ run = [ k \in Runs |-> "NONE" ]
  /\ job = [ k \in Runs |->
               [ state |-> "none", attempts |-> 0, stalls |-> 0, owner |-> NoWorker ] ]
  /\ blogger \in [ Posts -> { "unborn", "listed", "scheduled" } ]
  /\ row = [ p \in Posts |-> "NONE" ]
  /\ request = [ r \in Requests |-> NoRequest ]
  /\ worker = [ w \in Workers |-> IdleWorker ]
  /\ abandoned = {}
  /\ lapses = 0

-----------------------------------------------------------------------------

InProgress(k) == run[k] \in { "PENDING", "RUNNING" }

\* Faulty variant: the index knows runs that have not started only.
IndexOnPending(k) == \A o \in Runs \ {k} : run[o] # "PENDING"

\* The partial unique index: no other run of the connection is in progress.
IndexAllows(k) == \A o \in Runs \ {k} : ~InProgress(o)

SetRequest(r, q) == request' = [ request EXCEPT ![r] = q ]

At(w, phase) == worker[w].phase = phase
Goto(w, phase) == worker' = [ worker EXCEPT ![w].phase = phase ]

\* Out of the try block: what was local to it is forgotten.
Leave(w, phase) ==
  worker' = [ worker EXCEPT ![w] = [ IdleWorker EXCEPT !.phase = phase, !.run = worker[w].run ] ]

Working(w) == worker[w].phase \in { "listing", "importing", "reconciling", "completing" }

\* listPosts, and listTaxonomy before the run completes.
CallsBlogger(w) == worker[w].phase \in { "listing", "completing" }

-----------------------------------------------------------------------------
(* BloggerSyncService.enqueue *)

FindActive(r) ==
  /\ request[r] = NoRequest
  /\ ~revoked
  /\ \A k \in Runs : ~InProgress(k)
  /\ SetRequest(r, [ NoRequest EXCEPT !.phase = "checked" ])
  /\ UNCHANGED <<revoked, run, job, blogger, row, worker, history>>

CreateRun(r) ==
  /\ request[r].phase = "checked"
  /\ \E k \in Runs :
       /\ run[k] = "NONE"
       /\ IndexAllows(k)
       /\ run' = [ run EXCEPT ![k] = "PENDING" ]
       /\ SetRequest(r, [ NoRequest EXCEPT !.phase = "created", !.run = k ])
  /\ UNCHANGED <<revoked, job, blogger, row, worker, history>>

enqueueBloggerSync(r) ==
  /\ request[r].phase = "created"
  /\ job' = [ job EXCEPT ![request[r].run].state = "waiting" ]
  /\ SetRequest(r, NoRequest)
  /\ UNCHANGED <<revoked, run, blogger, row, worker, history>>

\* An error answer, a queue that cannot be reached, a process that dies.
RequestFails(r) ==
  /\ request[r] # NoRequest
  /\ abandoned' = abandoned \cup ({ request[r].run } \cap Runs)
  /\ SetRequest(r, NoRequest)
  /\ UNCHANGED <<revoked, run, job, blogger, row, worker, lapses>>

-----------------------------------------------------------------------------
(* Everything else that happens to the connection and its posts *)

disconnect ==
  /\ ~revoked
  /\ revoked' = TRUE
  /\ UNCHANGED <<run, job, blogger, row, request, worker, history>>

\* What workers at work would notice of a change made by somebody else.
Disturb(gone) ==
  worker' = [ w \in Workers |->
    IF Working(w)
    THEN [ worker[w] EXCEPT !.quiet = FALSE, !.gone = IF At(w, "completing") THEN {} ELSE @ \cup gone ] ELSE worker[w] ]

PublishOnBlogger(p) ==
  /\ blogger[p] = "unborn"
  /\ blogger' = [ blogger EXCEPT ![p] = "listed" ]
  /\ Disturb({})
  /\ UNCHANGED <<revoked, run, job, row, request, history>>

DeleteOnBlogger(p) ==
  /\ OnBlogger(p)
  /\ blogger' = [ blogger EXCEPT ![p] = "deleted" ]
  /\ Disturb({p})
  /\ UNCHANGED <<revoked, run, job, row, request, history>>

\* A post is given a date in the future ...
ScheduleOnBlogger(p) ==
  /\ Listed(p)
  /\ blogger' = [ blogger EXCEPT ![p] = "scheduled" ]
  /\ Disturb({p})
  /\ UNCHANGED <<revoked, run, job, row, request, history>>

\* ... which comes, or is taken back.
ReleaseOnBlogger(p) ==
  /\ blogger[p] = "scheduled"
  /\ blogger' = [ blogger EXCEPT ![p] = "listed" ]
  /\ Disturb({})
  /\ UNCHANGED <<revoked, run, job, row, request, history>>

\* A test post made through the API: first on Blogger ...
createDraft(r, p) ==
  /\ request[r] = NoRequest
  /\ ~revoked
  /\ blogger[p] = "unborn"
  /\ blogger' = [ blogger EXCEPT ![p] = "listed" ]
  /\ SetRequest(r, [ NoRequest EXCEPT !.phase = "posted", !.post = p ])
  /\ Disturb({})
  /\ UNCHANGED <<revoked, run, job, row, history>>

\* ... then in the database.
snapshot(r) ==
  /\ request[r].phase = "posted"
  /\ row' = [ row EXCEPT ![request[r].post] = "LIVE" ]
  /\ SetRequest(r, NoRequest)
  /\ Disturb({})
  /\ UNCHANGED <<revoked, run, job, blogger, history>>

-----------------------------------------------------------------------------
(* BullMQ *)

Take(w) ==
  /\ worker[w] = IdleWorker
  /\ \E k \in Runs :
       /\ job[k].state = "waiting"
       /\ job' = [ job EXCEPT ![k].state = "active", ![k].owner = w ]
       /\ worker' = [ worker EXCEPT ![w] = [ IdleWorker EXCEPT !.phase = "taken", !.run = k ] ]
  /\ UNCHANGED <<revoked, run, blogger, row, request, history>>

Alive(k) == \E w \in Workers : worker[w].run = k

\* The lock of an active job lapses: its worker has died, or has lost touch with Redis
\* and goes on.  The job is handed out again, or given up.
Stall(k) ==
  /\ job[k].state = "active"
  /\ IF job[k].stalls < MaxStalls
     THEN /\ job' = [ job EXCEPT ![k].state = "waiting", ![k].owner = NoWorker,
                                 ![k].stalls = @ + 1 ]
          /\ UNCHANGED abandoned
     ELSE /\ job' = [ job EXCEPT ![k].state = "dead", ![k].owner = NoWorker ]
          /\ abandoned' = abandoned \cup {k}
  /\ IF Alive(k)
     THEN lapses < MaxLapses /\ lapses' = lapses + 1
     ELSE UNCHANGED lapses
  /\ UNCHANGED <<revoked, run, blogger, row, request, worker>>

Owns(w) == job[worker[w].run].owner = w

\* The processor returns; BullMQ listens to the owner of the lock only.
Return(w) ==
  /\ At(w, "returning")
  /\ job' = IF Owns(w) THEN [ job EXCEPT ![worker[w].run].state = "done",
                                         ![worker[w].run].owner = NoWorker ] ELSE job
  /\ worker' = [ worker EXCEPT ![w] = IdleWorker ]
  /\ UNCHANGED <<revoked, run, blogger, row, request, history>>

\* Faulty variant: MaxAttempts taken for the number of retries.
ThrowOnceMore(w) ==
  LET k == worker[w].run IN
  /\ job' = IF Owns(w)
            THEN [ job EXCEPT ![k].state =
                     IF job[k].attempts + 1 <= MaxAttempts THEN "waiting" ELSE "dead",
                     ![k].attempts = @ + 1, ![k].owner = NoWorker ]
            ELSE job
  /\ worker' = [ worker EXCEPT ![w] = IdleWorker ]

\* The processor throws: the job is tried again as long as it has attempts left.
Throw(w) ==
  LET k == worker[w].run IN
  /\ job' = IF Owns(w)
            THEN [ job EXCEPT ![k].state =
                     IF job[k].attempts + 1 < MaxAttempts THEN "waiting" ELSE "dead",
                     ![k].attempts = @ + 1, ![k].owner = NoWorker ]
            ELSE job
  /\ worker' = [ worker EXCEPT ![w] = IdleWorker ]

-----------------------------------------------------------------------------
(* BloggerSyncProcessor.process *)

\* Faulty variant: a job is processed again whatever its run has come to.
FindAnyRun(w) ==
  /\ At(w, "taken")
  /\ Goto(w, "found")
  /\ UNCHANGED <<revoked, run, job, blogger, row, request, history>>

FindRun(w) ==
  /\ At(w, "taken")
  /\ Goto(w, IF run[worker[w].run] = "COMPLETED" THEN "returning" ELSE "found")
  /\ UNCHANGED <<revoked, run, job, blogger, row, request, history>>

FindConnection(w) ==
  /\ At(w, "found")
  /\ Goto(w, IF revoked THEN "failing" ELSE "connected")
  /\ UNCHANGED <<revoked, run, job, blogger, row, request, history>>

\* The listing starts: from now on the other workers and this one may notice each other.
StartListing(w) ==
  worker' = [ v \in Workers |->
    IF v = w
    THEN [ worker[w] EXCEPT !.phase = "listing", !.page = 1,
             !.gone = { p \in Posts : ~Listed(p) },
             !.quiet = \A o \in Workers \ {w} : ~Working(o) ]
    ELSE [ worker[v] EXCEPT !.quiet = FALSE ] ]

MarkRunning(w) ==
  /\ At(w, "connected")
  /\ IndexAllows(worker[w].run)
  /\ run' = [ run EXCEPT ![worker[w].run] = "RUNNING" ]
  /\ StartListing(w)
  /\ UNCHANGED <<revoked, job, blogger, row, request, history>>

\* The database refuses the status (the index), outside of the try block.
MarkRunningFails(w) ==
  /\ At(w, "connected")
  /\ ~IndexAllows(worker[w].run)
  /\ Throw(w)
  /\ UNCHANGED <<revoked, run, blogger, row, request, history>>

\* Faulty variant: remembers the posts it is the first to import only.
ListPageNewOnly(w) ==
  LET p == worker[w].page IN
  /\ At(w, "listing")
  /\ p \in Posts
  /\ worker' = [ worker EXCEPT ![w] =
       IF Listed(p)
       THEN [ @ EXCEPT !.phase = "importing",
                       !.seen = IF row[p] = "NONE" THEN @ \cup {p} ELSE @ ]
       ELSE [ @ EXCEPT !.page = p + 1 ] ]
  /\ UNCHANGED <<revoked, run, job, blogger, row, request, history>>

ListPage(w) ==
  LET p == worker[w].page IN
  /\ At(w, "listing")
  /\ p \in Posts
  /\ \/ /\ Listed(p)
        /\ worker' = [ worker EXCEPT ![w].phase = "importing", ![w].seen = @ \cup {p} ]
     \/ /\ ~Listed(p)
        /\ worker' = [ worker EXCEPT ![w].page = p + 1 ]
  /\ UNCHANGED <<revoked, run, job, blogger, row, request, history>>

upsertPost(w) ==
  /\ At(w, "importing")
  /\ row' = [ row EXCEPT ![worker[w].page] = "LIVE" ]
  /\ worker' = [ worker EXCEPT ![w].phase = "listing", ![w].page = @ + 1 ]
  /\ UNCHANGED <<revoked, run, job, blogger, request, history>>

\* Faulty variant: an empty listing is taken for a failure of Blogger.
FindMissingUnlessEmpty(w) ==
  /\ At(w, "listing")
  /\ worker[w].page \notin Posts
  /\ worker' = [ worker EXCEPT ![w].phase = "reconciling", ![w].page = 0, ![w].seen = {}, ![w].missing =
       IF worker[w].seen = {} THEN {}
       ELSE { p \in Posts : row[p] # "NONE" } \ worker[w].seen ]
  /\ UNCHANGED <<revoked, run, job, blogger, row, request, history>>

FindMissing(w) ==
  /\ At(w, "listing")
  /\ worker[w].page \notin Posts
  /\ worker' = [ worker EXCEPT ![w].phase = "reconciling", ![w].page = 0, ![w].seen = {},
                               ![w].missing = { p \in Posts : row[p] # "NONE" } \ worker[w].seen ]
  /\ UNCHANGED <<revoked, run, job, blogger, row, request, history>>

MarkMissing(w) ==
  /\ At(w, "reconciling")
  /\ row' = [ p \in Posts |-> IF p \in worker[w].missing THEN "DELETED" ELSE row[p] ]
  /\ worker' = [ worker EXCEPT ![w].phase = "completing", ![w].missing = {}, ![w].gone = {} ]
  /\ UNCHANGED <<revoked, run, job, blogger, request, history>>

\* One transaction; the connection is CONNECTED again, even if it was revoked meanwhile.
Complete(w) ==
  /\ At(w, "completing")
  /\ run' = [ run EXCEPT ![worker[w].run] = "COMPLETED" ]
  /\ Leave(w, "returning")
  /\ UNCHANGED <<revoked, job, blogger, row, request, history>>

\* Faulty variant: one attempt too many is left to BullMQ.
WorkFailsLate(w) ==
  /\ Working(w)
  /\ \/ /\ CallsBlogger(w)
        /\ job[worker[w].run].attempts < MaxAttempts
        /\ Throw(w)
     \/ Leave(w, "failing") /\ UNCHANGED job
  /\ UNCHANGED <<revoked, run, blogger, row, request, history>>

\* An error inside the try block: one of Blogger that may pass is left to BullMQ if the
\* job has another attempt; otherwise the run fails.
WorkFails(w) ==
  /\ Working(w)
  /\ \/ /\ CallsBlogger(w)
        /\ job[worker[w].run].attempts + 1 < MaxAttempts
        /\ Throw(w)
     \/ Leave(w, "failing") /\ UNCHANGED job
  /\ UNCHANGED <<revoked, run, blogger, row, request, history>>

fail(w) ==
  /\ At(w, "failing")
  /\ run' = [ run EXCEPT ![worker[w].run] = "FAILED" ]
  /\ Goto(w, "returning")
  /\ UNCHANGED <<revoked, job, blogger, row, request, history>>

\* The database cannot be reached, outside of the try block.
DatabaseFails(w) ==
  /\ worker[w].phase \in { "taken", "found", "connected", "failing" }
  /\ Throw(w)
  /\ abandoned' = IF Owns(w) /\ job'[worker[w].run].state = "dead"
                  THEN abandoned \cup { worker[w].run } ELSE abandoned
  /\ UNCHANGED <<revoked, run, blogger, row, request, lapses>>

Die(w) ==
  /\ worker[w] # IdleWorker
  /\ worker' = [ worker EXCEPT ![w] = IdleWorker ]
  /\ UNCHANGED <<revoked, run, job, blogger, row, request, history>>

-----------------------------------------------------------------------------

process(w) ==
  \/ FindRun(w) \/ FindConnection(w)
  \/ MarkRunning(w) \/ MarkRunningFails(w)
  \/ ListPage(w) \/ upsertPost(w)
  \/ FindMissing(w) \/ MarkMissing(w)
  \/ Complete(w) \/ WorkFails(w) \/ fail(w)
  \/ Return(w)

Enqueue(r) == FindActive(r) \/ CreateRun(r) \/ enqueueBloggerSync(r)

Next ==
  \/ \E r \in Requests :
       Enqueue(r) \/ RequestFails(r) \/ snapshot(r) \/ \E p \in Posts : createDraft(r, p)
  \/ \E w \in Workers : Take(w) \/ process(w) \/ DatabaseFails(w) \/ Die(w)
  \/ \E k \in Runs : Stall(k)
  \/ \E p \in Posts : PublishOnBlogger(p) \/ DeleteOnBlogger(p)
                        \/ ScheduleOnBlogger(p) \/ ReleaseOnBlogger(p)
  \/ disconnect

Spec == Init /\ [][Next]_vars

-----------------------------------------------------------------------------
(* Properties *)

\* Two workers never synchronize the connection at the same time: the index on runs in
\* progress excludes them, although requests check for such a run long before, and jobs
\* come back after failures.  Unless BullMQ hands out a job whose worker is still alive.
OneSyncAtATime ==
  lapses = 0 => \A v, w \in Workers : Working(v) /\ Working(w) => v = w

\* A completed run stays completed, although its worker may die before BullMQ knows and
\* the job comes back.
CompletedForGood ==
  \A k \in Runs : run[k] = "COMPLETED" => run'[k] = "COMPLETED" \/ lapses > 0
CompletedIsFinal == [][CompletedForGood]_vars

\* A post is marked as deleted only if Blogger did not list it at some moment since this
\* worker began to list: failed attempts and half-done runs leave nothing behind that
\* counts as a deletion.  (It may be scheduled, or created or released since: the run that
\* finds it listed makes it live again.)
MarksUnlistedPosts ==
  \A p \in Posts :
    row[p] # "DELETED" /\ row'[p] = "DELETED" =>
      \E w \in Workers : At(w, "reconciling") /\ p \in worker[w].gone
DeletedWasUnlisted == [][MarksUnlistedPosts]_vars

\* docs/database/schema.md: missing remote records are marked deleted.  Does not hold even
\* of an undisturbed run: a scheduled post is on Blogger, but not in the listing.
MarksMissingPosts ==
  \A p \in Posts, w \in Workers :
    At(w, "reconciling") /\ worker[w].quiet /\ row[p] # "DELETED" /\ row'[p] = "DELETED"
      => ~OnBlogger(p)
DeletedIsMissing == [][MarksMissingPosts]_vars

\* A run that completes undisturbed leaves the snapshot equal to what Blogger lists,
\* whatever failed runs and attempts did before it; a scheduled post counts as deleted.
CompletesWithSnapshot ==
  \A w \in Workers :
    At(w, "completing") /\ worker'[w].phase = "returning" /\ worker[w].quiet =>
      \A p \in Posts : row[p] = "LIVE" <=> Listed(p)
SnapshotIsExact == [][CompletesWithSnapshot]_vars

\* A run in progress, which keeps every other run from being created, has a job or will
\* be given one, so that it can end - unless a failure took its job away: the request died
\* before it had one, the job was handed out too often, or the database was out of reach
\* at its last attempt.  Nothing in the code ever ends such a run.
ProgressHasJob ==
  \A k \in Runs : InProgress(k) =>
    \/ job[k].state \in { "waiting", "active" }
    \/ \E r \in Requests : request[r].run = k
    \/ k \in abandoned
    \/ lapses > 0
=============================================================================
