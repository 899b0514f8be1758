-------------------------- MODULE BloggerSyncProofs --------------------------
(***************************************************************************)
(* Proofs about BloggerSync, for every number of runs, workers, requests   *)
(* and posts, every number of attempts, and however often BullMQ hands a   *)
(* job out again.                                                          *)
(***************************************************************************)
EXTENDS BloggerSync, TLAPS

-----------------------------------------------------------------------------
(* The inductive invariant: runs, jobs and requests *)

\* An idle worker has no run; one at work has the run of the job it took.
WorkersSound ==
  \A w \in Workers :
    IF worker[w].phase = "idle" THEN worker[w].run = NoRun
    ELSE worker[w].run \in Runs /\ job[worker[w].run].state # "none"

\* The index on runs in progress.
OneInProgress == \A j, k \in Runs : InProgress(j) /\ InProgress(k) => j = k

\* Only a run that exists has a job; only an active job has an owner; a job that is not
\* over has an attempt left.
JobsSound ==
  \A k \in Runs :
    /\ job[k].state # "none" => run[k] # "NONE"
    /\ job[k].owner # NoWorker => job[k].state = "active"
    /\ job[k].state \in { "none", "waiting", "active" } => job[k].attempts < MaxAttempts

\* A request that has created a run has yet to give it a job, and is the only one to.
RequestsSound ==
  /\ \A r \in Requests :
       IF request[r].phase = "created"
       THEN /\ request[r].run \in Runs
            /\ run[request[r].run] # "NONE" /\ job[request[r].run].state = "none"
       ELSE request[r].run = NoRun
  /\ \A r, o \in Requests : request[r].run = request[o].run /\ request[r].run # NoRun => r = o

\* Unless BullMQ has handed out the job of a living worker, who works on a run owns its job.
JobsOwned ==
  lapses = 0 => \A w \in Workers : worker[w].phase # "idle" => Owns(w)

\* What the phase of a worker says of its run.
Fits(phase, status) ==
  /\ phase \in { "listing", "importing", "reconciling", "completing" } => status = "RUNNING"
  /\ phase = "returning" => status \notin { "PENDING", "RUNNING" }
  /\ phase \in { "found", "connected", "failing" } => status # "COMPLETED"

RunsFit ==
  lapses = 0 =>
    \A w \in Workers : worker[w].phase # "idle" => Fits(worker[w].phase, run[worker[w].run])

-----------------------------------------------------------------------------
(* The inductive invariant: what a worker knows of Blogger *)

\* A page below the current one was seen, or was absent at some moment since.
ScanFits(q, posts) ==
  /\ q.phase \in { "taken", "found", "connected" } => q.seen = {}
  /\ q.phase \in { "listing", "importing", "reconciling" } =>
       \A p \in Posts : posts[p] # "listed" => p \in q.gone
  /\ q.phase \in { "listing", "importing" } =>
       q.page > 0 /\ \A p \in Posts : p < q.page => p \in q.seen \cup q.gone
  /\ q.phase = "importing" => q.page \in Posts /\ q.page \in q.seen
  /\ q.phase = "reconciling" => q.missing \subseteq q.gone

ScanSound == \A w \in Workers : ScanFits(worker[w], blogger)

\* A worker that nothing disturbed is alone and knows exactly what is on Blogger, as far as
\* it has come.
Knows(q, posts, rows) ==
  /\ q.phase \in { "listing", "importing" } =>
       \A p \in Posts :
         /\ p < q.page => (p \in q.seen <=> posts[p] = "listed")
                          /\ (p \in q.seen => rows[p] = "LIVE")
         /\ p \in q.seen => p < q.page \/ (p = q.page /\ q.phase = "importing")
  /\ q.phase = "importing" => posts[q.page] = "listed"
  /\ q.phase = "reconciling" =>
       \A p \in Posts :
         /\ posts[p] = "listed" => rows[p] = "LIVE" /\ p \notin q.missing
         /\ posts[p] # "listed" => rows[p] # "LIVE" \/ p \in q.missing
  /\ q.phase = "completing" => \A p \in Posts : rows[p] = "LIVE" <=> posts[p] = "listed"

QuietSound ==
  \A w \in Workers : worker[w].quiet =>
    /\ Working(w) /\ \A v \in Workers : Working(v) => v = w
    /\ Knows(worker[w], blogger, row)

IInv ==
  /\ TypeOK /\ WorkersSound /\ OneInProgress /\ JobsSound /\ RequestsSound
  /\ JobsOwned /\ RunsFit /\ ProgressHasJob
  /\ ScanSound /\ QuietSound

-----------------------------------------------------------------------------
(* Types *)

LEMMA Typed ==
  ASSUME TypeOK
  PROVE  /\ run \in [ Runs -> { "NONE", "PENDING", "RUNNING", "COMPLETED", "FAILED" } ]
         /\ job \in [ Runs -> Job ] /\ \A k \in Runs : job[k] \in Job
         /\ \A k \in Runs : job[k].attempts \in Nat /\ job[k].stalls \in Nat
         /\ row \in [ Posts -> { "NONE", "LIVE", "DELETED" } ]
         /\ blogger \in [ Posts -> PostStates ]
         /\ request \in [ Requests -> Request ] /\ \A r \in Requests : request[r] \in Request
         /\ worker \in [ Workers -> Worker ] /\ \A w \in Workers : worker[w] \in Worker
         /\ \A w \in Workers : worker[w].page \in Nat
         /\ lapses \in Nat /\ lapses <= MaxLapses
BY SyncAssumption DEF TypeOK, Job, Worker

LEMMA NothingTyped ==
  /\ IdleWorker \in Worker /\ IdleWorker.phase = "idle" /\ IdleWorker.run = NoRun
  /\ ~IdleWorker.quiet /\ IdleWorker.seen = {}
  /\ NoRequest \in Request /\ NoRequest.phase = "idle" /\ NoRequest.run = NoRun
BY SyncAssumption DEF IdleWorker, Worker, NoRequest, Request

Phases ==
  { "idle", "taken", "found", "connected", "listing", "importing", "reconciling",
    "completing", "failing", "returning" }

\* What the parts of a step do to the worker that acts, and that they do nothing to others.
Alone(w) == \A v \in Workers : v # w => worker'[v] = worker[v]

LEMMA SetWorker ==
  ASSUME TypeOK, NEW w \in Workers, NEW q, worker' = [ worker EXCEPT ![w] = q ]
  PROVE  /\ Alone(w) /\ worker'[w] = q
         /\ q \in Worker => worker' \in [ Workers -> Worker ]
BY Typed DEF Alone

LEMMA GotoMoves ==
  ASSUME TypeOK, NEW w \in Workers, NEW phase \in Phases, Goto(w, phase)
  PROVE  /\ worker' \in [ Workers -> Worker ] /\ Alone(w)
         /\ worker'[w].phase = phase /\ worker'[w].run = worker[w].run
         /\ worker'[w].page = worker[w].page /\ worker'[w].seen = worker[w].seen
         /\ worker'[w].missing = worker[w].missing /\ worker'[w].gone = worker[w].gone
         /\ worker'[w].quiet = worker[w].quiet
<1>. PICK q : q = [ worker[w] EXCEPT !.phase = phase ]
  OBVIOUS
<1>1. /\ q \in Worker /\ q.phase = phase /\ q.run = worker[w].run /\ q.page = worker[w].page
      /\ q.seen = worker[w].seen /\ q.missing = worker[w].missing /\ q.gone = worker[w].gone
      /\ q.quiet = worker[w].quiet
  BY Typed DEF Worker, Phases
<1>2. worker' = [ worker EXCEPT ![w] = q ]
  BY DEF Goto
<1> QED  BY <1>1, <1>2, SetWorker

LEMMA LeaveMoves ==
  ASSUME TypeOK, NEW w \in Workers, NEW phase \in Phases, Leave(w, phase)
  PROVE  /\ worker' \in [ Workers -> Worker ] /\ Alone(w)
         /\ worker'[w].phase = phase /\ worker'[w].run = worker[w].run
         /\ ~worker'[w].quiet /\ worker'[w].seen = {}
<1>. PICK q : q = [ IdleWorker EXCEPT !.phase = phase, !.run = worker[w].run ]
  OBVIOUS
<1>1. q \in Worker /\ q.phase = phase /\ q.run = worker[w].run /\ ~q.quiet /\ q.seen = {}
  BY Typed DEF Worker, Phases, IdleWorker
<1>2. worker' = [ worker EXCEPT ![w] = q ]
  BY DEF Leave
<1> QED  BY <1>1, <1>2, SetWorker

\* The processor is done: the worker is idle and nobody else notices.
LEMMA IdleMoves ==
  ASSUME TypeOK, NEW w \in Workers, worker' = [ worker EXCEPT ![w] = IdleWorker ]
  PROVE  worker' \in [ Workers -> Worker ] /\ Alone(w) /\ worker'[w] = IdleWorker
BY SetWorker, NothingTyped

\* A disturbance leaves every worker where it is, with what it has collected.
LEMMA DisturbMoves ==
  ASSUME TypeOK, NEW gone \in SUBSET Posts, Disturb(gone)
  PROVE  /\ worker' \in [ Workers -> Worker ]
         /\ \A w \in Workers :
              /\ worker'[w].phase = worker[w].phase /\ worker'[w].run = worker[w].run
              /\ worker'[w].page = worker[w].page /\ worker'[w].seen = worker[w].seen
              /\ worker'[w].missing = worker[w].missing
              /\ ~Working(w) => worker'[w] = worker[w]
              /\ Working(w) => ~worker'[w].quiet
              /\ Working(w) /\ worker[w].phase # "completing" =>
                   worker'[w].gone = worker[w].gone \cup gone
<1>1. ASSUME NEW w \in Workers, NEW g \in SUBSET Posts
      PROVE  [ worker[w] EXCEPT !.quiet = FALSE, !.gone = g ] \in Worker
  <2>1. worker[w] \in Worker
    BY Typed
  <2> QED  BY <2>1 DEF Worker
<1>2. \A w \in Workers :
        worker'[w] = IF Working(w)
                     THEN [ worker[w] EXCEPT !.quiet = FALSE,
                              !.gone = IF At(w, "completing") THEN {} ELSE @ \cup gone ]
                     ELSE worker[w]
  BY DEF Disturb
<1>3. ASSUME NEW w \in Workers
      PROVE  /\ worker'[w] \in Worker
             /\ worker'[w].phase = worker[w].phase /\ worker'[w].run = worker[w].run
             /\ worker'[w].page = worker[w].page /\ worker'[w].seen = worker[w].seen
             /\ worker'[w].missing = worker[w].missing
             /\ ~Working(w) => worker'[w] = worker[w]
             /\ Working(w) => ~worker'[w].quiet
             /\ Working(w) /\ worker[w].phase # "completing" =>
                  worker'[w].gone = worker[w].gone \cup gone
  <2>. PICK g : g = IF At(w, "completing") THEN {} ELSE worker[w].gone \cup gone
    OBVIOUS
  <2>1. g \in SUBSET Posts /\ worker[w] \in Worker
    BY Typed DEF Worker
  <2>2. Working(w) => worker'[w] = [ worker[w] EXCEPT !.quiet = FALSE, !.gone = g ]
    BY <1>2, <2>1 DEF Worker
  <2>3. ~Working(w) => worker'[w] = worker[w]
    BY <1>2
  <2>4. CASE Working(w)
    <3>. PICK q : q = [ worker[w] EXCEPT !.quiet = FALSE, !.gone = g ]
      OBVIOUS
    <3>1. /\ q \in Worker /\ q.phase = worker[w].phase /\ q.run = worker[w].run
          /\ q.page = worker[w].page /\ q.seen = worker[w].seen
          /\ q.missing = worker[w].missing /\ ~q.quiet /\ q.gone = g
      BY <1>1, <2>1 DEF Worker
    <3>2. worker'[w] = q
      BY <2>2, <2>4
    <3> QED  BY <2>4, <3>1, <3>2 DEF At
  <2>5. CASE ~Working(w)
    BY <2>1, <2>3, <2>5
  <2> QED  BY <2>4, <2>5
<1>4. worker' \in [ Workers -> Worker ]
  BY <1>3 DEF Disturb
<1> QED  BY <1>3, <1>4

\* The worker that begins to list, and the others, who are disturbed.
LEMMA StartMoves ==
  ASSUME TypeOK, NEW w \in Workers, StartListing(w)
  PROVE  /\ worker' \in [ Workers -> Worker ]
         /\ worker'[w].phase = "listing" /\ worker'[w].run = worker[w].run
         /\ worker'[w].page = 1 /\ worker'[w].seen = worker[w].seen
         /\ worker'[w].gone = { p \in Posts : blogger[p] # "listed" }
         /\ worker'[w].quiet => \A o \in Workers \ {w} : ~Working(o)
         /\ \A v \in Workers \ {w} :
              /\ worker'[v].phase = worker[v].phase /\ worker'[v].run = worker[v].run
              /\ worker'[v].page = worker[v].page /\ worker'[v].seen = worker[v].seen
              /\ worker'[v].missing = worker[v].missing /\ worker'[v].gone = worker[v].gone
              /\ ~worker'[v].quiet
<1>. PICK gone, quiet : /\ gone = { p \in Posts : blogger[p] # "listed" }
                        /\ quiet = \A o \in Workers \ {w} : ~Working(o)
  OBVIOUS
<1>. PICK q : q = [ worker[w] EXCEPT !.phase = "listing", !.page = 1, !.gone = gone, !.quiet = quiet ]
  OBVIOUS
<1>1. \A v \in Workers :
        worker'[v] = IF v = w THEN q ELSE [ worker[v] EXCEPT !.quiet = FALSE ]
  BY DEF StartListing, Listed
<1>2. /\ q \in Worker /\ q.phase = "listing" /\ q.run = worker[w].run /\ q.page = 1
      /\ q.seen = worker[w].seen /\ q.gone = gone /\ q.quiet = quiet
  <2>1. gone \in SUBSET Posts /\ quiet \in BOOLEAN /\ worker[w] \in Worker
    BY Typed
  <2> QED  BY <2>1 DEF Worker
<1>3. ASSUME NEW v \in Workers \ {w}
      PROVE  /\ worker'[v] \in Worker
             /\ worker'[v].phase = worker[v].phase /\ worker'[v].run = worker[v].run
             /\ worker'[v].page = worker[v].page /\ worker'[v].seen = worker[v].seen
             /\ worker'[v].missing = worker[v].missing /\ worker'[v].gone = worker[v].gone
             /\ ~worker'[v].quiet
  <2>. PICK o : o = [ worker[v] EXCEPT !.quiet = FALSE ]
    OBVIOUS
  <2>1. worker'[v] = o
    BY <1>1
  <2>2. /\ o \in Worker /\ o.phase = worker[v].phase /\ o.run = worker[v].run
        /\ o.page = worker[v].page /\ o.seen = worker[v].seen
        /\ o.missing = worker[v].missing /\ o.gone = worker[v].gone /\ ~o.quiet
    BY Typed DEF Worker
  <2> QED  BY <2>1, <2>2
<1>4. worker' \in [ Workers -> Worker ]
  BY <1>1, <1>2, <1>3 DEF StartListing
<1> QED  BY <1>1, <1>2, <1>3, <1>4

-----------------------------------------------------------------------------
(* The steps *)

RequestStep(r) ==
  \/ FindActive(r) \/ CreateRun(r) \/ enqueueBloggerSync(r) \/ RequestFails(r)
  \/ snapshot(r) \/ \E p \in Posts : createDraft(r, p)

BloggerStep(p) ==
  \/ PublishOnBlogger(p) \/ DeleteOnBlogger(p) \/ ScheduleOnBlogger(p) \/ ReleaseOnBlogger(p)

WorkerStep(w) == Take(w) \/ process(w) \/ DatabaseFails(w) \/ Die(w)

LEMMA NextSteps ==
  Next <=> \/ \E r \in Requests : RequestStep(r)
           \/ \E w \in Workers : WorkerStep(w)
           \/ \E k \in Runs : Stall(k)
           \/ \E p \in Posts : BloggerStep(p)
           \/ disconnect
BY DEF Next, RequestStep, WorkerStep, Enqueue, BloggerStep

\* What Throw leaves of the job.
ThrownJob(k) ==
  [ job EXCEPT ![k].state = IF job[k].attempts + 1 < MaxAttempts THEN "waiting" ELSE "dead",
               ![k].attempts = @ + 1, ![k].owner = NoWorker ]

\* How one job changes in a step: it keeps its run, and loses its owner or gets one.
JobSet(k, j) ==
  /\ j \in Job /\ j.attempts <= MaxAttempts /\ j.stalls <= MaxStalls
  /\ job' = [ job EXCEPT ![k] = j ]

LEMMA JobSetTyped ==
  ASSUME TypeOK, NEW k \in Runs, NEW j, JobSet(k, j)
  PROVE  /\ job' \in [ Runs -> Job ] /\ job'[k] = j
         /\ \A o \in Runs : o # k => job'[o] = job[o]
         /\ \A o \in Runs : job'[o].attempts <= MaxAttempts /\ job'[o].stalls <= MaxStalls
BY DEF TypeOK, JobSet

LEMMA QueuedJob ==
  ASSUME TypeOK, NEW k \in Runs, job[k].state = "none",
         job' = [ job EXCEPT ![k].state = "waiting" ]
  PROVE  \E j : /\ JobSet(k, j) /\ j.state = "waiting" /\ j.owner = job[k].owner
                /\ j.attempts = job[k].attempts
<1>. PICK j : j = [ job[k] EXCEPT !.state = "waiting" ]
  OBVIOUS
<1>1. /\ j \in Job /\ j.state = "waiting" /\ j.owner = job[k].owner
      /\ j.attempts = job[k].attempts /\ j.stalls = job[k].stalls
  BY Typed DEF Job
<1>2. job' = [ job EXCEPT ![k] = j ]
  OBVIOUS
<1> QED  BY <1>1, <1>2 DEF JobSet, TypeOK

LEMMA TakenJob ==
  ASSUME TypeOK, NEW k \in Runs, NEW w \in Workers,
         job' = [ job EXCEPT ![k].state = "active", ![k].owner = w ]
  PROVE  \E j : /\ JobSet(k, j) /\ j.state = "active" /\ j.owner = w
                /\ j.attempts = job[k].attempts
<1>. PICK j : j = [ job[k] EXCEPT !.state = "active", !.owner = w ]
  OBVIOUS
<1>1. /\ j \in Job /\ j.state = "active" /\ j.owner = w
      /\ j.attempts = job[k].attempts /\ j.stalls = job[k].stalls
  BY Typed DEF Job
<1>2. job' = [ job EXCEPT ![k] = j ]
  BY Typed DEF Job
<1> QED  BY <1>1, <1>2 DEF JobSet, TypeOK

LEMMA ReturnedJob ==
  ASSUME TypeOK, NEW k \in Runs,
         job' = [ job EXCEPT ![k].state = "done", ![k].owner = NoWorker ]
  PROVE  \E j : JobSet(k, j) /\ j.state = "done" /\ j.owner = NoWorker
<1>. PICK j : j = [ job[k] EXCEPT !.state = "done", !.owner = NoWorker ]
  OBVIOUS
<1>1. /\ j \in Job /\ j.state = "done" /\ j.owner = NoWorker
      /\ j.attempts = job[k].attempts /\ j.stalls = job[k].stalls
  BY Typed DEF Job
<1>2. job' = [ job EXCEPT ![k] = j ]
  BY Typed DEF Job
<1> QED  BY <1>1, <1>2 DEF JobSet, TypeOK

LEMMA ThrownJobSet ==
  ASSUME TypeOK, NEW k \in Runs, job[k].attempts < MaxAttempts, job' = ThrownJob(k)
  PROVE  \E j : /\ JobSet(k, j) /\ j.owner = NoWorker /\ j.state \in { "waiting", "dead" }
                /\ j.state = "waiting" <=> job[k].attempts + 1 < MaxAttempts
                /\ j.state = "waiting" => j.attempts < MaxAttempts
<1>. PICK n : n = job[k].attempts + 1
  OBVIOUS
<1>. PICK s : s = IF n < MaxAttempts THEN "waiting" ELSE "dead"
  OBVIOUS
<1>. PICK j : j = [ job[k] EXCEPT !.state = s, !.attempts = n, !.owner = NoWorker ]
  OBVIOUS
<1>1. n \in Nat /\ n <= MaxAttempts /\ s \in { "waiting", "dead" }
  BY Typed, SyncAssumption
<1>2. /\ j \in Job /\ j.state = s /\ j.owner = NoWorker
      /\ j.attempts = n /\ j.stalls = job[k].stalls
  BY <1>1, Typed DEF Job
<1>3. job' = [ job EXCEPT ![k] = j ]
  BY Typed DEF Job, ThrownJob
<1>4. JobSet(k, j)
  BY <1>1, <1>2, <1>3 DEF JobSet, TypeOK
<1>5. j.state = "waiting" <=> n < MaxAttempts
  BY <1>2
<1> QED  BY <1>1, <1>2, <1>4, <1>5

LEMMA StalledJob ==
  ASSUME TypeOK, NEW k \in Runs, Stall(k)
  PROVE  \E j : /\ JobSet(k, j) /\ j.owner = NoWorker /\ j.attempts = job[k].attempts
                /\ \/ j.state = "waiting" /\ abandoned' = abandoned
                   \/ j.state = "dead" /\ abandoned' = abandoned \cup {k}
<1>0. job[k].stalls \in Nat /\ job[k].stalls <= MaxStalls /\ MaxStalls \in Nat
      /\ job[k] \in Job /\ job[k].attempts <= MaxAttempts
  BY Typed, SyncAssumption DEF TypeOK
<1>1. CASE job[k].stalls < MaxStalls
  <2>. PICK n : n = job[k].stalls + 1
    OBVIOUS
  <2>. PICK j : j = [ job[k] EXCEPT !.state = "waiting", !.owner = NoWorker, !.stalls = n ]
    OBVIOUS
  <2>1. n \in Nat /\ n <= MaxStalls
    BY <1>0, <1>1
  <2>2. /\ j \in Job /\ j.state = "waiting" /\ j.owner = NoWorker
        /\ j.attempts = job[k].attempts /\ j.stalls = n
    BY <1>0, <2>1 DEF Job
  <2>3. job' = [ job EXCEPT ![k] = j ] /\ abandoned' = abandoned
    BY <1>1, Typed DEF Stall, Job
  <2> QED  BY <1>0, <2>1, <2>2, <2>3 DEF JobSet
<1>2. CASE ~(job[k].stalls < MaxStalls)
  <2>. PICK j : j = [ job[k] EXCEPT !.state = "dead", !.owner = NoWorker ]
    OBVIOUS
  <2>2. /\ j \in Job /\ j.state = "dead" /\ j.owner = NoWorker
        /\ j.attempts = job[k].attempts /\ j.stalls = job[k].stalls
    BY <1>0 DEF Job
  <2>3. job' = [ job EXCEPT ![k] = j ] /\ abandoned' = abandoned \cup {k}
    BY <1>2, Typed DEF Stall, Job
  <2> QED  BY <1>0, <2>2, <2>3 DEF JobSet
<1> QED  BY <1>1, <1>2

\* The end of an attempt by an error: only the owner's is heard.
LEMMA ThrowMoves ==
  ASSUME TypeOK, WorkersSound, JobsSound, NEW w \in Workers, worker[w].phase # "idle", Throw(w)
  PROVE  /\ worker' \in [ Workers -> Worker ] /\ Alone(w) /\ worker'[w] = IdleWorker
         /\ worker[w].run \in Runs
         /\ \/ ~Owns(w) /\ job' = job
            \/ /\ Owns(w)
               /\ \E j : /\ JobSet(worker[w].run, j) /\ j.owner = NoWorker
                         /\ j.state \in { "waiting", "dead" }
                         /\ j.state = "waiting" <=> job[worker[w].run].attempts + 1 < MaxAttempts
                         /\ j.state = "waiting" => j.attempts < MaxAttempts
<1>. PICK k : k = worker[w].run
  OBVIOUS
<1>1. k \in Runs
  BY DEF WorkersSound
<1>2. worker' \in [ Workers -> Worker ] /\ Alone(w) /\ worker'[w] = IdleWorker
  BY IdleMoves DEF Throw
<1>3. CASE ~Owns(w)
  BY <1>1, <1>2, <1>3 DEF Throw
<1>4. CASE Owns(w)
  <2>1. job[k].attempts < MaxAttempts
    BY <1>1, <1>4, SyncAssumption DEF JobsSound, Owns
  <2>2. job' = ThrownJob(k)
    BY <1>4 DEF Throw, ThrownJob
  <2> QED  BY <1>1, <1>2, <1>4, <2>1, <2>2, ThrownJobSet
<1> QED  BY <1>3, <1>4

-----------------------------------------------------------------------------
(* Runs, jobs and requests: the shapes a step can have *)

Queue ==
  /\ WorkersSound /\ OneInProgress /\ JobsSound /\ RequestsSound
  /\ JobsOwned /\ RunsFit /\ ProgressHasJob

SameRequests ==
  \A r \in Requests : /\ request'[r].run = request[r].run
                      /\ request'[r].phase = "created" <=> request[r].phase = "created"

\* A worker may move on in the processing of its run.
Onward(w) ==
  /\ worker'[w].run = worker[w].run
  /\ worker'[w].phase = "idle" <=> worker[w].phase = "idle"
  /\ \A status : Fits(worker[w].phase, status) => Fits(worker'[w].phase, status)

Moved ==
  /\ run' = run /\ job' = job /\ lapses' = lapses /\ abandoned' = abandoned
  /\ SameRequests
  /\ \A w \in Workers : worker[w].phase # "idle" =>
       \/ Onward(w)
       \/ /\ worker'[w].run = worker[w].run /\ worker'[w].phase # "idle"
          /\ Fits(worker'[w].phase, run[worker[w].run])
  /\ \A w \in Workers : worker[w].phase = "idle" =>
       worker'[w].phase = "idle" /\ worker'[w].run = worker[w].run

LEMMA QueueMoved ==
  ASSUME Queue, Moved
  PROVE  Queue'
<1>1. \A w \in Workers : /\ worker'[w].run = worker[w].run
                         /\ worker'[w].phase = "idle" <=> worker[w].phase = "idle"
  BY DEF Moved, Onward
<1>2. WorkersSound' /\ JobsOwned'
  BY <1>1 DEF Queue, Moved, WorkersSound, JobsOwned, Owns
<1>3. RunsFit'
  BY <1>1 DEF Queue, Moved, Onward, RunsFit
<1>4. OneInProgress' /\ JobsSound' /\ RequestsSound' /\ ProgressHasJob'
  BY DEF Queue, Moved, SameRequests, OneInProgress, InProgress, JobsSound, RequestsSound,
         ProgressHasJob
<1> QED  BY <1>2, <1>3, <1>4 DEF Queue

OthersStay(w) ==
  \A v \in Workers : v # w => /\ worker'[v].run = worker[v].run
                              /\ worker'[v].phase = worker[v].phase

\* No other worker works on the run of one whose job it is.
LEMMA NobodyElse ==
  ASSUME Queue, lapses = 0, NEW w \in Workers, worker[w].phase # "idle",
         NEW v \in Workers, v # w, worker[v].phase # "idle"
  PROVE  worker[v].run # worker[w].run
BY DEF Queue, JobsOwned, Owns

\* The worker sets the status of its run.
RunSet(w, status) ==
  /\ worker[w].phase # "idle"
  /\ status \in { "RUNNING", "COMPLETED", "FAILED" }
  /\ status = "RUNNING" => IndexAllows(worker[w].run)
  /\ run' = [ run EXCEPT ![worker[w].run] = status ]
  /\ job' = job /\ request' = request /\ lapses' = lapses /\ abandoned' = abandoned
  /\ OthersStay(w)
  /\ worker'[w].run = worker[w].run /\ worker'[w].phase # "idle"
  /\ Fits(worker'[w].phase, status)

LEMMA QueueRun ==
  ASSUME TypeOK, Queue, NEW w \in Workers, NEW status, RunSet(w, status)
  PROVE  Queue'
<1>. PICK k : k = worker[w].run
  OBVIOUS
<1>1. k \in Runs /\ run'[k] = status /\ \A o \in Runs : o # k => run'[o] = run[o]
  BY Typed DEF RunSet, Queue, WorkersSound
<1>2. \A v \in Workers : /\ worker'[v].run = worker[v].run
                         /\ worker'[v].phase = "idle" <=> worker[v].phase = "idle"
  BY DEF RunSet, OthersStay
<1>3. WorkersSound' /\ JobsOwned'
  BY <1>2 DEF Queue, RunSet, WorkersSound, JobsOwned, Owns
<1>4. OneInProgress'
  BY <1>1 DEF Queue, RunSet, OneInProgress, InProgress, IndexAllows
<1>5. JobsSound' /\ RequestsSound'
  BY <1>1 DEF Queue, RunSet, JobsSound, RequestsSound
<1>6. RunsFit'
  <2> SUFFICES ASSUME lapses = 0, NEW v \in Workers, worker'[v].phase # "idle"
               PROVE  Fits(worker'[v].phase, run'[worker'[v].run])
    BY DEF RunsFit, RunSet
  <2>1. CASE v = w
    BY <1>1, <1>2, <2>1 DEF RunSet
  <2>2. CASE v # w
    <3>1. worker[v].run # k /\ worker[v].run \in Runs
      BY <1>2, <2>2, NobodyElse DEF RunSet, Queue, WorkersSound
    <3> QED  BY <1>1, <1>2, <2>2, <3>1 DEF RunSet, OthersStay, Queue, RunsFit
  <2> QED  BY <2>1, <2>2
<1>7. ProgressHasJob'
  <2> SUFFICES ASSUME NEW o \in Runs, InProgress(o)', lapses = 0
               PROVE  \/ job[o].state \in { "waiting", "active" }
                      \/ \E r \in Requests : request[r].run = o
                      \/ o \in abandoned
    <3>1. lapses' = lapses /\ lapses \in Nat
      BY Typed DEF RunSet
    <3> QED  BY <3>1 DEF ProgressHasJob, RunSet
  <2>1. CASE o = k
    BY <2>1, SyncAssumption DEF RunSet, Queue, JobsOwned, Owns, JobsSound, WorkersSound
  <2>2. CASE o # k
    <3>1. InProgress(o)
      BY <1>1, <2>2 DEF InProgress
    <3> QED  BY <3>1 DEF Queue, ProgressHasJob
  <2> QED  BY <2>1, <2>2
<1> QED  BY <1>3, <1>4, <1>5, <1>6, <1>7 DEF Queue

\* The worker is done with its run; if the job is still its own, it may change the job.
Dropped(w) ==
  /\ run' = run /\ request' = request /\ lapses' = lapses /\ abandoned \subseteq abandoned'
  /\ OthersStay(w) /\ worker'[w].phase = "idle" /\ worker'[w].run = NoRun
  /\ \/ job' = job
     \/ /\ worker[w].phase # "idle" /\ Owns(w)
        /\ \E j : /\ JobSet(worker[w].run, j) /\ j.owner = NoWorker
                  /\ j.state \in { "waiting", "dead", "done" }
                  /\ j.state = "waiting" => j.attempts < MaxAttempts
                  /\ j.state # "waiting" /\ lapses = 0 =>
                       ~InProgress(worker[w].run) \/ worker[w].run \in abandoned'

LEMMA QueueDropped ==
  ASSUME TypeOK, Queue, NEW w \in Workers, Dropped(w)
  PROVE  Queue'
<1>. PICK k : k = worker[w].run
  OBVIOUS
<1>1. OneInProgress'
  BY DEF Queue, Dropped, OneInProgress, InProgress
<1>2. CASE job' = job
  <2>1. WorkersSound' /\ JobsOwned' /\ RunsFit'
    BY <1>2 DEF Queue, Dropped, OthersStay, WorkersSound, JobsOwned, Owns, RunsFit
  <2>2. JobsSound' /\ RequestsSound' /\ ProgressHasJob'
    BY <1>2 DEF Queue, Dropped, JobsSound, RequestsSound, ProgressHasJob, InProgress
  <2> QED  BY <1>1, <2>1, <2>2 DEF Queue
<1>3. ASSUME worker[w].phase # "idle", Owns(w), NEW j, JobSet(k, j), j.owner = NoWorker,
             j.state \in { "waiting", "dead", "done" },
             j.state = "waiting" => j.attempts < MaxAttempts,
             j.state # "waiting" /\ lapses = 0 => ~InProgress(k) \/ k \in abandoned'
      PROVE  Queue'
  <2>1. k \in Runs
    BY <1>3 DEF Queue, WorkersSound
  <2>2. job'[k] = j /\ \A o \in Runs : o # k => job'[o] = job[o]
    BY <1>3, <2>1, JobSetTyped
  <2>3. WorkersSound'
    BY <2>2, <1>3 DEF Queue, Dropped, OthersStay, WorkersSound
  <2>4. job[k].state = "active" /\ run[k] # "NONE"
    BY <1>3, <2>1, SyncAssumption DEF Queue, JobsSound, Owns
  <2>5. JobsSound'
    BY <1>3, <2>2, <2>4 DEF Queue, Dropped, JobsSound
  <2>6. RequestsSound'
    BY <2>2, <2>4 DEF Queue, Dropped, RequestsSound
  <2>7. JobsOwned' /\ RunsFit'
    <3> SUFFICES ASSUME lapses = 0, NEW v \in Workers, worker'[v].phase # "idle"
                 PROVE  Owns(v)' /\ Fits(worker'[v].phase, run'[worker'[v].run])
      BY DEF JobsOwned, RunsFit, Dropped
    <3>1. /\ v # w /\ worker[v].phase # "idle" /\ worker'[v].run = worker[v].run
          /\ worker'[v].phase = worker[v].phase
      BY DEF Dropped, OthersStay
    <3>2. worker[v].run # k /\ worker[v].run \in Runs
      BY <1>3, <3>1, NobodyElse DEF Queue, WorkersSound
    <3> QED  BY <2>2, <3>1, <3>2 DEF Dropped, Queue, JobsOwned, RunsFit, Owns
  <2>8. ProgressHasJob'
    <3> SUFFICES ASSUME NEW o \in Runs, InProgress(o), lapses = 0
                 PROVE  \/ job'[o].state \in { "waiting", "active" }
                        \/ \E r \in Requests : request'[r].run = o
                        \/ o \in abandoned'
      <4>1. lapses' = lapses /\ lapses \in Nat /\ run' = run
        BY Typed DEF Dropped
      <4> QED  BY <4>1 DEF ProgressHasJob, InProgress
    <3>1. CASE o = k
      BY <1>3, <2>2, <3>1
    <3>2. CASE o # k
      BY <2>2, <3>2 DEF Queue, Dropped, ProgressHasJob
    <3> QED  BY <3>1, <3>2
  <2> QED  BY <1>1, <2>3, <2>5, <2>6, <2>7, <2>8 DEF Queue
<1> QED  BY <1>2, <1>3 DEF Dropped

LEMMA QueueTaken ==
  ASSUME TypeOK, Queue, NEW w \in Workers, Take(w)
  PROVE  Queue' /\ TypeOK' /\ Alone(w) /\ worker'[w].phase = "taken" /\ worker'[w].seen = {}
                /\ ~worker'[w].quiet
<1>1. PICK k \in Runs :
        /\ job[k].state = "waiting"
        /\ job' = [ job EXCEPT ![k].state = "active", ![k].owner = w ]
        /\ worker' = [ worker EXCEPT ![w] = [ IdleWorker EXCEPT !.phase = "taken", !.run = k ] ]
  BY DEF Take
<1>2. PICK j : /\ JobSet(k, j) /\ j.state = "active" /\ j.owner = w
               /\ j.attempts = job[k].attempts
  BY <1>1, TakenJob
<1>3. /\ job'[k] = j /\ \A o \in Runs : o # k => job'[o] = job[o]
      /\ job' \in [ Runs -> Job ]
      /\ \A o \in Runs : job'[o].attempts <= MaxAttempts /\ job'[o].stalls <= MaxStalls
  BY <1>2, JobSetTyped
<1>. PICK q : q = [ IdleWorker EXCEPT !.phase = "taken", !.run = k ]
  OBVIOUS
<1>4. q \in Worker /\ q.phase = "taken" /\ q.run = k /\ q.seen = {} /\ ~q.quiet
  BY NothingTyped DEF IdleWorker, Worker
<1>5. worker' \in [ Workers -> Worker ] /\ Alone(w) /\ worker'[w] = q
  BY <1>1, <1>4, SetWorker
<1>6. /\ run' = run /\ request' = request /\ lapses' = lapses /\ abandoned' = abandoned
      /\ revoked' = revoked /\ blogger' = blogger /\ row' = row
      /\ worker[w] = IdleWorker
  BY DEF Take, history
<1>7. TypeOK'
  BY <1>3, <1>5, <1>6 DEF TypeOK
<1>8. WorkersSound'
  <2> SUFFICES ASSUME NEW v \in Workers
               PROVE  IF worker'[v].phase = "idle" THEN worker'[v].run = NoRun
                      ELSE worker'[v].run \in Runs /\ job'[worker'[v].run].state # "none"
    BY DEF WorkersSound
  <2>1. CASE v = w
    BY <1>2, <1>3, <1>4, <1>5, <2>1
  <2>2. CASE v # w
    <3>1. /\ worker'[v] = worker[v]
          /\ IF worker[v].phase = "idle" THEN worker[v].run = NoRun
             ELSE worker[v].run \in Runs /\ job[worker[v].run].state # "none"
      BY <1>5, <2>2 DEF Alone, Queue, WorkersSound
    <3> QED  BY <1>2, <1>3, <3>1
  <2> QED  BY <2>1, <2>2
<1>9. OneInProgress' /\ JobsSound' /\ RequestsSound' /\ ProgressHasJob'
  BY <1>1, <1>2, <1>3, <1>6, SyncAssumption DEF Queue, OneInProgress, InProgress, JobsSound,
     RequestsSound, ProgressHasJob
<1>10. JobsOwned' /\ RunsFit'
  <2> SUFFICES ASSUME lapses = 0, NEW v \in Workers, worker'[v].phase # "idle"
               PROVE  Owns(v)' /\ Fits(worker'[v].phase, run'[worker'[v].run])
    BY <1>6 DEF JobsOwned, RunsFit
  <2>1. CASE v = w
    BY <1>2, <1>3, <1>4, <1>5, <2>1 DEF Owns, Fits
  <2>2. CASE v # w
    <3>1. worker'[v] = worker[v] /\ worker[v].run \in Runs /\ Owns(v)
      BY <1>5, <2>2 DEF Alone, Queue, WorkersSound, JobsOwned
    <3>2. job[worker[v].run].state = "active"
      BY <3>1, SyncAssumption DEF Owns, Queue, JobsSound
    <3>3. worker[v].run # k
      BY <1>1, <3>2
    <3> QED  BY <1>3, <1>6, <3>1, <3>3 DEF Queue, RunsFit, Owns
  <2> QED  BY <2>1, <2>2
<1> QED  BY <1>4, <1>5, <1>7, <1>8, <1>9, <1>10 DEF Queue

LEMMA QueueStalled ==
  ASSUME TypeOK, Queue, NEW k \in Runs, Stall(k)
  PROVE  Queue' /\ TypeOK' /\ worker' = worker /\ blogger' = blogger /\ row' = row
<1>1. PICK j : /\ JobSet(k, j) /\ j.owner = NoWorker /\ j.attempts = job[k].attempts
               /\ \/ j.state = "waiting" /\ abandoned' = abandoned
                  \/ j.state = "dead" /\ abandoned' = abandoned \cup {k}
  BY StalledJob
<1>2. /\ job'[k] = j /\ \A o \in Runs : o # k => job'[o] = job[o]
      /\ job' \in [ Runs -> Job ]
      /\ \A o \in Runs : job'[o].attempts <= MaxAttempts /\ job'[o].stalls <= MaxStalls
  BY <1>1, JobSetTyped
<1>3. /\ run' = run /\ request' = request /\ worker' = worker
      /\ revoked' = revoked /\ blogger' = blogger /\ row' = row
      /\ job[k].state = "active"
      /\ IF Alive(k) THEN lapses < MaxLapses /\ lapses' = lapses + 1 ELSE lapses' = lapses
  BY DEF Stall
<1>4. TypeOK'
  <2>1. lapses' \in 0 .. MaxLapses /\ abandoned' \subseteq Runs
    BY <1>1, <1>3, SyncAssumption DEF TypeOK
  <2> QED  BY <1>2, <1>3, <2>1 DEF TypeOK
<1>5. WorkersSound' /\ OneInProgress' /\ JobsSound' /\ RequestsSound'
  BY <1>1, <1>2, <1>3 DEF Queue, WorkersSound, OneInProgress, InProgress, JobsSound, RequestsSound
<1>6. JobsOwned' /\ RunsFit' /\ ProgressHasJob'
  <2>1. CASE Alive(k)
    BY <1>3, <2>1, Typed DEF JobsOwned, RunsFit, ProgressHasJob
  <2>2. CASE ~Alive(k)
    BY <1>1, <1>2, <1>3, <2>2 DEF Alive, Queue, JobsOwned, Owns, RunsFit, ProgressHasJob, InProgress,
       WorkersSound
  <2> QED  BY <2>1, <2>2
<1> QED  BY <1>3, <1>4, <1>5, <1>6 DEF Queue

LEMMA QueueCreated ==
  ASSUME TypeOK, Queue, NEW r \in Requests, CreateRun(r)
  PROVE  Queue' /\ TypeOK' /\ worker' = worker /\ blogger' = blogger /\ row' = row
<1>1. PICK k \in Runs :
        /\ run[k] = "NONE" /\ IndexAllows(k)
        /\ run' = [ run EXCEPT ![k] = "PENDING" ]
        /\ request' = [ request EXCEPT ![r] = [ NoRequest EXCEPT !.phase = "created", !.run = k ] ]
  BY DEF CreateRun, SetRequest
<1>. PICK q : q = [ NoRequest EXCEPT !.phase = "created", !.run = k ]
  OBVIOUS
<1>2. q \in Request /\ q.phase = "created" /\ q.run = k
  BY NothingTyped DEF NoRequest, Request
<1>3. /\ request' \in [ Requests -> Request ] /\ request'[r] = q
      /\ \A o \in Requests : o # r => request'[o] = request[o]
      /\ run' \in [ Runs -> { "NONE", "PENDING", "RUNNING", "COMPLETED", "FAILED" } ]
      /\ run'[k] = "PENDING" /\ \A o \in Runs : o # k => run'[o] = run[o]
  BY <1>1, <1>2, Typed
<1>4. /\ job' = job /\ worker' = worker /\ lapses' = lapses /\ abandoned' = abandoned
      /\ revoked' = revoked /\ blogger' = blogger /\ row' = row /\ request[r].phase = "checked"
  BY DEF CreateRun, history
<1>5. job[k].state = "none"
  BY <1>1 DEF Queue, JobsSound
<1>6. TypeOK'
  BY <1>3, <1>4 DEF TypeOK
<1>7. WorkersSound' /\ OneInProgress' /\ JobsSound'
  BY <1>1, <1>3, <1>4 DEF Queue, WorkersSound, OneInProgress, InProgress, IndexAllows, JobsSound
<1>8. RequestsSound'
  BY <1>1, <1>2, <1>3, <1>4, <1>5 DEF Queue, RequestsSound
<1>9. JobsOwned' /\ RunsFit'
  BY <1>3, <1>4, <1>5 DEF Queue, JobsOwned, Owns, RunsFit, WorkersSound
<1>10. ProgressHasJob'
  <2>1. \A o \in Requests : request[o].run # NoRun => request'[o].run = request[o].run
    <3>1. request[r].run = NoRun
      BY <1>4 DEF Queue, RequestsSound
    <3> QED  BY <1>3, <3>1
  <2> SUFFICES ASSUME NEW i \in Runs, InProgress(i)'
               PROVE  \/ job'[i].state \in { "waiting", "active" }
                      \/ \E o \in Requests : request'[o].run = i
                      \/ i \in abandoned'
                      \/ lapses' > 0
    BY DEF ProgressHasJob
  <2>2. CASE i = k
    BY <1>2, <1>3, <2>2
  <2>3. CASE i # k
    <3>1. InProgress(i) /\ i # NoRun
      BY <1>3, <2>3, SyncAssumption DEF InProgress
    <3> QED  BY <1>4, <2>1, <3>1 DEF Queue, ProgressHasJob
  <2> QED  BY <2>2, <2>3
<1> QED  BY <1>4, <1>6, <1>7, <1>8, <1>9, <1>10 DEF Queue

LEMMA QueueEnqueued ==
  ASSUME TypeOK, Queue, NEW r \in Requests, enqueueBloggerSync(r)
  PROVE  Queue' /\ TypeOK' /\ worker' = worker /\ blogger' = blogger /\ row' = row
<1>. PICK k : k = request[r].run
  OBVIOUS
<1>1. /\ k \in Runs /\ run[k] # "NONE" /\ job[k].state = "none" /\ k # NoRun
      /\ job' = [ job EXCEPT ![k].state = "waiting" ]
      /\ \A o \in Requests : request[o].run = k => o = r
  BY SyncAssumption DEF enqueueBloggerSync, Queue, RequestsSound
<1>2. PICK j : /\ JobSet(k, j) /\ j.state = "waiting" /\ j.owner = job[k].owner
               /\ j.attempts = job[k].attempts
  BY <1>1, QueuedJob
<1>3. /\ job'[k] = j /\ \A o \in Runs : o # k => job'[o] = job[o]
      /\ job' \in [ Runs -> Job ]
      /\ \A o \in Runs : job'[o].attempts <= MaxAttempts /\ job'[o].stalls <= MaxStalls
  BY <1>1, <1>2, JobSetTyped
<1>4. /\ request' \in [ Requests -> Request ] /\ request'[r] = NoRequest
      /\ \A o \in Requests : o # r => request'[o] = request[o]
  BY NothingTyped, Typed DEF enqueueBloggerSync, SetRequest
<1>5. /\ run' = run /\ worker' = worker /\ lapses' = lapses /\ abandoned' = abandoned
      /\ revoked' = revoked /\ blogger' = blogger /\ row' = row
  BY DEF enqueueBloggerSync, history
<1>6. TypeOK'
  BY <1>3, <1>4, <1>5 DEF TypeOK
<1>7. WorkersSound' /\ OneInProgress' /\ JobsSound'
  BY <1>1, <1>2, <1>3, <1>5 DEF Queue, WorkersSound, OneInProgress, InProgress, JobsSound
<1>8. RequestsSound'
  BY <1>1, <1>3, <1>4, <1>5, NothingTyped DEF Queue, RequestsSound
<1>9. JobsOwned' /\ RunsFit'
  BY <1>1, <1>3, <1>5 DEF Queue, JobsOwned, Owns, RunsFit, WorkersSound
<1>10. ProgressHasJob'
  BY <1>1, <1>2, <1>3, <1>4, <1>5 DEF Queue, ProgressHasJob, InProgress
<1> QED  BY <1>5, <1>6, <1>7, <1>8, <1>9, <1>10 DEF Queue

LEMMA QueueRequestFailed ==
  ASSUME TypeOK, Queue, NEW r \in Requests, RequestFails(r)
  PROVE  Queue' /\ TypeOK' /\ worker' = worker /\ blogger' = blogger /\ row' = row
<1>1. /\ request' \in [ Requests -> Request ] /\ request'[r] = NoRequest
      /\ \A o \in Requests : o # r => request'[o] = request[o]
  BY NothingTyped, Typed DEF RequestFails, SetRequest
<1>2. /\ run' = run /\ job' = job /\ worker' = worker /\ lapses' = lapses
      /\ abandoned' = abandoned \cup ({ request[r].run } \cap Runs)
      /\ revoked' = revoked /\ blogger' = blogger /\ row' = row
  BY DEF RequestFails
<1>3. TypeOK'
  BY <1>1, <1>2 DEF TypeOK
<1>4. WorkersSound' /\ OneInProgress' /\ JobsSound' /\ JobsOwned' /\ RunsFit'
  BY <1>2 DEF Queue, WorkersSound, OneInProgress, InProgress, JobsSound, JobsOwned, Owns, RunsFit
<1>5. RequestsSound'
  BY <1>1, <1>2, NothingTyped DEF Queue, RequestsSound
<1>6. ProgressHasJob'
  BY <1>1, <1>2 DEF Queue, ProgressHasJob, InProgress
<1> QED  BY <1>2, <1>3, <1>4, <1>5, <1>6 DEF Queue

-----------------------------------------------------------------------------
(* What a worker knows of Blogger: the shapes a step can have *)

Scan == ScanSound /\ QuietSound

LEMMA ScanKept ==
  ASSUME Scan, worker' = worker, blogger' = blogger, row' = row
  PROVE  Scan'
BY DEF Scan, ScanSound, QuietSound, Working

\* Somebody else changes Blogger or the rows: who is at work knows less.
LEMMA ScanDisturbed ==
  ASSUME TypeOK, Scan, NEW gone \in SUBSET Posts, Disturb(gone),
         \A p \in Posts : blogger'[p] # "listed" => blogger[p] # "listed" \/ p \in gone
  PROVE  Scan'
<1>. USE DisturbMoves
<1>1. ASSUME NEW w \in Workers PROVE ScanFits(worker'[w], blogger')
  <2>1. ScanFits(worker[w], blogger)
    BY DEF Scan, ScanSound
  <2>2. CASE ~Working(w)
    BY <2>1, <2>2 DEF Working, ScanFits
  <2>3. CASE Working(w)
    BY <2>1, <2>3 DEF Working, ScanFits
  <2> QED  BY <2>2, <2>3
<1>2. ASSUME NEW w \in Workers PROVE ~worker'[w].quiet
  BY DEF Scan, QuietSound
<1> QED  BY <1>1, <1>2 DEF Scan, ScanSound, QuietSound

\* A worker takes a step of its own; the rows are written by those at work only.
Steps(w) ==
  /\ Alone(w) /\ blogger' = blogger
  /\ row' = row \/ Working(w)
  /\ Working(w)' => Working(w)
  /\ ScanFits(worker'[w], blogger)
  /\ worker'[w].quiet => worker[w].quiet /\ Working(w)' /\ Knows(worker'[w], blogger, row')

LEMMA ScanSteps ==
  ASSUME Scan, NEW w \in Workers, Steps(w)
  PROVE  Scan'
<1>1. ScanSound'
  BY DEF Scan, ScanSound, Steps, Alone
<1>2. ASSUME NEW v \in Workers, worker'[v].quiet
      PROVE  /\ Working(v)' /\ \A o \in Workers : Working(o)' => o = v
             /\ Knows(worker'[v], blogger', row')
  <2>1. worker[v].quiet
    BY <1>2 DEF Steps, Alone
  <2>2. Working(v) /\ (\A o \in Workers : Working(o) => o = v) /\ Knows(worker[v], blogger, row)
    BY <2>1 DEF Scan, QuietSound
  <2>3. \A o \in Workers : Working(o)' => Working(o)
    BY DEF Steps, Alone, Working
  <2>4. CASE v = w
    BY <1>2, <2>2, <2>3, <2>4 DEF Steps
  <2>5. CASE v # w
    <3>1. worker'[v] = worker[v] /\ row' = row /\ blogger' = blogger
      BY <2>2, <2>5 DEF Steps, Alone
    <3> QED  BY <2>2, <2>3, <3>1 DEF Working
  <2> QED  BY <2>4, <2>5
<1> QED  BY <1>1, <1>2 DEF Scan, QuietSound

\* A worker that is not at work knows nothing yet, or no more.
LEMMA ScanOutside ==
  ASSUME Scan, NEW w \in Workers, Alone(w), blogger' = blogger, row' = row,
         ~worker'[w].quiet, worker'[w].seen = {}, ~Working(w)'
  PROVE  Scan'
<1>1. Steps(w)
  BY DEF Steps, Working, ScanFits
<1> QED  BY <1>1, ScanSteps

LEMMA ScanStarted ==
  ASSUME TypeOK, Scan, NEW w \in Workers, At(w, "connected"), StartListing(w),
         blogger' = blogger, row' = row
  PROVE  Scan'
<1>1. worker[w].seen = {}
  BY DEF At, Scan, ScanSound, ScanFits
<1>2. ASSUME NEW v \in Workers PROVE ScanFits(worker'[v], blogger')
  <2>1. CASE v = w
    BY <1>1, <2>1, StartMoves DEF ScanFits, Posts
  <2>2. CASE v # w
    BY <2>2, StartMoves DEF Scan, ScanSound, ScanFits
  <2> QED  BY <2>1, <2>2
<1>3. ASSUME NEW v \in Workers, worker'[v].quiet
      PROVE  /\ Working(v)' /\ \A o \in Workers : Working(o)' => o = v
             /\ Knows(worker'[v], blogger', row')
  <2>1. v = w
    BY <1>3, StartMoves
  <2>2. Working(w)' /\ \A o \in Workers : Working(o)' => o = w
    BY <1>3, <2>1, StartMoves DEF Working
  <2>3. Knows(worker'[w], blogger', row')
    BY <1>1, StartMoves DEF Knows, Posts
  <2> QED  BY <2>1, <2>2, <2>3
<1> QED  BY <1>2, <1>3 DEF Scan, ScanSound, QuietSound

-----------------------------------------------------------------------------
(* The steps of requests, of other people and of BullMQ *)

LEMMA Parts == IInv <=> TypeOK /\ Queue /\ Scan
BY DEF IInv, Queue, Scan

\* Nothing happens to a run, a job or a worker.
LEMMA QuietStep ==
  ASSUME IInv, SameRequests, revoked' \in BOOLEAN, request' \in [ Requests -> Request ],
         UNCHANGED <<run, job, blogger, row, worker, history>>
  PROVE  IInv'
<1>1. TypeOK'
  BY Parts DEF TypeOK, history
<1>2. Moved
  BY DEF Moved, Onward, history
<1>3. Queue' /\ Scan'
  BY <1>2, Parts, QueueMoved, ScanKept
<1> QED  BY <1>1, <1>3 DEF IInv, Queue, Scan

LEMMA RequestSet ==
  ASSUME IInv, NEW r \in Requests, request[r].phase # "created", NEW q \in Request,
         SetRequest(r, q), q.run = NoRun, q.phase # "created"
  PROVE  SameRequests /\ request' \in [ Requests -> Request ]
<1>1. request[r].run = NoRun
  BY DEF IInv, RequestsSound
<1>2. request' \in [ Requests -> Request ] /\ request'[r] = q
      /\ \A o \in Requests : o # r => request'[o] = request[o]
  BY Parts, Typed DEF SetRequest
<1> QED  BY <1>1, <1>2 DEF SameRequests

\* Posts come and go on Blogger, and the rows of test posts follow.
LEMMA DisturbedStep ==
  ASSUME IInv, NEW gone \in SUBSET Posts, Disturb(gone), SameRequests,
         request' \in [ Requests -> Request ],
         blogger' \in [ Posts -> PostStates ],
         row' \in [ Posts -> { "NONE", "LIVE", "DELETED" } ],
         \A p \in Posts : blogger'[p] # "listed" => blogger[p] # "listed" \/ p \in gone,
         UNCHANGED <<revoked, run, job, history>>
  PROVE  IInv'
<1>1. /\ worker' \in [ Workers -> Worker ]
      /\ \A w \in Workers : worker'[w].phase = worker[w].phase /\ worker'[w].run = worker[w].run
  BY Parts, DisturbMoves
<1>2. TypeOK'
  BY <1>1, Parts DEF TypeOK, history
<1>3. Moved
  BY <1>1 DEF Moved, Onward, history
<1>4. Queue' /\ Scan'
  BY <1>3, Parts, QueueMoved, ScanDisturbed
<1> QED  BY <1>2, <1>4 DEF IInv, Queue, Scan

LEMMA PostNumbers == \A p \in Posts : p \in 0 .. LastPost
BY SyncAssumption DEF Posts

LEMMA KeepsFindActive ==
  ASSUME IInv, NEW r \in Requests, FindActive(r)
  PROVE  IInv'
<1>. PICK q : q = [ NoRequest EXCEPT !.phase = "checked" ]
  OBVIOUS
<1>1. q \in Request /\ q.run = NoRun /\ q.phase = "checked"
  BY NothingTyped DEF NoRequest, Request
<1>2. SetRequest(r, q) /\ request[r].phase # "created"
  BY NothingTyped DEF FindActive
<1>3. SameRequests /\ request' \in [ Requests -> Request ]
  BY <1>1, <1>2, RequestSet
<1> QED  BY <1>3, Parts, QuietStep DEF FindActive, TypeOK

LEMMA KeepsCreateDraft ==
  ASSUME IInv, NEW r \in Requests, NEW p \in Posts, createDraft(r, p)
  PROVE  IInv'
<1>. PICK q : q = [ NoRequest EXCEPT !.phase = "posted", !.post = p ]
  OBVIOUS
<1>1. q \in Request /\ q.run = NoRun /\ q.phase = "posted"
  BY NothingTyped, PostNumbers DEF NoRequest, Request
<1>2. SetRequest(r, q) /\ request[r].phase # "created"
  BY NothingTyped DEF createDraft
<1>3. SameRequests /\ request' \in [ Requests -> Request ]
  BY <1>1, <1>2, RequestSet
<1>4. /\ blogger' \in [ Posts -> PostStates ]
      /\ \A o \in Posts : blogger'[o] # "listed" => blogger[o] # "listed"
  BY Parts, Typed DEF createDraft, PostStates
<1> QED  BY <1>3, <1>4, Parts, Typed, DisturbedStep DEF createDraft

LEMMA KeepsSnapshot ==
  ASSUME IInv, NEW r \in Requests, snapshot(r)
  PROVE  IInv'
<1>1. SameRequests /\ request' \in [ Requests -> Request ]
  BY NothingTyped, RequestSet DEF snapshot
<1>2. row' \in [ Posts -> { "NONE", "LIVE", "DELETED" } ]
  BY Parts, Typed DEF snapshot
<1> QED  BY <1>1, <1>2, Parts, Typed, DisturbedStep DEF snapshot

LEMMA KeepsRequest ==
  ASSUME IInv, NEW r \in Requests, RequestStep(r)
  PROVE  IInv'
<1>1. CASE CreateRun(r) \/ enqueueBloggerSync(r) \/ RequestFails(r)
  <2>1. Queue' /\ TypeOK' /\ worker' = worker /\ blogger' = blogger /\ row' = row
    BY <1>1, Parts, QueueCreated, QueueEnqueued, QueueRequestFailed
  <2>2. Scan'
    BY <2>1, Parts, ScanKept
  <2> QED  BY <2>1, <2>2 DEF IInv, Queue, Scan
<1> QED  BY <1>1, KeepsFindActive, KeepsSnapshot, KeepsCreateDraft DEF RequestStep

LEMMA KeepsBlogger ==
  ASSUME IInv, NEW p \in Posts, BloggerStep(p)
  PROVE  IInv'
<1> USE DEF BloggerStep, PublishOnBlogger, DeleteOnBlogger, ScheduleOnBlogger, ReleaseOnBlogger
<1>1. SameRequests /\ request' \in [ Requests -> Request ]
  BY Parts, Typed DEF SameRequests
<1>2. PICK state \in PostStates, gone \in { {}, {p} } :
        /\ blogger' = [ blogger EXCEPT ![p] = state ]
        /\ Disturb(gone)
        /\ state # "listed" => gone = {p}
  BY DEF PostStates
<1>3. /\ blogger' \in [ Posts -> PostStates ]
      /\ \A o \in Posts : blogger'[o] # "listed" => blogger[o] # "listed" \/ o \in gone
  BY <1>2, Parts, Typed
<1>4. gone \in SUBSET Posts /\ row' = row /\ UNCHANGED <<revoked, run, job, history>>
  OBVIOUS
<1> QED  BY <1>1, <1>2, <1>3, <1>4, Parts, Typed, DisturbedStep

LEMMA KeepsDisconnect ==
  ASSUME IInv, disconnect
  PROVE  IInv'
<1>1. SameRequests /\ request' \in [ Requests -> Request ]
  BY Parts, Typed DEF disconnect, SameRequests
<1> QED  BY <1>1, QuietStep DEF disconnect

LEMMA KeepsStall ==
  ASSUME IInv, NEW k \in Runs, Stall(k)
  PROVE  IInv'
<1>1. Queue' /\ TypeOK' /\ worker' = worker /\ blogger' = blogger /\ row' = row
  BY Parts, QueueStalled
<1>2. Scan'
  BY <1>1, Parts, ScanKept
<1> QED  BY <1>1, <1>2 DEF IInv, Queue, Scan

-----------------------------------------------------------------------------
(* The steps of a worker *)

\* Finding out about the run and the connection, and giving up.
LEMMA KeepsFind ==
  ASSUME IInv, NEW w \in Workers, FindRun(w) \/ FindConnection(w)
  PROVE  IInv'
<1>1. PICK phase \in Phases :
        /\ Goto(w, phase)
        /\ phase # "idle" /\ phase \in { "returning", "found", "failing", "connected" }
        /\ phase = "returning" => run[worker[w].run] = "COMPLETED"
        /\ phase = "found" => run[worker[w].run] # "COMPLETED"
        /\ phase \in { "failing", "connected" } => At(w, "found")
  <2>1. CASE FindRun(w)
    BY <2>1, Zenon DEF FindRun, Phases
  <2>2. CASE FindConnection(w)
    BY <2>2, Zenon DEF FindConnection, Phases
  <2> QED  BY <2>1, <2>2
<1>2. /\ worker' \in [ Workers -> Worker ] /\ Alone(w)
      /\ worker'[w].phase = phase /\ worker'[w].run = worker[w].run
      /\ worker'[w].seen = worker[w].seen /\ worker'[w].quiet = worker[w].quiet
  BY <1>1, Parts, GotoMoves
<1>3. /\ worker[w].phase \in { "taken", "found" }
      /\ UNCHANGED <<revoked, run, job, blogger, row, request, history>>
  BY DEF FindRun, FindConnection, At
<1>4. TypeOK'
  BY <1>2, <1>3, Parts DEF TypeOK, history
<1>5. Moved
  <2>1. lapses' = lapses /\ abandoned' = abandoned /\ SameRequests
    BY <1>3 DEF history, SameRequests
  <2>2. \A v \in Workers : v # w => Onward(v)
    BY <1>2 DEF Alone, Onward
  <2>3. CASE phase \in { "returning", "found" }
    <3>1. Fits(worker'[w].phase, run[worker[w].run])
      BY <1>1, <1>2, <2>3 DEF Fits
    <3> QED  BY <1>1, <1>2, <1>3, <2>1, <2>2, <3>1 DEF Moved, Onward
  <2>5. CASE phase \in { "failing", "connected" }
    <3>1. Onward(w)
      BY <1>1, <1>2, <2>5 DEF Onward, Fits, At
    <3> QED  BY <1>2, <1>3, <2>1, <2>2, <3>1 DEF Moved, Onward
  <2> QED  BY <1>1, <2>3, <2>5
<1>6. Scan'
  <2>1. worker[w].seen = {} /\ ~worker[w].quiet
    BY <1>3 DEF IInv, ScanSound, ScanFits, QuietSound, Working
  <2> QED  BY <1>1, <1>2, <1>3, <2>1, Parts, ScanOutside DEF Working
<1> QED  BY <1>4, <1>5, <1>6, Parts, QueueMoved DEF IInv, Queue, Scan

\* Steps that set the status of the run.
LEMMA KeepsMarkRunning ==
  ASSUME IInv, NEW w \in Workers, MarkRunning(w)
  PROVE  IInv'
<1>1. /\ At(w, "connected") /\ IndexAllows(worker[w].run)
      /\ run' = [ run EXCEPT ![worker[w].run] = "RUNNING" ] /\ StartListing(w)
      /\ UNCHANGED <<revoked, job, blogger, row, request, history>>
  BY DEF MarkRunning
<1>2. TypeOK'
  BY <1>1, Parts, Typed, StartMoves DEF TypeOK, history
<1>3. RunSet(w, "RUNNING")
  BY <1>1, Parts, StartMoves DEF RunSet, OthersStay, Fits, At, history
<1> QED  BY <1>1, <1>2, <1>3, Parts, QueueRun, ScanStarted DEF IInv, Queue, Scan

LEMMA KeepsComplete ==
  ASSUME IInv, NEW w \in Workers, Complete(w)
  PROVE  IInv'
<1>1. /\ At(w, "completing")
      /\ run' = [ run EXCEPT ![worker[w].run] = "COMPLETED" ]
      /\ UNCHANGED <<revoked, job, blogger, row, request, history>>
      /\ worker' \in [ Workers -> Worker ] /\ Alone(w)
      /\ worker'[w].phase = "returning" /\ worker'[w].run = worker[w].run
      /\ ~worker'[w].quiet /\ worker'[w].seen = {}
  BY Parts, LeaveMoves DEF Complete, Phases
<1>2. TypeOK'
  BY <1>1, Parts, Typed DEF TypeOK, history
<1>3. RunSet(w, "COMPLETED")
  BY <1>1, Parts DEF RunSet, OthersStay, Alone, Fits, At, history
<1> QED  BY <1>1, <1>2, <1>3, Parts, QueueRun, ScanOutside DEF IInv, Queue, Scan, Working

LEMMA KeepsFail ==
  ASSUME IInv, NEW w \in Workers, fail(w)
  PROVE  IInv'
<1>1. /\ At(w, "failing")
      /\ run' = [ run EXCEPT ![worker[w].run] = "FAILED" ]
      /\ UNCHANGED <<revoked, job, blogger, row, request, history>>
      /\ worker' \in [ Workers -> Worker ] /\ Alone(w)
      /\ worker'[w].phase = "returning" /\ worker'[w].run = worker[w].run
      /\ worker'[w].quiet = worker[w].quiet /\ worker'[w].seen = worker[w].seen
  BY Parts, GotoMoves DEF fail, Phases
<1>2. TypeOK'
  BY <1>1, Parts, Typed DEF TypeOK, history
<1>3. RunSet(w, "FAILED")
  BY <1>1, Parts DEF RunSet, OthersStay, Alone, Fits, At, history
<1>4. Scan'
  <2>1. Steps(w)
    BY <1>1 DEF Steps, Working, ScanFits, IInv, QuietSound, At
  <2> QED  BY <2>1, Parts, ScanSteps
<1> QED  BY <1>1, <1>2, <1>3, <1>4, Parts, QueueRun DEF IInv, Queue, Scan

\* Steps of a worker at work that only touch what it knows and the rows.
WorkStep(w) ==
  /\ Working(w)
  /\ worker' \in [ Workers -> Worker ] /\ Alone(w) /\ worker'[w].run = worker[w].run
  /\ worker'[w].phase \in { "listing", "importing", "reconciling", "completing", "failing" }
  /\ row' \in [ Posts -> { "NONE", "LIVE", "DELETED" } ]
  /\ UNCHANGED <<revoked, run, job, blogger, request, history>>

LEMMA WorkStepKeeps ==
  ASSUME IInv, NEW w \in Workers, WorkStep(w)
  PROVE  TypeOK' /\ Queue'
<1>1. TypeOK'
  BY Parts DEF WorkStep, TypeOK, history
<1>2. Onward(w)
  BY DEF WorkStep, Working, Onward, Fits
<1>3. \A v \in Workers : v # w => Onward(v)
  BY DEF WorkStep, Alone, Onward
<1>4. Moved
  BY <1>2, <1>3 DEF WorkStep, Moved, Onward, SameRequests, history
<1> QED  BY <1>1, <1>4, Parts, QueueMoved

LEMMA KeepsListPage ==
  ASSUME IInv, NEW w \in Workers, ListPage(w)
  PROVE  IInv'
<1>. PICK p : p = worker[w].page
  OBVIOUS
<1>. PICK n : n = p + 1
  OBVIOUS
<1>1. /\ worker[w] \in Worker /\ worker[w].phase = "listing" /\ p \in Posts /\ p \in Nat
      /\ n \in Nat
      /\ UNCHANGED <<revoked, run, job, blogger, row, request, history>>
  BY Parts, Typed DEF ListPage, At
<1>3. CASE blogger[p] = "listed"
  <2>. PICK seen : seen = worker[w].seen \cup {p}
    OBVIOUS
  <2>. PICK q : q = [ worker[w] EXCEPT !.phase = "importing", !.seen = seen ]
    OBVIOUS
  <2>0. worker' = [ worker EXCEPT ![w] = q ]
    <3>1. worker' = [ worker EXCEPT ![w].phase = "importing",
                                    ![w].seen = @ \cup {worker[w].page} ]
      BY <1>3 DEF ListPage, Listed
    <3> QED  BY <3>1, <1>1, Parts, Typed DEF Worker
  <2>1. /\ q \in Worker /\ q.phase = "importing" /\ q.run = worker[w].run /\ q.page = p
        /\ q.seen = worker[w].seen \cup {p} /\ q.gone = worker[w].gone
        /\ q.quiet = worker[w].quiet
    BY <1>1, <1>3 DEF Worker
  <2>2. worker' \in [ Workers -> Worker ] /\ Alone(w) /\ worker'[w] = q
    BY <2>0, <2>1, Parts, SetWorker
  <2>3. WorkStep(w)
    BY <1>1, <2>1, <2>2, Parts, Typed DEF WorkStep, Working
  <2>4. ScanFits(q, blogger)
    BY <1>1, <2>1 DEF IInv, ScanSound, ScanFits
  <2>5. worker[w].quiet => Knows(q, blogger, row)
    BY <1>1, <1>3, <2>1 DEF IInv, QuietSound, Knows
  <2>6. Steps(w)
    BY <1>1, <2>1, <2>2, <2>4, <2>5 DEF Steps, Working
  <2> QED  BY <2>3, <2>6, Parts, WorkStepKeeps, ScanSteps DEF IInv, Queue, Scan
<1>4. CASE blogger[p] # "listed"
  <2>. PICK q : q = [ worker[w] EXCEPT !.page = n ]
    OBVIOUS
  <2>0. worker' = [ worker EXCEPT ![w] = q ]
    BY <1>4, Parts, Typed DEF ListPage, Listed, Worker
  <2>1. /\ q \in Worker /\ q.phase = "listing" /\ q.run = worker[w].run /\ q.page = n
        /\ q.seen = worker[w].seen /\ q.gone = worker[w].gone
        /\ q.quiet = worker[w].quiet
    BY <1>1, <1>4 DEF Worker
  <2>2. worker' \in [ Workers -> Worker ] /\ Alone(w) /\ worker'[w] = q
    BY <2>0, <2>1, Parts, SetWorker
  <2>3. WorkStep(w)
    BY <1>1, <2>1, <2>2, Parts, Typed DEF WorkStep, Working
  <2>4. \A o \in Posts : o < n <=> o < p \/ o = p
    BY <1>1, SyncAssumption DEF Posts
  <2>5. ScanFits(q, blogger)
    <3>1. ScanFits(worker[w], blogger)
      BY DEF IInv, ScanSound
    <3>2. n > 0
      BY <1>1
    <3> QED  BY <1>1, <1>4, <2>1, <2>4, <3>1, <3>2 DEF ScanFits
  <2>6. worker[w].quiet => Knows(q, blogger, row)
    <3>1. worker[w].quiet => Knows(worker[w], blogger, row)
      BY DEF IInv, QuietSound
    <3>2. ~(p < p)
      BY <1>1
    <3> QED  BY <1>1, <1>4, <2>1, <2>4, <3>1, <3>2 DEF Knows
  <2>7. Steps(w)
    BY <1>1, <2>1, <2>2, <2>5, <2>6 DEF Steps, Working
  <2> QED  BY <2>3, <2>7, Parts, WorkStepKeeps, ScanSteps DEF IInv, Queue, Scan
<1> QED  BY <1>3, <1>4

LEMMA KeepsUpsert ==
  ASSUME IInv, NEW w \in Workers, upsertPost(w)
  PROVE  IInv'
<1>. PICK p : p = worker[w].page
  OBVIOUS
<1>. PICK n : n = p + 1
  OBVIOUS
<1>. PICK q : q = [ worker[w] EXCEPT !.phase = "listing", !.page = n ]
  OBVIOUS
<1>1. /\ worker[w] \in Worker /\ worker[w].phase = "importing" /\ p \in Nat /\ n \in Nat /\ n > 0
      /\ row' = [ row EXCEPT ![p] = "LIVE" ]
      /\ UNCHANGED <<revoked, run, job, blogger, request, history>>
  BY Parts, Typed DEF upsertPost, At
<1>2. ScanFits(worker[w], blogger) /\ (worker[w].quiet => Knows(worker[w], blogger, row))
  BY DEF IInv, ScanSound, QuietSound
<1>3. p \in Posts /\ p \in worker[w].seen
  BY <1>1, <1>2 DEF ScanFits
<1>4. /\ q \in Worker /\ q.phase = "listing" /\ q.run = worker[w].run /\ q.page = n
      /\ q.seen = worker[w].seen /\ q.gone = worker[w].gone
      /\ q.quiet = worker[w].quiet
  BY <1>1 DEF Worker
<1>5. worker' \in [ Workers -> Worker ] /\ Alone(w) /\ worker'[w] = q
  <2>1. worker' = [ worker EXCEPT ![w] = q ]
    BY Parts, Typed DEF upsertPost, Worker
  <2> QED  BY <1>4, <2>1, Parts, SetWorker
<1>6. /\ row' \in [ Posts -> { "NONE", "LIVE", "DELETED" } ]
      /\ row'[p] = "LIVE" /\ \A o \in Posts : o # p => row'[o] = row[o]
  BY <1>1, <1>3, Parts, Typed
<1>7. WorkStep(w)
  BY <1>1, <1>4, <1>5, <1>6 DEF WorkStep, Working
<1>8. \A o \in Posts : o < n <=> o < p \/ o = p
  BY <1>1, SyncAssumption DEF Posts
<1>9. ScanFits(q, blogger)
  BY <1>1, <1>2, <1>3, <1>4, <1>8 DEF ScanFits
<1>10. worker[w].quiet => Knows(q, blogger, row')
  BY <1>1, <1>2, <1>3, <1>4, <1>6, <1>8 DEF Knows
<1>11. Steps(w)
  BY <1>1, <1>4, <1>5, <1>9, <1>10 DEF Steps, Working
<1> QED  BY <1>7, <1>11, Parts, WorkStepKeeps, ScanSteps DEF IInv, Queue, Scan

\* A listing that is over has passed every post.
LEMMA ListedAll ==
  ASSUME NEW n \in Nat, n > 0, n \notin Posts
  PROVE  \A p \in Posts : p < n
BY SyncAssumption DEF Posts

LEMMA KeepsFindMissing ==
  ASSUME IInv, NEW w \in Workers, FindMissing(w)
  PROVE  IInv'
<1>. PICK missing : missing = { p \in Posts : row[p] # "NONE" } \ worker[w].seen
  OBVIOUS
<1>. PICK q : q = [ worker[w] EXCEPT !.phase = "reconciling", !.page = 0, !.seen = {},
                                     !.missing = missing ]
  OBVIOUS
<1>1. /\ worker[w] \in Worker /\ worker[w].phase = "listing"
      /\ worker[w].page \in Nat /\ worker[w].page \notin Posts
      /\ missing \in SUBSET Posts
      /\ UNCHANGED <<revoked, run, job, blogger, row, request, history>>
  BY Parts, Typed DEF FindMissing, At
<1>2. ScanFits(worker[w], blogger) /\ (worker[w].quiet => Knows(worker[w], blogger, row))
  BY DEF IInv, ScanSound, QuietSound
<1>3. \A p \in Posts : p < worker[w].page
  BY <1>1, <1>2, ListedAll DEF ScanFits
<1>4. /\ q \in Worker /\ q.phase = "reconciling" /\ q.run = worker[w].run
      /\ q.missing = missing /\ q.gone = worker[w].gone /\ q.quiet = worker[w].quiet
  BY <1>1 DEF Worker
<1>5. worker' \in [ Workers -> Worker ] /\ Alone(w) /\ worker'[w] = q
  <2>1. worker' = [ worker EXCEPT ![w] = q ]
    BY Parts, Typed DEF FindMissing, Worker
  <2> QED  BY <1>4, <2>1, Parts, SetWorker
<1>6. WorkStep(w)
  BY <1>1, <1>4, <1>5, Parts, Typed DEF WorkStep, Working
<1>7. ScanFits(q, blogger)
  BY <1>1, <1>2, <1>3, <1>4 DEF ScanFits
<1>8. worker[w].quiet => Knows(q, blogger, row)
  <2> SUFFICES ASSUME worker[w].quiet, NEW p \in Posts
               PROVE  /\ blogger[p] = "listed" => row[p] = "LIVE" /\ p \notin missing
                      /\ blogger[p] # "listed" => row[p] # "LIVE" \/ p \in missing
    BY <1>4 DEF Knows
  <2>1. (p \in worker[w].seen <=> blogger[p] = "listed") /\ (p \in worker[w].seen => row[p] = "LIVE")
    BY <1>1, <1>2, <1>3 DEF Knows
  <2> QED  BY <2>1
<1>9. Steps(w)
  BY <1>1, <1>4, <1>5, <1>7, <1>8 DEF Steps, Working
<1> QED  BY <1>6, <1>9, Parts, WorkStepKeeps, ScanSteps DEF IInv, Queue, Scan

LEMMA KeepsMarkMissing ==
  ASSUME IInv, NEW w \in Workers, MarkMissing(w)
  PROVE  IInv'
<1>. PICK q : q = [ worker[w] EXCEPT !.phase = "completing", !.missing = {}, !.gone = {} ]
  OBVIOUS
<1>1. /\ worker[w] \in Worker /\ worker[w].phase = "reconciling"
      /\ row' = [ p \in Posts |-> IF p \in worker[w].missing THEN "DELETED" ELSE row[p] ]
      /\ UNCHANGED <<revoked, run, job, blogger, request, history>>
  BY Parts, Typed DEF MarkMissing, At
<1>2. worker[w].quiet => Knows(worker[w], blogger, row)
  BY DEF IInv, QuietSound
<1>3. /\ q \in Worker /\ q.phase = "completing" /\ q.run = worker[w].run
      /\ q.quiet = worker[w].quiet
  BY <1>1 DEF Worker
<1>4. worker' \in [ Workers -> Worker ] /\ Alone(w) /\ worker'[w] = q
  <2>1. worker' = [ worker EXCEPT ![w] = q ]
    BY Parts, Typed DEF MarkMissing, Worker
  <2> QED  BY <1>3, <2>1, Parts, SetWorker
<1>5. row' \in [ Posts -> { "NONE", "LIVE", "DELETED" } ]
  BY <1>1, Parts, Typed
<1>6. WorkStep(w)
  BY <1>1, <1>3, <1>4, <1>5 DEF WorkStep, Working
<1>7. ScanFits(q, blogger)
  BY <1>3 DEF ScanFits
<1>8. worker[w].quiet => Knows(q, blogger, row')
  BY <1>1, <1>2, <1>3 DEF Knows
<1>9. Steps(w)
  BY <1>1, <1>3, <1>4, <1>7, <1>8 DEF Steps, Working
<1> QED  BY <1>6, <1>9, Parts, WorkStepKeeps, ScanSteps DEF IInv, Queue, Scan

\* Steps after which the worker is idle again.
LEMMA DroppedStep ==
  ASSUME IInv, NEW w \in Workers, Dropped(w),
         worker' \in [ Workers -> Worker ], Alone(w), worker'[w] = IdleWorker,
         abandoned' \subseteq Runs, revoked' = revoked, blogger' = blogger, row' = row
  PROVE  IInv'
<1>1. job' \in [ Runs -> Job ]
      /\ \A o \in Runs : job'[o].attempts <= MaxAttempts /\ job'[o].stalls <= MaxStalls
  <2>1. CASE job' = job
    BY <2>1, Parts DEF TypeOK
  <2>2. ASSUME NEW j, worker[w].phase # "idle", JobSet(worker[w].run, j)
        PROVE  job' \in [ Runs -> Job ]
               /\ \A o \in Runs : job'[o].attempts <= MaxAttempts /\ job'[o].stalls <= MaxStalls
    <3>1. worker[w].run \in Runs
      BY <2>2 DEF IInv, WorkersSound
    <3> QED  BY <2>2, <3>1, Parts, JobSetTyped
  <2> QED  BY <2>1, <2>2 DEF Dropped
<1>2. TypeOK'
  BY <1>1, Parts DEF TypeOK, Dropped
<1>3. Scan'
  BY NothingTyped, Parts, ScanOutside DEF Working
<1> QED  BY <1>2, <1>3, Parts, QueueDropped DEF IInv, Queue, Scan

LEMMA KeepsDie ==
  ASSUME IInv, NEW w \in Workers, Die(w)
  PROVE  IInv'
<1>1. /\ worker' \in [ Workers -> Worker ] /\ Alone(w) /\ worker'[w] = IdleWorker
      /\ UNCHANGED <<revoked, run, job, blogger, row, request, history>>
  BY Parts, IdleMoves DEF Die
<1>2. Dropped(w)
  BY <1>1, NothingTyped DEF Dropped, OthersStay, Alone, history
<1> QED  BY <1>1, <1>2, Parts, DroppedStep DEF history, TypeOK

LEMMA KeepsReturn ==
  ASSUME IInv, NEW w \in Workers, Return(w)
  PROVE  IInv'
<1>. PICK k : k = worker[w].run
  OBVIOUS
<1>1. /\ worker' \in [ Workers -> Worker ] /\ Alone(w) /\ worker'[w] = IdleWorker
      /\ UNCHANGED <<revoked, run, blogger, row, request, history>>
      /\ worker[w].phase = "returning" /\ k \in Runs
  BY Parts, IdleMoves DEF Return, At, IInv, WorkersSound
<1>2. \/ job' = job
      \/ Owns(w) /\ \E j : JobSet(k, j) /\ j.state = "done" /\ j.owner = NoWorker
  BY <1>1, Parts, ReturnedJob DEF Return
<1>3. lapses = 0 => ~InProgress(k)
  BY <1>1 DEF IInv, RunsFit, Fits, InProgress
<1>4. Dropped(w)
  BY <1>1, <1>2, <1>3, NothingTyped DEF Dropped, OthersStay, Alone, history
<1> QED  BY <1>1, <1>4, Parts, DroppedStep DEF history, TypeOK

\* An attempt that ends by an error, which BullMQ may hear of.
LEMMA KeepsThrow ==
  ASSUME IInv, NEW w \in Workers, worker[w].phase # "idle", Throw(w),
         \/ job[worker[w].run].attempts + 1 < MaxAttempts
         \/ ~InProgress(worker[w].run) \/ lapses # 0
         \/ ~Owns(w) \/ job'[worker[w].run].state # "dead" \/ worker[w].run \in abandoned',
         abandoned \subseteq abandoned', abandoned' \subseteq Runs,
         UNCHANGED <<revoked, run, blogger, row, request, lapses>>
  PROVE  IInv'
<1>. PICK k : k = worker[w].run
  OBVIOUS
<1>1. /\ worker' \in [ Workers -> Worker ] /\ Alone(w) /\ worker'[w] = IdleWorker
      /\ k \in Runs
      /\ \/ ~Owns(w) /\ job' = job
         \/ /\ Owns(w)
            /\ \E j : /\ JobSet(k, j) /\ j.owner = NoWorker /\ j.state \in { "waiting", "dead" }
                      /\ j.state = "waiting" <=> job[k].attempts + 1 < MaxAttempts
                      /\ j.state = "waiting" => j.attempts < MaxAttempts
  BY Parts, ThrowMoves DEF IInv
<1>2. Dropped(w)
  <2>1. /\ run' = run /\ request' = request /\ lapses' = lapses /\ abandoned \subseteq abandoned'
        /\ OthersStay(w) /\ worker'[w].phase = "idle" /\ worker'[w].run = NoRun
    BY <1>1, NothingTyped DEF OthersStay, Alone
  <2>2. CASE job' = job
    BY <2>1, <2>2 DEF Dropped
  <2>3. ASSUME Owns(w), NEW j, JobSet(k, j), j.owner = NoWorker, j.state \in { "waiting", "dead" },
               j.state = "waiting" <=> job[k].attempts + 1 < MaxAttempts,
               j.state = "waiting" => j.attempts < MaxAttempts
        PROVE  Dropped(w)
    <3>1. job'[k] = j
      BY <1>1, <2>3, Parts, JobSetTyped
    <3>2. j.state # "waiting" /\ lapses = 0 => ~InProgress(k) \/ k \in abandoned'
      BY <2>3, <3>1
    <3> QED  BY <2>1, <2>3, <3>2 DEF Dropped
  <2> QED  BY <1>1, <2>2, <2>3
<1> QED  BY <1>1, <1>2, DroppedStep

LEMMA KeepsMarkRunningFails ==
  ASSUME IInv, NEW w \in Workers, MarkRunningFails(w)
  PROVE  IInv'
<1>1. PICK o \in Runs \ { worker[w].run } : InProgress(o)
  BY DEF MarkRunningFails, IndexAllows
<1>2. worker[w].phase = "connected" /\ worker[w].run \in Runs
  BY DEF MarkRunningFails, At, IInv, WorkersSound
<1>3. ~InProgress(worker[w].run)
  BY <1>1, <1>2 DEF IInv, OneInProgress
<1> QED  BY <1>2, <1>3, KeepsThrow DEF MarkRunningFails, history, IInv, TypeOK

LEMMA KeepsDatabaseFails ==
  ASSUME IInv, NEW w \in Workers, DatabaseFails(w)
  PROVE  IInv'
<1>1. worker[w].phase # "idle" /\ worker[w].run \in Runs
  BY DEF DatabaseFails, IInv, WorkersSound
<1>2. abandoned \subseteq abandoned' /\ abandoned' \subseteq Runs
  BY <1>1 DEF DatabaseFails, IInv, TypeOK
<1>3. ~Owns(w) \/ job'[worker[w].run].state # "dead" \/ worker[w].run \in abandoned'
  BY DEF DatabaseFails
<1> QED  BY <1>1, <1>2, <1>3, KeepsThrow DEF DatabaseFails

LEMMA KeepsWorkFails ==
  ASSUME IInv, NEW w \in Workers, WorkFails(w)
  PROVE  IInv'
<1>1. Working(w) /\ UNCHANGED <<revoked, run, blogger, row, request, history>>
  BY DEF WorkFails
<1>2. CASE job[worker[w].run].attempts + 1 < MaxAttempts /\ Throw(w)
  BY <1>1, <1>2, KeepsThrow DEF Working, history, IInv, TypeOK
<1>3. CASE Leave(w, "failing") /\ UNCHANGED job
  <2>1. /\ worker' \in [ Workers -> Worker ] /\ Alone(w)
        /\ worker'[w].phase = "failing" /\ worker'[w].run = worker[w].run
        /\ ~worker'[w].quiet /\ worker'[w].seen = {}
    BY <1>3, Parts, LeaveMoves DEF Phases
  <2>2. WorkStep(w)
    BY <1>1, <1>3, <2>1, Parts, Typed DEF WorkStep
  <2> QED  BY <1>1, <2>1, <2>2, Parts, WorkStepKeeps, ScanOutside DEF IInv, Queue, Scan, Working
<1> QED  BY <1>2, <1>3 DEF WorkFails

LEMMA KeepsTake ==
  ASSUME IInv, NEW w \in Workers, Take(w)
  PROVE  IInv'
<1>1. /\ Queue' /\ TypeOK' /\ Alone(w) /\ worker'[w].phase = "taken"
      /\ worker'[w].seen = {} /\ ~worker'[w].quiet
  BY Parts, QueueTaken
<1> QED  BY <1>1, Parts, ScanOutside DEF Take, Working, IInv, Queue, Scan

LEMMA KeepsWorker ==
  ASSUME IInv, NEW w \in Workers, WorkerStep(w)
  PROVE  IInv'
<1>1. CASE process(w)
  BY <1>1, KeepsFind, KeepsMarkRunning, KeepsMarkRunningFails, KeepsListPage, KeepsUpsert,
     KeepsFindMissing, KeepsMarkMissing, KeepsComplete, KeepsWorkFails, KeepsFail, KeepsReturn
     DEF process
<1> QED  BY <1>1, KeepsTake, KeepsDatabaseFails, KeepsDie DEF WorkerStep

-----------------------------------------------------------------------------
(* The invariant is inductive *)

LEMMA InitInvariant ==
  ASSUME Init
  PROVE  IInv
<1>. PICK j : j = [ state |-> "none", attempts |-> 0, stalls |-> 0, owner |-> NoWorker ]
  OBVIOUS
<1>1. /\ j \in Job /\ j.state = "none" /\ j.attempts = 0 /\ j.stalls = 0 /\ j.owner = NoWorker
      /\ \A k \in Runs : job[k] = j
      /\ \A k \in Runs : run[k] = "NONE"
      /\ \A r \in Requests : request[r] = NoRequest
      /\ \A w \in Workers : worker[w] = IdleWorker
  BY DEF Init, Job
<1>2. TypeOK
  <2>1. job \in [ Runs -> Job ]
    BY <1>1 DEF Init
  <2>2. lapses \in 0 .. MaxLapses /\ 0 <= MaxAttempts /\ 0 <= MaxStalls
    BY SyncAssumption DEF Init
  <2>3. /\ row \in [ Posts -> { "NONE", "LIVE", "DELETED" } ]
        /\ blogger \in [ Posts -> PostStates ]
    BY DEF Init, PostStates
  <2>4. /\ request \in [ Requests -> Request ] /\ worker \in [ Workers -> Worker ]
        /\ run \in [ Runs -> { "NONE", "PENDING", "RUNNING", "COMPLETED", "FAILED" } ]
    BY NothingTyped DEF Init
  <2> QED  BY <1>1, <2>1, <2>2, <2>3, <2>4 DEF TypeOK, Init
<1>3. WorkersSound /\ RequestsSound /\ JobsOwned /\ RunsFit
  BY <1>1, NothingTyped DEF WorkersSound, RequestsSound, JobsOwned, RunsFit
<1>4. OneInProgress /\ JobsSound /\ ProgressHasJob
  BY <1>1, SyncAssumption DEF OneInProgress, InProgress, JobsSound, ProgressHasJob
<1>5. ScanSound /\ QuietSound
  BY <1>1, NothingTyped DEF ScanSound, ScanFits, QuietSound
<1> QED  BY <1>2, <1>3, <1>4, <1>5 DEF IInv

LEMMA StutterKeeps ==
  ASSUME IInv, UNCHANGED vars
  PROVE  IInv'
<1>1. SameRequests /\ request' \in [ Requests -> Request ] /\ revoked' \in BOOLEAN
  BY Parts DEF vars, SameRequests, TypeOK
<1> QED  BY <1>1, QuietStep DEF vars

LEMMA NextInvariant ==
  ASSUME IInv, [Next]_vars
  PROVE  IInv'
BY StutterKeeps, NextSteps, KeepsRequest, KeepsWorker, KeepsStall, KeepsBlogger, KeepsDisconnect

-----------------------------------------------------------------------------
(* Theorems *)

\* The inductive invariant holds in every reachable state.
THEOREM Invariance == Spec => []IInv
BY InitInvariant, NextInvariant, PTL DEF Spec

\* Every variable keeps its type.
THEOREM TypeCorrect == Spec => []TypeOK
<1>1. IInv => TypeOK
  BY DEF IInv
<1> QED  BY <1>1, Invariance, PTL

\* Two workers never synchronize the connection at the same time, unless BullMQ handed out
\* the job of a living worker: who is at work owns the job of a run that is RUNNING, the
\* index leaves one such run, and a job has one owner.
THEOREM OneSync == Spec => []OneSyncAtATime
<1>1. IInv => OneSyncAtATime
  <2> SUFFICES ASSUME IInv, lapses = 0, NEW v \in Workers, NEW w \in Workers,
                      Working(v), Working(w)
               PROVE  v = w
    BY DEF OneSyncAtATime
  <2>1. /\ worker[v].phase # "idle" /\ worker[v].run \in Runs /\ InProgress(worker[v].run)
        /\ worker[w].phase # "idle" /\ worker[w].run \in Runs /\ InProgress(worker[w].run)
    BY DEF IInv, Working, WorkersSound, RunsFit, Fits, InProgress
  <2>2. worker[v].run = worker[w].run
    BY <2>1 DEF IInv, OneInProgress
  <2> QED  BY <2>1, <2>2, NobodyElse, Parts
<1> QED  BY <1>1, Invariance, PTL

\* A run in progress has a job or a request about to give it one, unless a failure took
\* its job away.
THEOREM ProgressJob == Spec => []ProgressHasJob
<1>1. IInv => ProgressHasJob
  BY DEF IInv
<1> QED  BY <1>1, Invariance, PTL

\* A completed run stays completed: the worker that would start or fail it again has found
\* it not COMPLETED, and nobody else has completed it since.
THEOREM CompletedStays == Spec => CompletedIsFinal
<1>1. ASSUME IInv, [Next]_vars PROVE [CompletedForGood]_vars
  <2> SUFFICES ASSUME NEW k \in Runs, run[k] = "COMPLETED", run'[k] # "COMPLETED"
               PROVE  lapses > 0
    BY DEF CompletedForGood
  <2>1. run' # run
    OBVIOUS
  <2>2. CASE \E r \in Requests : CreateRun(r)
    BY <1>1, <2>2, Typed, Parts DEF CreateRun
  <2>3. ASSUME NEW w \in Workers, MarkRunning(w) \/ Complete(w) \/ fail(w)
        PROVE  lapses > 0
    <3>1. /\ worker[w].run \in Runs /\ worker[w].phase # "idle"
          /\ worker[w].run = k
          /\ worker[w].phase \in { "connected", "failing" }
      BY <1>1, <2>3, Typed, Parts DEF MarkRunning, Complete, fail, At, IInv, WorkersSound
    <3>2. ~Fits(worker[w].phase, run[worker[w].run])
      BY <3>1 DEF Fits
    <3> QED  BY <1>1, <3>1, <3>2, Typed, Parts DEF IInv, RunsFit
  <2>4. \/ \E r \in Requests : CreateRun(r)
        \/ \E w \in Workers : MarkRunning(w) \/ Complete(w) \/ fail(w)
    BY <1>1, <2>1
       DEF Next, vars, Enqueue, FindActive, enqueueBloggerSync, RequestFails, snapshot, createDraft,
           Take, process, FindRun, FindConnection, MarkRunningFails, ListPage, upsertPost,
           FindMissing, MarkMissing, WorkFails, Return, DatabaseFails, Die, Stall,
           PublishOnBlogger, DeleteOnBlogger, ScheduleOnBlogger, ReleaseOnBlogger, disconnect
  <2> QED  BY <2>2, <2>3, <2>4
<1> QED  BY <1>1, Invariance, PTL DEF Spec, CompletedIsFinal

\* A post is marked as deleted only by a worker since whose listing Blogger once did not
\* list it: what the worker did not see on a page it passed, was absent or scheduled.
THEOREM DeletionsWereUnlisted == Spec => DeletedWasUnlisted
<1>1. ASSUME IInv, [Next]_vars PROVE [MarksUnlistedPosts]_vars
  <2> SUFFICES ASSUME NEW p \in Posts, row[p] # "DELETED", row'[p] = "DELETED"
               PROVE  \E w \in Workers : At(w, "reconciling") /\ p \in worker[w].gone
    BY DEF MarksUnlistedPosts
  <2>1. row' # row
    OBVIOUS
  <2>2. ASSUME NEW w \in Workers, MarkMissing(w)
        PROVE  At(w, "reconciling") /\ p \in worker[w].gone
    <3>1. At(w, "reconciling") /\ p \in worker[w].missing
      BY <1>1, <2>2, Typed, Parts DEF MarkMissing
    <3> QED  BY <1>1, <3>1 DEF At, IInv, ScanSound, ScanFits
  <2>3. ASSUME NEW w \in Workers PROVE ~upsertPost(w)
    BY <1>1, Typed, Parts DEF upsertPost
  <2>4. ASSUME NEW r \in Requests PROVE ~snapshot(r)
    BY <1>1, Typed, Parts DEF snapshot
  <2>5. \E w \in Workers : MarkMissing(w)
    BY <1>1, <2>1, <2>3, <2>4
       DEF Next, vars, Enqueue, FindActive, CreateRun, enqueueBloggerSync, RequestFails, createDraft,
           Take, process, FindRun, FindConnection, MarkRunning, MarkRunningFails, ListPage,
           FindMissing, Complete, WorkFails, fail, Return, DatabaseFails, Die, Stall,
           PublishOnBlogger, DeleteOnBlogger, ScheduleOnBlogger, ReleaseOnBlogger, disconnect
  <2> QED  BY <2>2, <2>5
<1> QED  BY <1>1, Invariance, PTL DEF Spec, DeletedWasUnlisted

\* A run that completes undisturbed leaves the snapshot equal to what Blogger lists, a
\* scheduled post counting as deleted, whatever rows failed runs and attempts left before.
THEOREM SnapshotsAreExact == Spec => SnapshotIsExact
<1>1. ASSUME IInv PROVE CompletesWithSnapshot
  BY <1>1 DEF CompletesWithSnapshot, IInv, QuietSound, Knows, At, Listed
<1>2. ASSUME IInv, [Next]_vars PROVE [CompletesWithSnapshot]_vars
  BY <1>1, <1>2
<1> QED  BY <1>2, Invariance, PTL DEF Spec, SnapshotIsExact
=============================================================================
