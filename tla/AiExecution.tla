------------------------------ MODULE AiExecution ------------------------------
(***************************************************************************)
(* AI configurations and runs (AiService, executeAiRequest) and the        *)
(* candidates that ArticleGenerationService has generated, over the        *)
(* website and the profiles of Sites, which change meanwhile.              *)
(*                                                                         *)
(* One action is one await of a handler that reads or writes what others   *)
(* write; other requests, the turn of the month, failures of the provider  *)
(* and of the database, and the end of the process happen in between.      *)
(*                                                                         *)
(* Abstractions: the checks at the start of a handler are one step; the    *)
(* settings of a configuration are its version; every answer costs the     *)
(* same; what becomes of a candidate that is ready, and the content it is  *)
(* for, are in Editorial; refused requests, audit and prices are left out. *)
(***************************************************************************)
EXTENDS Sites, FiniteSets, FiniteSetsExt

CONSTANTS
  Requests,     \* generations, probes and updates of a configuration in flight
  Keys,         \* idempotency keys of generations
  Probes,       \* the random keys of tests of a configuration
  Scopes,       \* the scopes that get a configuration: see AllScopes
  NoKey,
  SYSTEM,       \* the scope of the built-in configuration
  MonthlyLimit, \* monthlyTokenLimit of every configuration
  Tokens,       \* what an answer costs
  MaxRetries,   \* retries of a provider call
  Failures,     \* what the environment may do: see FailureKinds
  MaxWrites,    \* bound: how often a configuration is written
  MaxSiteSteps, \* bound: steps of Sites
  MaxMonth      \* bound: the last month

FailureKinds ==
  { "prompt",     \* the prompt cannot be rendered, as when the topic is blank
    "rotate",     \* a stored credential cannot be decrypted any more
    "provider",   \* a call fails, or its answer is malformed
    "database",   \* an outcome cannot be written
    "crash" }     \* the API process dies

AllScopes == { "WORKSPACE", "WEBSITE" } \cup Profiles

ASSUME AiAssumption ==
  /\ Scopes \subseteq AllScopes
  /\ SYSTEM \notin AllScopes
  /\ Keys \cap Probes = {}
  /\ NoKey \notin Keys \cup Probes
  /\ Requests # {} /\ IsFiniteSet(Requests) /\ IsFiniteSet(Keys) /\ IsFiniteSet(Probes)
  /\ MonthlyLimit \in Nat /\ Tokens \in Nat \ {0} /\ MaxRetries \in Nat
  /\ Failures \subseteq FailureKinds
  /\ MaxWrites \in Nat /\ MaxSiteSteps \in Nat /\ MaxMonth \in Nat

VARIABLES
  configuration,  \* the ai_configurations rows; version 0 before there is one
  run,            \* the ai_runs rows, by key
  candidate,      \* the ai_generation_candidates rows, by key
  request,        \* what each handler in flight holds
  month,
  siteSteps,      \* how many steps Sites has made
  abandoned       \* history: the keys whose handler could not record the outcome

aiVars == <<configuration, run, candidate, request, month, abandoned>>
outside == <<siteVars, siteSteps>>
vars == <<outside, aiVars>>

RunKeys == Keys \cup Probes

Configuration == [ version : Nat, enabled : BOOLEAN, credential : Nat ]
Run ==
  [ status : { "NONE", "RUNNING", "COMPLETED", "FAILED" },
    scope : AllScopes \cup {SYSTEM}, month : Nat ]
CandidateStatus == { "NONE", "PENDING", "READY", "FAILED" }
Changes == { "keep", "replace", "remove" }

Request ==
  [ op : { "none", "generate", "test", "upsert" },
    phase : { "idle", "prompt", "resolved", "loaded", "allowed", "calling",
              "answered", "completed", "failed", "unfinished", "write" },
    key : RunKeys \cup {NoKey}, profile : Profiles \cup {NoProfile},
    scope : AllScopes \cup {SYSTEM}, change : Changes,
    version : Nat, credential : Nat,      \* of the configuration it has read
    retries : Nat ]

NoRequest ==
  [ op |-> "none", phase |-> "idle", key |-> NoKey, profile |-> NoProfile,
    scope |-> SYSTEM, change |-> "keep", version |-> 0, credential |-> 0, retries |-> 0 ]

TypeOK ==
  /\ SitesTypeOK
  /\ configuration \in [ AllScopes -> Configuration ]
  /\ run \in [ RunKeys -> Run ]
  /\ candidate \in [ Keys -> CandidateStatus ]
  /\ request \in [ Requests -> Request ]
  /\ month \in Nat
  /\ siteSteps \in Nat
  /\ abandoned \subseteq RunKeys

Init ==
  /\ SitesInit
  /\ configuration =
       [ s \in AllScopes |-> [ version |-> 0, enabled |-> FALSE, credential |-> 0 ] ]
  /\ run = [ k \in RunKeys |-> [ status |-> "NONE", scope |-> SYSTEM, month |-> 0 ] ]
  /\ candidate = [ k \in Keys |-> "NONE" ]
  /\ request = [ r \in Requests |-> NoRequest ]
  /\ month = 1
  /\ siteSteps = 0
  /\ abandoned = {}

At(r, phase) == request[r].phase = phase
Set(r, held) == request' = [ request EXCEPT ![r] = held ]
Goto(r, phase) == Set(r, [ request[r] EXCEPT !.phase = phase ])
Finish(r) == Set(r, NoRequest)

\* How executeBusinessOperation ends for its caller, with an error: the generation still
\* has a candidate to fail, a test is over.
Unfinished(k) == [ NoRequest EXCEPT !.op = "generate", !.phase = "unfinished", !.key = k ]

Throw(r) ==
  IF request[r].op = "generate" THEN Set(r, Unfinished(request[r].key)) ELSE Finish(r)

onlyRequest == UNCHANGED <<outside, configuration, run, candidate, month, abandoned>>

-----------------------------------------------------------------------------
(* upsertConfiguration *)

\* validateScope: what the configuration is for exists.
ScopeFound(s) ==
  s # "WORKSPACE" => requireWebsite /\ (s \in Profiles => Exists(s))

BeginUpsert(r, s, change) ==
  /\ request[r] = NoRequest
  /\ ScopeFound(s)
  /\ MapThenSumSet(LAMBDA scope : configuration[scope].version, Scopes) < MaxWrites
  /\ Set(r, [ NoRequest EXCEPT !.op = "upsert", !.phase = "write", !.scope = s,
                               !.change = change, !.version = configuration[s].version,
                               !.credential = configuration[s].credential ])
  /\ onlyRequest

\* Faulty variant: a credential that is not sent is taken for removed.
CredentialSent(held) ==
  IF held.change = "replace" THEN configuration[held.scope].version + 1 ELSE 0

\* A credential is named by the version it came with; one that is kept is the one read.
CredentialAfter(held) ==
  CASE held.change = "replace" -> configuration[held.scope].version + 1
    [] held.change = "remove" -> 0
    [] OTHER -> held.credential

WriteConfiguration(r, enabled) ==
  LET s == request[r].scope IN
  /\ At(r, "write")
  /\ configuration' =
       [ configuration EXCEPT ![s] = [ version |-> @.version + 1, enabled |-> enabled,
                                       credential |-> CredentialAfter(request[r]) ] ]
  /\ Finish(r)
  /\ UNCHANGED <<outside, run, candidate, month, abandoned>>

-----------------------------------------------------------------------------
(* generate, up to its run *)

\* The candidate is inserted for an active profile of a website that is there.  A key that
\* has one is answered with it: Editorial has the race of two requests for a key.
InsertCandidate(r, k, p) ==
  /\ request[r] = NoRequest
  /\ requireWebsite
  /\ profile[p].status = "ACTIVE"
  /\ candidate[k] = "NONE"
  /\ candidate' = [ candidate EXCEPT ![k] = "PENDING" ]
  /\ Set(r, [ NoRequest EXCEPT !.op = "generate", !.phase = "prompt", !.key = k, !.profile = p ])
  /\ UNCHANGED <<outside, configuration, run, month, abandoned>>

\* Rendering comes after the insert and before the try block.
RenderFails(r) ==
  /\ "prompt" \in Failures
  /\ At(r, "prompt")
  /\ abandoned' = abandoned \cup { request[r].key }
  /\ Finish(r)
  /\ UNCHANGED <<outside, configuration, run, candidate, month>>

\* The enabled configuration of the profile, else of the website, else of the workspace.
Resolved(p) ==
  LET enabled == { s \in AllScopes : configuration[s].enabled } IN
  CASE p \in enabled -> p
    [] p \notin enabled /\ "WEBSITE" \in enabled -> "WEBSITE"
    [] enabled \cap { p, "WEBSITE" } = {} /\ "WORKSPACE" \in enabled -> "WORKSPACE"
    [] OTHER -> SYSTEM

\* The website may be gone by now; the built-in configuration has no limit.
resolve(r) ==
  /\ At(r, "prompt")
  /\ IF requireWebsite
     THEN LET s == Resolved(request[r].profile) IN
          Set(r, [ request[r] EXCEPT !.profile = NoProfile, !.scope = s,
                                     !.phase = IF s = SYSTEM THEN "allowed" ELSE "resolved" ])
     ELSE Set(r, Unfinished(request[r].key))
  /\ onlyRequest

\* The row is read again, whether it is still enabled or not.
findConfiguration(r) ==
  /\ At(r, "resolved")
  /\ Set(r, [ request[r] EXCEPT !.phase = "loaded",
                                !.credential = configuration[request[r].scope].credential ])
  /\ onlyRequest

\* testConfiguration begins with the configuration it is asked for.
BeginTest(r, k, s) ==
  /\ request[r] = NoRequest
  /\ configuration[s].enabled
  /\ run[k].status = "NONE" /\ \A other \in Requests : request[other].key # k
  /\ Set(r, [ NoRequest EXCEPT !.op = "test", !.phase = "loaded", !.key = k, !.scope = s,
                               !.credential = configuration[s].credential ])
  /\ onlyRequest

\* The tokens of the runs that started in a month and completed.
Usage(s, m) ==
  Tokens * Cardinality({ k \in RunKeys :
             run[k].status = "COMPLETED" /\ run[k].scope = s /\ run[k].month = m })

\* Faulty variant: the limit is taken for the last value that still allows a run.
LimitExceeded(s) == Usage(s, month) > MonthlyLimit

LimitReached(s) == Usage(s, month) >= MonthlyLimit

enforceMonthlyLimit(r) ==
  /\ At(r, "loaded")
  /\ IF LimitReached(request[r].scope) THEN Throw(r) ELSE Goto(r, "allowed")
  /\ onlyRequest

CredentialUnavailable(r) ==
  /\ "rotate" \in Failures
  /\ At(r, "allowed")
  /\ request[r].credential # 0
  /\ Throw(r)
  /\ onlyRequest

-----------------------------------------------------------------------------
(* The run *)

CreateRun(r) ==
  /\ At(r, "allowed")
  /\ run' = [ run EXCEPT ![request[r].key] =
                [ status |-> "RUNNING", scope |-> request[r].scope, month |-> month ] ]
  /\ Set(r, [ request[r] EXCEPT !.phase = "calling", !.scope = SYSTEM, !.credential = 0 ])
  /\ UNCHANGED <<outside, configuration, candidate, month, abandoned>>

EndCalls(r, phase) == Set(r, [ request[r] EXCEPT !.phase = phase, !.retries = 0 ])

\* The provider answers; an answer that does not validate is a failure.
Answer(r, valid) ==
  /\ valid \/ "provider" \in Failures
  /\ At(r, "calling")
  /\ EndCalls(r, IF valid THEN "answered" ELSE "failed")
  /\ onlyRequest

RetriesSpent(r) == request[r].retries >= MaxRetries

CallFails(r, retryable) ==
  /\ "provider" \in Failures
  /\ At(r, "calling")
  /\ IF retryable /\ ~ RetriesSpent(r)
     THEN Set(r, [ request[r] EXCEPT !.retries = @ + 1 ])
     ELSE EndCalls(r, "failed")
  /\ onlyRequest

EndRun(r, status) == run' = [ run EXCEPT ![request[r].key].status = status ]

CompleteRun(r) ==
  /\ At(r, "answered")
  /\ EndRun(r, "COMPLETED")
  /\ IF request[r].op = "generate" THEN Goto(r, "completed") ELSE Finish(r)
  /\ UNCHANGED <<outside, configuration, candidate, month, abandoned>>

\* Faulty variant: the error is thrown without being recorded.
ThrowOnly(r) ==
  /\ At(r, "failed")
  /\ Throw(r)
  /\ onlyRequest

\* Faulty variant: the error is recorded and not thrown.
RecordOnly(r) ==
  /\ At(r, "failed")
  /\ EndRun(r, "FAILED")
  /\ IF request[r].op = "generate" THEN Goto(r, "completed") ELSE Finish(r)
  /\ UNCHANGED <<outside, configuration, candidate, month, abandoned>>

FailRun(r) ==
  /\ At(r, "failed")
  /\ EndRun(r, "FAILED")
  /\ Throw(r)
  /\ UNCHANGED <<outside, configuration, candidate, month, abandoned>>

ReadyCandidate(r) ==
  /\ At(r, "completed")
  /\ candidate' = [ candidate EXCEPT ![request[r].key] = "READY" ]
  /\ Finish(r)
  /\ UNCHANGED <<outside, configuration, run, month, abandoned>>

FailCandidate(r) ==
  /\ At(r, "unfinished")
  /\ candidate' = [ candidate EXCEPT ![request[r].key] = "FAILED" ]
  /\ Finish(r)
  /\ UNCHANGED <<outside, configuration, run, month, abandoned>>

\* A run that cannot be created ends the request; an outcome that cannot be written is
\* caught and becomes a failure; a failure that cannot be written leaves its row as it is.
DatabaseFails(r) ==
  /\ "database" \in Failures
  /\ \/ At(r, "answered") /\ Goto(r, "failed") /\ UNCHANGED abandoned
     \/ (At(r, "allowed") \/ At(r, "completed")) /\ Throw(r) /\ UNCHANGED abandoned
     \/ /\ At(r, "failed") \/ At(r, "unfinished")
        /\ IF At(r, "failed") THEN Throw(r) ELSE Finish(r)
        /\ abandoned' = abandoned \cup { request[r].key }
  /\ UNCHANGED <<outside, configuration, run, candidate, month>>

-----------------------------------------------------------------------------
(* Around the handlers *)

InProgress(k) == run[k].status = "RUNNING" \/ (k \in Keys /\ candidate[k] = "PENDING")

SiteStep ==
  /\ siteSteps < MaxSiteSteps
  /\ siteSteps' = siteSteps + 1
  /\ SitesNext
  /\ UNCHANGED aiVars

NextMonth ==
  /\ month < MaxMonth
  /\ month' = month + 1
  /\ UNCHANGED <<outside, configuration, run, candidate, request, abandoned>>

\* A handler that dies leaves what it had written.
Crash ==
  /\ "crash" \in Failures
  /\ abandoned' = abandoned \cup { k \in RunKeys : InProgress(k) }
  /\ request' = [ r \in Requests |-> NoRequest ]
  /\ siteRequest' = [ r \in SiteRequests |-> NoSiteRequest ]
  /\ UNCHANGED <<website, profile, siteSteps, configuration, run, candidate, month>>

Next ==
  \/ SiteStep
  \/ \E r \in Requests :
       \/ \E s \in Scopes, change \in Changes : BeginUpsert(r, s, change)
       \/ \E enabled \in BOOLEAN : WriteConfiguration(r, enabled)
       \/ \E k \in Keys, p \in Profiles : InsertCandidate(r, k, p)
       \/ RenderFails(r)
       \/ resolve(r) \/ findConfiguration(r)
       \/ \E k \in Probes, s \in Scopes : BeginTest(r, k, s)
       \/ enforceMonthlyLimit(r) \/ CredentialUnavailable(r) \/ CreateRun(r)
       \/ \E valid \in BOOLEAN : Answer(r, valid)
       \/ \E retryable \in BOOLEAN : CallFails(r, retryable)
       \/ CompleteRun(r) \/ FailRun(r)
       \/ ReadyCandidate(r) \/ FailCandidate(r)
       \/ DatabaseFails(r)
  \/ NextMonth
  \/ Crash

Spec == Init /\ [][Next]_vars

-----------------------------------------------------------------------------
(* Properties *)

\* The limit is checked before the run is recorded, so that runs in flight at the same time
\* exceed it, yet by no more than one run each: the tokens of a month never reach the limit
\* and what every request in flight can add to it.
UsageBounded ==
  \A s \in Scopes, m \in 1 .. month :
    Usage(s, m) < MonthlyLimit + Tokens * Cardinality(Requests)

Held(k, phases) == \E r \in Requests : request[r].key = k /\ request[r].phase \in phases

\* A run that is RUNNING, or a candidate that is PENDING, is in the hands of a handler, or
\* its handler died, could not render the prompt or could not write: then its key is used
\* up for ever, and nothing else uses one up.
InProgressHasOwner ==
  \A k \in RunKeys \ abandoned :
    /\ run[k].status = "RUNNING" => Held(k, { "calling", "answered", "failed" })
    /\ k \in Keys /\ candidate[k] = "PENDING" =>
         Held(k, { "prompt", "resolved", "loaded", "allowed", "calling", "answered",
                   "completed", "failed", "unfinished" })

\* What the candidate says agrees with its run: READY means completed, and FAILED that the
\* run has ended or never began, if its end could be written.
OutcomesAgree ==
  \A k \in Keys :
    /\ candidate[k] = "READY" => run[k].status = "COMPLETED"
    /\ candidate[k] = "FAILED" /\ k \notin abandoned => run[k].status # "RUNNING"

\* A write that does not mention the credential keeps it, unless another write came between
\* its reading and its writing: then it brings back the credential it had read.
CredentialKept ==
  [][ \A s \in Scopes : configuration'[s].credential # configuration[s].credential =>
        \E r \in Requests :
          /\ request[r].op = "upsert" /\ request[r].scope = s /\ request'[r] = NoRequest
          /\ \/ request[r].change # "keep"
             \/ request[r].version # configuration[s].version ]_vars
=============================================================================
