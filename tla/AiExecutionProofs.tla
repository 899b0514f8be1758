--------------------------- MODULE AiExecutionProofs ---------------------------
(***************************************************************************)
(* What holds of Sites for every set of profiles and requests: types, at   *)
(* most one default profile, and the only way to an inactive default.      *)
(*                                                                         *)
(* What holds of AiExecution, which resolves the profiles of Sites, for    *)
(* every number of requests, keys, tests and profiles, and every limit and *)
(* price: types, how far the monthly limit can be exceeded, who owns what  *)
(* is in progress, that a candidate agrees with its run, and what a write  *)
(* may do to a credential.                                                 *)
(***************************************************************************)
EXTENDS AiExecution, FiniteSetTheorems, TLAPS

-----------------------------------------------------------------------------
(* Websites and profiles: types and the default *)

SitesInv == SitesTypeOK /\ OneDefault

LEMMA IdleSiteRequest == NoSiteRequest \in SiteRequest
BY DEF NoSiteRequest, SiteRequest

\* The end of a request leaves the types of the requests alone.
LEMMA EndedRequestsTyped ==
  ASSUME SitesTypeOK, NEW r \in SiteRequests, EndSiteRequest(r)
  PROVE  /\ siteRequest' \in [ SiteRequests -> SiteRequest ]
         /\ \A s \in SiteRequests :
              siteRequest'[s].op \in { "create", "setDefault" } =>
                siteRequest'[s].profile \in Profiles
         /\ siteRequest'[r] = NoSiteRequest
BY IdleSiteRequest DEF SitesTypeOK, EndSiteRequest, NoSiteRequest

LEMMA BegunRequestsTyped ==
  ASSUME SitesInv, NEW r \in SiteRequests,
         NEW op \in { "update", "create", "setDefault" }, NEW p \in Profiles \cup {NoProfile},
         op # "update" => p \in Profiles,
         Begin(r, op, p)
  PROVE  SitesInv'
<1> DEFINE q == [ op |-> op, profile |-> p ]
<1>1. q \in SiteRequest
  BY DEF SiteRequest
<1>2. siteRequest' = [ siteRequest EXCEPT ![r] = q ]
  BY DEF Begin
<1> HIDE DEF q
<1>3. siteRequest' \in [ SiteRequests -> SiteRequest ]
  BY <1>1, <1>2 DEF SitesInv, SitesTypeOK
<1>4. q.op = op /\ q.profile = p
  BY DEF q
<1>5. \A s \in SiteRequests :
        siteRequest'[s].op \in { "create", "setDefault" } => siteRequest'[s].profile \in Profiles
  BY <1>2, <1>4 DEF SitesInv, SitesTypeOK
<1>6. QED
  BY <1>3, <1>5 DEF SitesInv, SitesTypeOK, OneDefault, Begin

\* What the clearing of the default leaves.
LEMMA NoDefaultLeft ==
  ASSUME SitesTypeOK
  PROVE  /\ WithoutDefault \in [ Profiles -> ContentProfile ]
         /\ \A p \in Profiles : /\ ~ WithoutDefault[p].isDefault
                                /\ WithoutDefault[p].status = profile[p].status
BY DEF SitesTypeOK, WithoutDefault, ContentProfile

LEMMA SitesInitInv == SitesInit => SitesInv
<1> SUFFICES ASSUME SitesInit PROVE SitesInv
  OBVIOUS
<1>1. ASSUME NEW seeded, seed(seeded), \A p, q \in seeded : p = q
      PROVE  website \in Website /\ profile \in [ Profiles -> ContentProfile ] /\ OneDefault
  <2>1. website \in Website
    BY <1>1 DEF seed, Website, WebsiteStatus
  <2>2. profile \in [ Profiles -> ContentProfile ]
    BY <1>1 DEF seed, ContentProfile, ContentProfileStatus
  <2>3. OneDefault
    BY <1>1 DEF seed, OneDefault
  <2>4. QED
    BY <2>1, <2>2, <2>3
<1>2. ASSUME seed({})
      PROVE  website \in Website /\ profile \in [ Profiles -> ContentProfile ] /\ OneDefault
  BY <1>1, <1>2
<1>3. ASSUME NEW p \in Profiles, seed({ p })
      PROVE  website \in Website /\ profile \in [ Profiles -> ContentProfile ] /\ OneDefault
  BY <1>1, <1>3
<1>4. website \in Website /\ profile \in [ Profiles -> ContentProfile ] /\ OneDefault
  BY <1>2, <1>3 DEF SitesInit
<1>5. QED
  BY <1>4, IdleSiteRequest
  DEF SitesInv, SitesTypeOK, SitesInit, NoSiteRequest

\* A step that writes only the row of the website.
LEMMA WebsiteStep ==
  ASSUME SitesInv, website' \in Website, UNCHANGED profile,
         siteRequest' \in [ SiteRequests -> SiteRequest ],
         \A s \in SiteRequests :
           siteRequest'[s].op \in { "create", "setDefault" } => siteRequest'[s].profile \in Profiles
  PROVE  SitesInv'
BY DEF SitesInv, SitesTypeOK, OneDefault

\* A step that writes one profile, on top of the rows as they are or of the rows without a
\* default.
LEMMA ProfileStep ==
  ASSUME SitesInv, NEW p \in Profiles, NEW row \in ContentProfile, UNCHANGED website,
         siteRequest' \in [ SiteRequests -> SiteRequest ],
         \A s \in SiteRequests :
           siteRequest'[s].op \in { "create", "setDefault" } => siteRequest'[s].profile \in Profiles,
         \/ profile' = [ WithoutDefault EXCEPT ![p] = row ]
         \/ /\ profile' = [ profile EXCEPT ![p] = row ]
            /\ row.isDefault => profile[p].isDefault
  PROVE  SitesInv'
<1> SitesTypeOK
  BY DEF SitesInv
<1>1. profile' \in [ Profiles -> ContentProfile ]
  BY NoDefaultLeft DEF SitesTypeOK
<1>2. CASE profile' = [ WithoutDefault EXCEPT ![p] = row ]
  <2>1. \A q \in Profiles : profile'[q].isDefault => q = p
    BY <1>2, NoDefaultLeft
  <2>2. QED
    BY <1>1, <2>1 DEF SitesInv, SitesTypeOK, OneDefault
<1>3. CASE /\ profile' = [ profile EXCEPT ![p] = row ]
           /\ row.isDefault => profile[p].isDefault
  <2>1. \A q \in Profiles : profile'[q].isDefault => profile[q].isDefault
    BY <1>3 DEF SitesTypeOK
  <2>2. QED
    BY <1>1, <2>1 DEF SitesInv, SitesTypeOK, OneDefault
<1>4. QED
  BY <1>2, <1>3

LEMMA SitesNextInv == SitesInv /\ [SitesNext]_siteVars => SitesInv'
<1> SUFFICES ASSUME SitesInv, [SitesNext]_siteVars PROVE SitesInv'
  OBVIOUS
<1> SitesTypeOK
  BY DEF SitesInv
<1>1. ASSUME NEW status \in WebsiteStatus, createWebsite(status) PROVE SitesInv'
  <2>1. website' \in Website
    BY <1>1 DEF createWebsite, SitesTypeOK, Website
  <2>2. QED
    BY <1>1, <2>1, WebsiteStep DEF createWebsite, SitesTypeOK
<1>2. CASE deactivateWebsite
  <2>1. website' \in Website
    BY <1>2 DEF deactivateWebsite, Website, WebsiteStatus
  <2>2. QED
    BY <1>2, <2>1, WebsiteStep DEF deactivateWebsite, SitesTypeOK
<1>3. ASSUME NEW r \in SiteRequests, BeginUpdateWebsite(r) PROVE SitesInv'
  BY <1>3, BegunRequestsTyped DEF BeginUpdateWebsite
<1>4. ASSUME NEW r \in SiteRequests, NEW status \in WebsiteStatus, updateWebsite(r, status)
      PROVE  SitesInv'
  <2>1. website' \in Website
    BY <1>4 DEF updateWebsite, SitesTypeOK, Website
  <2>2. QED
    BY <1>4, <2>1, WebsiteStep, EndedRequestsTyped DEF updateWebsite
<1>5. ASSUME NEW r \in SiteRequests, NEW p \in Profiles, BeginCreateProfile(r, p)
      PROVE  SitesInv'
  BY <1>5, BegunRequestsTyped DEF BeginCreateProfile
<1>6. ASSUME NEW r \in SiteRequests, NEW p \in Profiles, BeginSetDefault(r, p)
      PROVE  SitesInv'
  BY <1>6, BegunRequestsTyped DEF BeginSetDefault
<1>7. ASSUME NEW r \in SiteRequests, NEW isDefault \in BOOLEAN, createProfile(r, isDefault)
      PROVE  SitesInv'
  <2> DEFINE p == siteRequest[r].profile
             row == [ status |-> "ACTIVE", isDefault |-> isDefault ]
  <2>1. p \in Profiles
    BY <1>7 DEF createProfile, SitesTypeOK
  <2>2. row \in ContentProfile
    BY DEF ContentProfile, ContentProfileStatus
  <2>3. \/ profile' = [ WithoutDefault EXCEPT ![p] = row ]
        \/ profile' = [ profile EXCEPT ![p] = row ] /\ ~ row.isDefault
    BY <1>7 DEF createProfile
  <2>4. UNCHANGED website /\ EndSiteRequest(r)
    BY <1>7 DEF createProfile
  <2> HIDE DEF p, row
  <2>5. QED
    BY <2>1, <2>2, <2>3, <2>4, ProfileStep, EndedRequestsTyped
<1>8. ASSUME NEW r \in SiteRequests, setDefault(r) PROVE SitesInv'
  <2> DEFINE p == siteRequest[r].profile
             row == [ WithoutDefault[p] EXCEPT !.isDefault = TRUE ]
  <2>1. p \in Profiles
    BY <1>8 DEF setDefault, SitesTypeOK
  <2>2. row \in ContentProfile
    BY <2>1, NoDefaultLeft DEF ContentProfile
  <2>3. profile' = [ WithoutDefault EXCEPT ![p] = row ]
    BY <1>8 DEF setDefault
  <2>4. UNCHANGED website /\ EndSiteRequest(r)
    BY <1>8 DEF setDefault
  <2> HIDE DEF p, row
  <2>5. QED
    BY <2>1, <2>2, <2>3, <2>4, ProfileStep, EndedRequestsTyped
<1>9. ASSUME NEW r \in SiteRequests, AbortSiteRequest(r) PROVE SitesInv'
  BY <1>9, WebsiteStep, EndedRequestsTyped DEF AbortSiteRequest, SitesTypeOK
<1>10. ASSUME NEW p \in Profiles, NEW status \in ContentProfileStatus, updateProfile(p, status)
       PROVE  SitesInv'
  <2> DEFINE row == [ status |-> status, isDefault |-> profile[p].isDefault /\ status = "ACTIVE" ]
  <2>1. row \in ContentProfile
    BY DEF SitesTypeOK, ContentProfile
  <2>2. /\ profile' = [ profile EXCEPT ![p] = row ]
        /\ row.isDefault => profile[p].isDefault
    BY <1>10 DEF updateProfile, SitesTypeOK
  <2> HIDE DEF row
  <2>3. QED
    BY <1>10, <2>1, <2>2, ProfileStep DEF updateProfile, SitesTypeOK
<1>11. ASSUME NEW p \in Profiles, deactivateProfile(p) PROVE SitesInv'
  <2> DEFINE row == [ status |-> "INACTIVE", isDefault |-> FALSE ]
  <2>1. row \in ContentProfile
    BY DEF ContentProfile, ContentProfileStatus
  <2>2. profile' = [ profile EXCEPT ![p] = row ] /\ ~ row.isDefault
    BY <1>11 DEF deactivateProfile
  <2> HIDE DEF row
  <2>3. QED
    BY <1>11, <2>1, <2>2, ProfileStep DEF deactivateProfile, SitesTypeOK
<1>12. CASE UNCHANGED siteVars
  BY <1>12 DEF siteVars, SitesInv, SitesTypeOK, OneDefault
<1>13. QED
  BY <1>1, <1>2, <1>3, <1>4, <1>5, <1>6, <1>7, <1>8, <1>9, <1>10, <1>11, <1>12 DEF SitesNext

\* Rows and requests have the fields and statuses of the schema.
THEOREM SitesTypesCorrect == SitesSpec => []SitesTypeOK
<1>1. SitesInv => SitesTypeOK
  BY DEF SitesInv
<1>2. QED
  BY <1>1, SitesInitInv, SitesNextInv, PTL DEF SitesSpec

\* createProfile and setDefault clear the default in the transaction that sets one: however
\* they overlap with each other and with updates, there is never a second default.
THEOREM OneDefaultAlways == SitesSpec => []OneDefault
<1>1. SitesInv => OneDefault
  BY DEF SitesInv
<1>2. QED
  BY <1>1, SitesInitInv, SitesNextInv, PTL DEF SitesSpec

-----------------------------------------------------------------------------
(* Websites and profiles: inactive defaults *)

InactiveByStaleDefault(p) ==
  \E r \in SiteRequests : /\ siteRequest[r] = [ op |-> "setDefault", profile |-> p ]
                          /\ siteRequest'[r] = NoSiteRequest

LEMMA InactiveDefaultStep ==
  ASSUME SitesInv, SitesNext, NEW p \in Profiles, ~ InactiveDefault(p), InactiveDefault(p)'
  PROVE  InactiveByStaleDefault(p)
<1> SitesTypeOK
  BY DEF SitesInv
<1> USE DEF InactiveDefault
<1>1. CASE UNCHANGED profile
  BY <1>1
<1>2. ASSUME NEW r \in SiteRequests, NEW isDefault \in BOOLEAN, createProfile(r, isDefault)
      PROVE  FALSE
  BY <1>2, NoDefaultLeft DEF createProfile, SitesTypeOK
<1>3. ASSUME NEW r \in SiteRequests, setDefault(r) PROVE InactiveByStaleDefault(p)
  <2>1. siteRequest[r].profile = p
    BY <1>3, NoDefaultLeft DEF setDefault, SitesTypeOK
  <2>2. siteRequest[r] = [ op |-> "setDefault", profile |-> p ]
    BY <1>3, <2>1 DEF setDefault, SitesTypeOK, SiteRequest
  <2>3. siteRequest'[r] = NoSiteRequest
    BY <1>3, EndedRequestsTyped DEF setDefault
  <2>4. QED
    BY <2>2, <2>3 DEF InactiveByStaleDefault
<1>4. ASSUME NEW q \in Profiles, NEW status \in ContentProfileStatus, updateProfile(q, status)
      PROVE  FALSE
  BY <1>4 DEF updateProfile, SitesTypeOK, ContentProfileStatus
<1>5. ASSUME NEW q \in Profiles, deactivateProfile(q) PROVE FALSE
  BY <1>5 DEF deactivateProfile, SitesTypeOK
<1>6. QED
  BY <1>1, <1>2, <1>3, <1>4, <1>5
  DEF SitesNext, createWebsite, deactivateWebsite, BeginUpdateWebsite, updateWebsite,
      BeginCreateProfile, BeginSetDefault, Begin, AbortSiteRequest

\* updateProfile and deactivateProfile take the default away from what they make inactive;
\* only a setDefault that found the profile active before can give it back.
THEOREM InactiveDefaultHasCauseAlways == SitesSpec => InactiveDefaultHasCause
<1>1. SitesInv /\ [SitesNext]_siteVars =>
        [ \A p \in Profiles : ~ InactiveDefault(p) /\ InactiveDefault(p)' =>
            \E r \in SiteRequests :
              siteRequest[r] = [ op |-> "setDefault", profile |-> p ]
                /\ siteRequest'[r] = NoSiteRequest ]_siteVars
  BY InactiveDefaultStep DEF InactiveByStaleDefault
<1>2. QED
  BY <1>1, SitesInitInv, SitesNextInv, PTL DEF SitesSpec, InactiveDefaultHasCause

-----------------------------------------------------------------------------
(* The inductive invariant *)

Uncalled == { "prompt", "resolved", "loaded", "allowed" }
InCall == { "calling", "answered", "failed" }
Generating == Uncalled \cup InCall \cup { "completed", "unfinished" }

\* What a request holds fits the rows it works on: the phase says how far its run is.
RequestChecked(q) ==
  /\ q.op = "none" => q.phase = "idle" /\ q.key = NoKey
  /\ q.op = "upsert" =>
       /\ q.phase = "write" /\ q.key = NoKey /\ q.scope \in AllScopes
       /\ q.version <= configuration[q.scope].version
       /\ q.version = configuration[q.scope].version =>
            q.credential = configuration[q.scope].credential
  /\ q.op = "generate" =>
       q.phase \in Generating /\ q.key \in Keys /\ candidate[q.key] = "PENDING"
  /\ q.op = "test" => q.phase \in { "loaded", "allowed" } \cup InCall /\ q.key \in Probes
  /\ q.phase = "prompt" => q.profile \in Profiles
  /\ q.phase \in { "resolved", "loaded" } => q.scope \in AllScopes
  /\ q.phase = "allowed" /\ q.scope # SYSTEM => MonthlyLimit > 0
  /\ q.phase \in Uncalled => run[q.key].status = "NONE"
  /\ q.phase \in InCall => run[q.key].status = "RUNNING"
  /\ q.phase = "completed" => run[q.key].status = "COMPLETED"
  /\ q.phase = "unfinished" => run[q.key].status # "RUNNING" \/ q.key \in abandoned

RequestSound == \A r \in Requests : RequestChecked(request[r])

\* No two requests work on one key.
KeysApart ==
  \A r, s \in Requests : request[r].key # NoKey /\ request[r].key = request[s].key => r = s

\* A key without a candidate has no run.
UnbegunRuns == \A k \in Keys : candidate[k] = "NONE" => run[k].status = "NONE"

MonthPositive == month > 0

RunsInTime == \A k \in RunKeys : run[k].status # "NONE" => run[k].month \in 1 .. month

\* A key that counts against the limit of a month, or may still come to: its run is
\* completed, or the request that works on it has passed the check of the limit.
Spent(k, s, m) == run[k].status = "COMPLETED" /\ run[k].scope = s /\ run[k].month = m

MaySpend(q, k, s, m) ==
  /\ q.key = k
  /\ \/ q.phase = "allowed" /\ q.scope = s /\ m = month
     \/ q.phase \in { "calling", "answered" } /\ run[k].scope = s /\ run[k].month = m

Load(s, m) ==
  { k \in RunKeys : Spent(k, s, m) \/ \E r \in Requests : MaySpend(request[r], k, s, m) }

\* Completed runs stay below the limit when a request passes, and then there is at most one
\* more run for each request.
Excess == MonthlyLimit + Tokens * Cardinality(Requests)

LimitKept ==
  \A s \in AllScopes, m \in 1 .. month :
    Load(s, m) = {} \/ Tokens * Cardinality(Load(s, m)) < Excess

IInv ==
  /\ TypeOK /\ OneDefault
  /\ RequestSound /\ KeysApart
  /\ InProgressHasOwner /\ OutcomesAgree /\ UnbegunRuns
  /\ MonthPositive /\ RunsInTime /\ LimitKept

-----------------------------------------------------------------------------
(* Counting *)

\* A larger number of runs costs no less.
LEMMA CostGrows ==
  ASSUME NEW a \in Nat, NEW b \in Nat, a <= b
  PROVE  Tokens * a <= Tokens * b
BY AiAssumption

LEMMA RunKeysFinite == IsFiniteSet(RunKeys)
BY FS_Union, AiAssumption DEF RunKeys

\* A load that does not grow stays within the limit.
LEMMA SmallerLoad ==
  ASSUME NEW L, NEW M \in SUBSET RunKeys, L \subseteq M,
         M = {} \/ Tokens * Cardinality(M) < Excess
  PROVE  L = {} \/ Tokens * Cardinality(L) < Excess
<1>1. IsFiniteSet(M)
  BY RunKeysFinite, FS_Subset
<1>2. IsFiniteSet(L) /\ Cardinality(L) <= Cardinality(M)
  BY <1>1, FS_Subset
<1>3. Cardinality(L) \in Nat /\ Cardinality(M) \in Nat /\ Cardinality(Requests) \in Nat
  BY <1>1, <1>2, FS_CardinalityType, AiAssumption
<1>4. Tokens * Cardinality(L) <= Tokens * Cardinality(M)
  BY <1>2, <1>3, CostGrows
<1>5. Tokens * Cardinality(L) \in Nat /\ Tokens * Cardinality(M) \in Nat /\ Excess \in Nat
  BY <1>3, AiAssumption DEF Excess
<1>6. QED
  BY <1>4, <1>5

\* The keys in the hands of the requests are no more than the requests.
HeldKeys == { k \in RunKeys : \E r \in Requests : request[r].key = k }

LEMMA HeldKeysCounted ==
  IsFiniteSet(HeldKeys) /\ Cardinality(HeldKeys) <= Cardinality(Requests)
<1> DEFINE Holders == { r \in Requests : request[r].key \in RunKeys }
           f == [ r \in Holders |-> request[r].key ]
<1>1. IsFiniteSet(Holders) /\ Cardinality(Holders) <= Cardinality(Requests)
  BY FS_Subset, AiAssumption
<1>2. f \in Surjection(Holders, HeldKeys)
  <2>1. f \in [ Holders -> HeldKeys ]
    BY DEF HeldKeys
  <2>2. \A k \in HeldKeys : \E r \in Holders : f[r] = k
    BY DEF HeldKeys
  <2>3. QED
    BY <2>1, <2>2 DEF Surjection
<1>3. IsFiniteSet(HeldKeys) /\ Cardinality(HeldKeys) <= Cardinality(Holders)
  BY <1>1, <1>2, FS_Surjection
<1>4. QED
  BY <1>1, <1>3, FS_CardinalityType, AiAssumption

-----------------------------------------------------------------------------
(* Steps of one request on its key *)

\* The step touches what request r holds, and the rows of key k, which nobody else holds.
Own(r, q, k) ==
  /\ request' = [ request EXCEPT ![r] = q ]
  /\ request[r].key \in { k, NoKey } /\ q.key \in { k, NoKey }
  /\ \A t \in Requests \ { r } : request[t].key # k
  /\ run' \in [ RunKeys -> Run ] /\ \A x \in RunKeys \ { k } : run'[x] = run[x]
  /\ candidate' \in [ Keys -> CandidateStatus ]
  /\ \A x \in Keys \ { k } : candidate'[x] = candidate[x]
  /\ abandoned \subseteq abandoned' /\ abandoned' \subseteq abandoned \cup { k }
  /\ UNCHANGED <<outside, configuration, month>>

\* After it the request and the rows of its key fit each other.
Settled(q, k) ==
  /\ RequestChecked(q)
  /\ k \notin abandoned =>
       /\ run[k].status = "RUNNING" => q.key = k /\ q.phase \in InCall
       /\ k \in Keys /\ candidate[k] = "PENDING" => q.key = k /\ q.phase \in Generating
       /\ k \in Keys /\ candidate[k] = "FAILED" => run[k].status # "RUNNING"
  /\ k \in Keys /\ candidate[k] = "READY" => run[k].status = "COMPLETED"
  /\ k \in Keys /\ candidate[k] = "NONE" => run[k].status = "NONE"
  /\ run[k].status # "NONE" => run[k].month \in 1 .. month

LEMMA NoKeyApart == NoKey \notin RunKeys
BY AiAssumption DEF RunKeys

LEMMA OwnStep ==
  ASSUME IInv, NEW r \in Requests, NEW q \in Request, NEW k \in RunKeys,
         Own(r, q, k), Settled(q, k)', LimitKept'
  PROVE  IInv'
<1> USE NoKeyApart
<1>1. \A t \in Requests : request'[t] = IF t = r THEN q ELSE request[t]
  BY DEF IInv, TypeOK, Own
<1>2. TypeOK'
  <2>1. abandoned' \subseteq RunKeys
    BY DEF IInv, TypeOK, Own
  <2>2. request' \in [ Requests -> Request ]
    BY DEF IInv, TypeOK, Own
  <2>3. SitesTypeOK'
    BY DEF IInv, TypeOK, Own, outside, siteVars, SitesTypeOK
  <2>4. QED
    BY <2>1, <2>2, <2>3 DEF IInv, TypeOK, Own, outside
<1>3. OneDefault'
  BY DEF IInv, Own, outside, siteVars, OneDefault
<1>4. RequestSound'
  <2>1. ASSUME NEW t \in Requests, t # r PROVE RequestChecked(request[t])'
    <3>1. PICK p : p = request[t]
      OBVIOUS
    <3>2. RequestChecked(p) /\ request'[t] = p /\ p \in Request /\ p.key # k
      BY <1>1, <2>1, <3>1 DEF IInv, RequestSound, TypeOK, Own
    <3>3. p.phase \in Uncalled \cup InCall \cup { "completed", "unfinished" } =>
            p.key \in RunKeys
      BY <3>2 DEF RequestChecked, Request, RunKeys, Uncalled, InCall, Generating
    <3>4. p.phase \in Uncalled \cup InCall \cup { "completed", "unfinished" } =>
            run'[p.key] = run[p.key]
      BY <3>2, <3>3 DEF Own
    <3>5. p.op = "generate" => candidate'[p.key] = candidate[p.key]
      BY <3>2 DEF RequestChecked, Own
    <3>6. (p.key \in abandoned => p.key \in abandoned') /\ configuration' = configuration
      BY DEF Own
    <3>7. RequestChecked(p)'
      BY <3>2, <3>4, <3>5, <3>6 DEF RequestChecked
    <3>8. QED
      BY <3>2, <3>7
  <2>2. RequestChecked(request[r])'
    BY <1>1 DEF Settled
  <2>3. QED
    BY <2>1, <2>2 DEF RequestSound
<1>5. KeysApart'
  BY <1>1 DEF IInv, KeysApart, Own
<1>6. ASSUME NEW x \in RunKeys \ abandoned'
      PROVE  /\ run'[x].status = "RUNNING" => Held(x, InCall)'
             /\ x \in Keys /\ candidate'[x] = "PENDING" => Held(x, Generating)'
  <2>1. CASE x = k
    BY <1>1, <1>6, <2>1 DEF Settled, Held
  <2>2. CASE x # k
    <3>1. x \notin abandoned
      BY <1>6 DEF Own
    <3>2. run'[x] = run[x] /\ (x \in Keys => candidate'[x] = candidate[x])
      BY <2>2, <1>6 DEF Own
    <3>3. \A t \in Requests : request[t].key = x => t # r /\ request'[t] = request[t]
      BY <1>1, <1>6, <2>2 DEF Own
    <3>4. \A phases : Held(x, phases) => Held(x, phases)'
      BY <3>3 DEF Held
    <3>5. /\ run[x].status = "RUNNING" => Held(x, InCall)
          /\ x \in Keys /\ candidate[x] = "PENDING" => Held(x, Generating)
      <4>1. Generating = { "prompt", "resolved", "loaded", "allowed", "calling", "answered",
                           "completed", "failed", "unfinished" }
        BY DEF Generating, Uncalled, InCall
      <4>2. QED
        BY <1>6, <3>1, <4>1 DEF IInv, InProgressHasOwner, InCall
    <3>6. QED
      BY <3>2, <3>4, <3>5
  <2>3. QED
    BY <2>1, <2>2
<1>7. InProgressHasOwner'
  <2>1. Generating = { "prompt", "resolved", "loaded", "allowed", "calling", "answered",
                       "completed", "failed", "unfinished" }
    BY DEF Generating, Uncalled, InCall
  <2>2. QED
    BY <1>6, <2>1 DEF InProgressHasOwner, InCall
<1>8. OutcomesAgree'
  <2>1. ASSUME NEW x \in Keys
        PROVE  /\ candidate'[x] = "READY" => run'[x].status = "COMPLETED"
               /\ candidate'[x] = "FAILED" /\ x \notin abandoned' => run'[x].status # "RUNNING"
    <3>1. CASE x = k
      BY <2>1, <3>1 DEF Settled
    <3>2. CASE x # k
      BY <2>1, <3>2 DEF IInv, OutcomesAgree, Own, RunKeys
    <3>3. QED
      BY <3>1, <3>2
  <2>2. QED
    BY <2>1 DEF OutcomesAgree
<1>9. RunsInTime'
  <2>1. ASSUME NEW x \in RunKeys, run'[x].status # "NONE" PROVE run'[x].month \in 1 .. month'
    <3>1. CASE x = k
      BY <2>1, <3>1 DEF Settled
    <3>2. CASE x # k
      BY <2>1, <3>2 DEF IInv, RunsInTime, Own
    <3>3. QED
      BY <3>1, <3>2
  <2>2. QED
    BY <2>1 DEF RunsInTime
<1>10. MonthPositive'
  BY DEF IInv, MonthPositive, Own
<1>11. UnbegunRuns'
  <2>1. ASSUME NEW x \in Keys, candidate'[x] = "NONE" PROVE run'[x].status = "NONE"
    <3>1. CASE x = k
      BY <2>1, <3>1 DEF Settled
    <3>2. CASE x # k
      BY <2>1, <3>2 DEF IInv, UnbegunRuns, Own, RunKeys
    <3>3. QED
      BY <3>1, <3>2
  <2>2. QED
    BY <2>1 DEF UnbegunRuns
<1>12. QED
  BY <1>2, <1>3, <1>4, <1>5, <1>7, <1>8, <1>9, <1>10, <1>11 DEF IInv

\* A step after which its key counts only where it counted before.
LEMMA OwnLoad ==
  ASSUME IInv, NEW r \in Requests, NEW q \in Request, NEW k \in RunKeys, Own(r, q, k),
         \A s \in AllScopes, m \in 1 .. month :
           (Spent(k, s, m) \/ MaySpend(q, k, s, m))'
             => Spent(k, s, m) \/ MaySpend(request[r], k, s, m)
  PROVE  LimitKept'
<1> USE NoKeyApart
<1> SUFFICES ASSUME NEW s \in AllScopes, NEW m \in 1 .. month
             PROVE  Load(s, m)' = {} \/ Tokens * Cardinality(Load(s, m)') < Excess
  BY DEF LimitKept, Own, Excess
<1>1. ASSUME NEW x \in Load(s, m)' PROVE x \in Load(s, m)
  <2>1. x \in RunKeys
    BY <1>1 DEF Load
  <2>2. \A t \in Requests : request'[t] = IF t = r THEN q ELSE request[t]
    BY DEF IInv, TypeOK, Own
  <2>3. CASE x = k
    <3>1. Spent(k, s, m)' \/ MaySpend(q, k, s, m)'
      BY <1>1, <2>2, <2>3 DEF Load, MaySpend, Own
    <3>2. Spent(k, s, m) \/ MaySpend(request[r], k, s, m)
      BY <3>1
    <3>3. QED
      BY <3>2, <2>3, <2>1 DEF Load
  <2>4. CASE x # k
    <3>1. run'[x] = run[x]
      BY <2>1, <2>4 DEF Own
    <3>2. \A t \in Requests : request'[t].key = x => t # r /\ request'[t] = request[t]
      BY <2>1, <2>2, <2>4 DEF Own
    <3>3. month' = month
      BY DEF Own
    <3>4. QED
      BY <1>1, <2>1, <3>1, <3>2, <3>3 DEF Load, Spent, MaySpend
  <2>5. QED
    BY <2>3, <2>4
<1>2. Load(s, m)' \subseteq Load(s, m) /\ Load(s, m) \in SUBSET RunKeys
  BY <1>1 DEF Load
<1>3. Load(s, m) = {} \/ Tokens * Cardinality(Load(s, m)) < Excess
  BY DEF IInv, LimitKept
<1>4. QED
  BY <1>2, <1>3, SmallerLoad

\* What a request that works on a key holds.
LEMMA KeyOwned ==
  ASSUME IInv, NEW r \in Requests,
         request[r].phase \in Uncalled \cup InCall \cup { "completed", "unfinished" }
  PROVE  /\ request[r] \in Request /\ RequestChecked(request[r])
         /\ request[r].key \in RunKeys
         /\ request[r].op \in { "generate", "test" }
         /\ request[r].op = "generate" <=> request[r].key \in Keys
         /\ request[r].op = "test" <=> request[r].key \in Probes
         /\ \A t \in Requests \ { r } : request[t].key # request[r].key
<1>1. request[r] \in Request /\ RequestChecked(request[r])
  BY DEF IInv, TypeOK, RequestSound
<1>2. request[r].op \in { "generate", "test" }
  BY <1>1 DEF RequestChecked, Request, Uncalled, InCall
<1>3. /\ request[r].key \in RunKeys
      /\ request[r].op = "generate" <=> request[r].key \in Keys
      /\ request[r].op = "test" <=> request[r].key \in Probes
  BY <1>1, <1>2, AiAssumption DEF RequestChecked, RunKeys
<1>4. \A t \in Requests \ { r } : request[t].key # request[r].key
  BY <1>3, NoKeyApart DEF IInv, KeysApart
<1>5. QED
  BY <1>1, <1>2, <1>3, <1>4

Working == Uncalled \cup InCall \cup { "completed", "unfinished" }

\* A step that writes no row: the request goes on, or ends, where nothing is left behind.
LEMMA QuietStep ==
  ASSUME IInv, NEW r \in Requests, request[r].phase \in Working,
         NEW k, k = request[r].key, NEW q \in Request,
         request' = [ request EXCEPT ![r] = q ], q.key \in { k, NoKey },
         UNCHANGED <<outside, configuration, run, candidate, month>>,
         abandoned' = abandoned \/ abandoned' = abandoned \cup { k },
         RequestChecked(q)',
         k \notin abandoned' =>
           /\ run[k].status = "RUNNING" => q.key = k /\ q.phase \in InCall
           /\ k \in Keys /\ candidate[k] = "PENDING" => q.key = k /\ q.phase \in Generating,
         q.phase = "allowed" => q.scope = SYSTEM,
         q.phase \in { "calling", "answered" } => request[r].phase \in { "calling", "answered" }
  PROVE  IInv'
<1>1. k \in RunKeys /\ \A t \in Requests \ { r } : request[t].key # k
  BY KeyOwned DEF Working
<1>2. Own(r, q, k)
  BY <1>1 DEF Own, IInv, TypeOK
<1>3. Settled(q, k)'
  <2>1. k \in Keys /\ candidate[k] = "FAILED" /\ k \notin abandoned => run[k].status # "RUNNING"
    BY DEF IInv, OutcomesAgree
  <2>2. k \in Keys /\ candidate[k] = "READY" => run[k].status = "COMPLETED"
    BY DEF IInv, OutcomesAgree
  <2>3. run[k].status # "NONE" => run[k].month \in 1 .. month
    BY <1>1 DEF IInv, RunsInTime
  <2>4. k \in Keys /\ candidate[k] = "NONE" => run[k].status = "NONE"
    BY DEF IInv, UnbegunRuns
  <2>5. QED
    BY <2>1, <2>2, <2>3, <2>4 DEF Settled
<1>4. ASSUME NEW s \in AllScopes, NEW m \in 1 .. month, (Spent(k, s, m) \/ MaySpend(q, k, s, m))'
      PROVE  Spent(k, s, m) \/ MaySpend(request[r], k, s, m)
  BY <1>4, AiAssumption DEF Spent, MaySpend
<1>5. LimitKept'
  BY <1>1, <1>2, <1>4, OwnLoad
<1>6. QED
  BY <1>1, <1>2, <1>3, <1>5, OwnStep

LEMMA IdleChecked == NoRequest \in Request /\ RequestChecked(NoRequest)
BY DEF NoRequest, Request, Changes, RequestChecked, Uncalled, InCall

\* A request gives up its run: the run is not RUNNING, or nobody could say that it ended.
LEMMA ThrowStep ==
  ASSUME IInv, NEW r \in Requests, request[r].phase \in Working, Throw(r),
         UNCHANGED <<outside, configuration, run, candidate, month>>,
         \/ run[request[r].key].status # "RUNNING" /\ abandoned' = abandoned
         \/ abandoned' = abandoned \cup { request[r].key }
  PROVE  IInv'
<1>1. PICK k : k = request[r].key
  OBVIOUS
<1>2. /\ request[r].op \in { "generate", "test" } /\ k \in RunKeys
      /\ request[r].op = "generate" <=> k \in Keys
      /\ k \in Keys => candidate[k] = "PENDING"
  BY <1>1, KeyOwned DEF Working, RequestChecked
<1>3. CASE request[r].op = "generate"
  <2>1. PICK q : q = Unfinished(k)
    OBVIOUS
  <2>2. q \in Request /\ q.op = "generate" /\ q.phase = "unfinished" /\ q.key = k
    BY <2>1, <1>2 DEF Unfinished, NoRequest, Request, Changes
  <2>3. request' = [ request EXCEPT ![r] = q ]
    BY <1>1, <1>3, <2>1 DEF Throw, Set
  <2>4. RequestChecked(q)'
    BY <1>1, <1>2, <1>3, <2>2 DEF RequestChecked, Generating, Uncalled, InCall
  <2>5. k \notin abandoned' =>
          /\ run[k].status = "RUNNING" => q.key = k /\ q.phase \in InCall
          /\ k \in Keys /\ candidate[k] = "PENDING" => q.key = k /\ q.phase \in Generating
    BY <1>1, <2>2 DEF Generating
  <2>6. QED
    BY <1>1, <2>2, <2>3, <2>4, <2>5, QuietStep
<1>4. CASE request[r].op = "test"
  <2>1. PICK q : q = NoRequest
    OBVIOUS
  <2>2. q \in Request /\ q.op = "none" /\ q.phase = "idle" /\ q.key = NoKey
    BY <2>1, IdleChecked DEF NoRequest
  <2>3. request' = [ request EXCEPT ![r] = q ]
    BY <1>4, <2>1 DEF Throw, Finish, Set
  <2>4. RequestChecked(q)'
    BY <2>2 DEF RequestChecked, Uncalled, InCall
  <2>5. k \notin Keys
    BY <1>2, <1>4
  <2>6. k \notin abandoned' => run[k].status # "RUNNING"
    BY <1>1
  <2>7. QED
    BY <1>1, <2>2, <2>3, <2>4, <2>5, <2>6, QuietStep
<1>5. QED
  BY <1>2, <1>3, <1>4

\* The request goes on in another phase, with the rows as they are.
LEMMA PhaseStep ==
  ASSUME IInv, NEW r \in Requests, request[r].phase \in Working, NEW q,
         onlyRequest, request' = [ request EXCEPT ![r] = q ],
         q \in Request, q.key = request[r].key, q.op = request[r].op,
         RequestChecked(q),
         q.phase \in InCall <=> request[r].phase \in InCall,
         q.phase = "allowed" => q.scope = SYSTEM,
         q.phase \in { "calling", "answered" } => request[r].phase \in { "calling", "answered" }
  PROVE  IInv'
<1>1. PICK k : k = request[r].key
  OBVIOUS
<1>2. /\ RequestChecked(request[r]) /\ k \in RunKeys
      /\ request[r].op \in { "generate", "test" }
      /\ request[r].op = "generate" <=> k \in Keys
  BY <1>1, KeyOwned DEF Working
<1>3. run[k].status = "RUNNING" /\ k \notin abandoned => request[r].phase \in InCall
  BY <1>1, <1>2 DEF RequestChecked, Working, Uncalled, InCall
<1>4. k \in Keys => q.phase \in Generating
  BY <1>2 DEF RequestChecked
<1>5. RequestChecked(q)'
  BY DEF RequestChecked, onlyRequest
<1>6. QED
  BY <1>1, <1>3, <1>4, <1>5, QuietStep DEF onlyRequest

-----------------------------------------------------------------------------
(* The actions of a generation or a test *)

LEMMA ReadSteps ==
  ASSUME IInv, NEW r \in Requests,
         resolve(r) \/ findConfiguration(r) \/ CredentialUnavailable(r)
  PROVE  IInv'
<1> USE DEF At, Set
<1>1. CASE resolve(r)
  <2>1. request[r].phase \in Working /\ request[r].phase = "prompt" /\ onlyRequest
    BY <1>1 DEF resolve, Working, Uncalled
  <2>2. /\ request[r] \in Request /\ RequestChecked(request[r])
        /\ run[request[r].key].status = "NONE" /\ request[r].op = "generate"
        /\ request[r].profile \in Profiles
    BY <2>1, KeyOwned DEF Working, RequestChecked, Uncalled, InCall
  <2>3. CASE requireWebsite
    <3>1. PICK s : s = Resolved(request[r].profile)
      OBVIOUS
    <3>2. s \in AllScopes \cup { SYSTEM }
      BY <3>1 DEF Resolved, AllScopes
    <3>3. PICK q : q = [ request[r] EXCEPT !.profile = NoProfile, !.scope = s,
                           !.phase = IF s = SYSTEM THEN "allowed" ELSE "resolved" ]
      OBVIOUS
    <3>4. /\ q.op = "generate" /\ q.key = request[r].key /\ q.scope = s
          /\ q.phase = IF s = SYSTEM THEN "allowed" ELSE "resolved"
      BY <2>2, <3>3 DEF Request
    <3>5. q \in Request
      BY <2>2, <3>2, <3>3 DEF Request
    <3>6. request' = [ request EXCEPT ![r] = q ]
      BY <1>1, <2>3, <3>1, <3>3 DEF resolve
    <3>7. RequestChecked(q)
      BY <2>1, <2>2, <3>2, <3>4, AiAssumption DEF RequestChecked, Generating, Uncalled, InCall
    <3>8. /\ q.phase \notin InCall /\ request[r].phase \notin InCall
          /\ q.phase = "allowed" => q.scope = SYSTEM
          /\ q.phase \notin { "calling", "answered" }
      BY <2>1, <3>4 DEF InCall
    <3>9. q.op = request[r].op /\ q.key = request[r].key
      BY <2>2, <3>4
    <3>10. QED
      BY <2>1, <3>5, <3>6, <3>7, <3>8, <3>9, PhaseStep
  <2>4. CASE ~ requireWebsite
    BY <1>1, <2>1, <2>2, <2>4, ThrowStep DEF resolve, Throw, onlyRequest
  <2>5. QED
    BY <2>3, <2>4
<1>2. CASE findConfiguration(r)
  <2>1. request[r].phase \in Working /\ request[r].phase = "resolved"
    BY <1>2 DEF findConfiguration, Working, Uncalled
  <2>2. request[r] \in Request /\ RequestChecked(request[r]) /\ request[r].scope \in AllScopes
    BY <2>1, KeyOwned DEF Working, RequestChecked
  <2>3. PICK q : q = [ request[r] EXCEPT !.phase = "loaded",
                          !.credential = configuration[request[r].scope].credential ]
    OBVIOUS
  <2>4. /\ q.op = request[r].op /\ q.key = request[r].key /\ q.scope = request[r].scope
        /\ q.phase = "loaded"
    BY <2>2, <2>3 DEF Request
  <2>5. configuration[request[r].scope].credential \in Nat
    BY <2>2 DEF IInv, TypeOK, Configuration
  <2>6. q \in Request
    BY <2>2, <2>3, <2>5 DEF Request
  <2>7. RequestChecked(q)
    BY <2>1, <2>2, <2>4 DEF RequestChecked, Generating, Uncalled, InCall
  <2>8. QED
    BY <1>2, <2>1, <2>3, <2>4, <2>6, <2>7, PhaseStep DEF findConfiguration, InCall
<1>3. CASE CredentialUnavailable(r)
  <2>1. request[r].phase \in Working /\ request[r].phase = "allowed"
    BY <1>3 DEF CredentialUnavailable, Working, Uncalled
  <2>2. run[request[r].key].status = "NONE"
    BY <2>1, KeyOwned DEF Working, RequestChecked, Uncalled
  <2>3. QED
    BY <1>3, <2>1, <2>2, ThrowStep DEF CredentialUnavailable, onlyRequest
<1>4. QED
  BY <1>1, <1>2, <1>3

\* A request that passes finds fewer tokens spent than the limit, and the requests that
\* have passed are no more than there are requests.
LEMMA PassStep ==
  ASSUME IInv, NEW r \in Requests, At(r, "loaded"), ~ LimitReached(request[r].scope),
         Goto(r, "allowed"), onlyRequest
  PROVE  IInv'
<1> USE DEF At, Set, Goto
<1>1. request[r].phase \in Working /\ request[r].phase = "loaded"
  BY DEF Working, Uncalled
<1>2. PICK k, s : k = request[r].key /\ s = request[r].scope
  OBVIOUS
<1>3. /\ request[r] \in Request /\ RequestChecked(request[r]) /\ k \in RunKeys
      /\ request[r].op \in { "generate", "test" } /\ s \in AllScopes
      /\ \A t \in Requests \ { r } : request[t].key # k
      /\ request[r].op = "generate" <=> k \in Keys
      /\ run[k].status = "NONE"
  BY <1>1, <1>2, KeyOwned DEF Working, RequestChecked, Uncalled
<1>4. PICK q : q = [ request[r] EXCEPT !.phase = "allowed" ]
  OBVIOUS
<1>5. /\ q \in Request /\ q.op = request[r].op /\ q.key = k /\ q.scope = s
      /\ q.phase = "allowed"
  BY <1>2, <1>3, <1>4 DEF Request
<1>6. request' = [ request EXCEPT ![r] = q ]
  BY <1>4
<1> DEFINE Done == { x \in RunKeys : run[x].status = "COMPLETED" /\ run[x].scope = s
                                      /\ run[x].month = month }
<1>7. IsFiniteSet(Done) /\ Cardinality(Done) \in Nat
  BY RunKeysFinite, FS_Subset, FS_CardinalityType
<1>8. Tokens * Cardinality(Done) < MonthlyLimit
  <2>1. Tokens * Cardinality(Done) \in Nat
    BY <1>7, AiAssumption
  <2>2. Usage(s, month) = Tokens * Cardinality(Done)
    BY DEF Usage
  <2>3. ~ (Usage(s, month) >= MonthlyLimit)
    BY <1>2 DEF LimitReached
  <2> HIDE DEF Done
  <2>4. QED
    BY <2>1, <2>2, <2>3, AiAssumption
<1>9. MonthlyLimit > 0
  BY <1>7, <1>8, AiAssumption
<1>10. Own(r, q, k)
  BY <1>2, <1>3, <1>5, <1>6 DEF Own, IInv, TypeOK, onlyRequest
<1>11. Settled(q, k)'
  <2>1. RequestChecked(q)'
    BY <1>1, <1>2, <1>3, <1>5, <1>9 DEF RequestChecked, onlyRequest, Generating, Uncalled, InCall
  <2>2. k \in Keys /\ candidate[k] = "READY" => run[k].status = "COMPLETED"
    BY DEF IInv, OutcomesAgree
  <2>3. QED
    BY <1>3, <1>5, <2>1, <2>2 DEF Settled, onlyRequest, Generating, Uncalled
<1>12. LimitKept'
  <2>1. SUFFICES ASSUME NEW u \in AllScopes, NEW m \in 1 .. month
                 PROVE  Load(u, m)' = {} \/ Tokens * Cardinality(Load(u, m)') < Excess
    BY DEF LimitKept, onlyRequest, Excess
  <2>2. \A t \in Requests : request'[t] = IF t = r THEN q ELSE request[t]
    BY <1>6 DEF IInv, TypeOK
  <2>3. CASE u = s /\ m = month
    <3>1. Load(u, m)' \subseteq Done \cup HeldKeys'
      BY <2>3 DEF Load, Spent, MaySpend, HeldKeys, onlyRequest
    <3>2. HeldKeys' \subseteq HeldKeys
      BY <1>2, <1>5, <2>2 DEF HeldKeys
    <3>3. Load(u, m)' \subseteq Done \cup HeldKeys
      BY <3>1, <3>2
    <3>4. /\ IsFiniteSet(Done \cup HeldKeys)
          /\ Cardinality(Done \cup HeldKeys) =
               Cardinality(Done) + Cardinality(HeldKeys) - Cardinality(Done \cap HeldKeys)
      BY <1>7, HeldKeysCounted, FS_Union
    <3>5. Cardinality(Done \cap HeldKeys) \in Nat /\ Cardinality(HeldKeys) \in Nat
      BY <1>7, HeldKeysCounted, FS_Intersection, FS_CardinalityType
    <3>6. /\ IsFiniteSet(Load(u, m)')
          /\ Cardinality(Load(u, m)') <= Cardinality(Done \cup HeldKeys)
          /\ Cardinality(Load(u, m)') \in Nat
      BY <3>3, <3>4, FS_Subset, FS_CardinalityType
    <3> DEFINE a == Cardinality(Load(u, m)')
               b == Cardinality(Done)
               c == Cardinality(Requests)
    <3>7. c \in Nat /\ a \in Nat /\ b \in Nat /\ a <= b + c
      <4>1. c \in Nat /\ Cardinality(HeldKeys) <= c
        BY HeldKeysCounted, FS_CardinalityType, AiAssumption
      <4>2. a <= Cardinality(Done \cup HeldKeys) /\ a \in Nat
        BY <3>6
      <4> HIDE DEF a, b, c, Done
      <4>3. QED
        BY <1>7, <3>4, <3>5, <4>1, <4>2 DEF b
    <3>8. Tokens * b < MonthlyLimit
      BY <1>8
    <3> HIDE DEF a, b, c
    <3>9. Tokens * a <= Tokens * (b + c)
      BY <3>7, CostGrows
    <3>10. Tokens * (b + c) = Tokens * b + Tokens * c
      BY <3>7, AiAssumption
    <3>11. Tokens * a \in Nat /\ Tokens * b \in Nat /\ Tokens * c \in Nat
      BY <3>7, AiAssumption
    <3>12. Tokens * a < MonthlyLimit + Tokens * c
      BY <3>8, <3>9, <3>10, <3>11, AiAssumption
    <3>13. QED
      BY <3>12 DEF a, c, Excess
  <2>4. CASE ~ (u = s /\ m = month)
    <3>1. ASSUME NEW x \in Load(u, m)' PROVE x \in Load(u, m)
      <4>1. run' = run /\ month' = month
        BY DEF onlyRequest
      <4>2. \A t \in Requests : MaySpend(request[t], x, u, m)' => MaySpend(request[t], x, u, m)
        <5>1. ~ MaySpend(q, x, u, m)'
          BY <1>5, <2>4, <4>1 DEF MaySpend
        <5>2. QED
          BY <2>2, <4>1, <5>1 DEF MaySpend
      <4>3. QED
        BY <3>1, <4>1, <4>2 DEF Load, Spent
    <3>2. Load(u, m)' \subseteq Load(u, m) /\ Load(u, m) \in SUBSET RunKeys
      BY <3>1 DEF Load
    <3>3. Load(u, m) = {} \/ Tokens * Cardinality(Load(u, m)) < Excess
      BY DEF IInv, LimitKept
    <3>4. QED
      BY <3>2, <3>3, SmallerLoad
  <2>5. QED
    BY <2>3, <2>4
<1>13. QED
  BY <1>3, <1>5, <1>10, <1>11, <1>12, OwnStep

LEMMA LimitStep ==
  ASSUME IInv, NEW r \in Requests, enforceMonthlyLimit(r)
  PROVE  IInv'
<1>1. CASE LimitReached(request[r].scope)
  <2>1. request[r].phase \in Working /\ request[r].phase = "loaded"
    BY DEF enforceMonthlyLimit, At, Working, Uncalled
  <2>2. run[request[r].key].status = "NONE"
    BY <2>1, KeyOwned DEF Working, RequestChecked, Uncalled
  <2>3. QED
    BY <1>1, <2>1, <2>2, ThrowStep DEF enforceMonthlyLimit, onlyRequest
<1>2. CASE ~ LimitReached(request[r].scope)
  BY <1>2, PassStep DEF enforceMonthlyLimit
<1>3. QED
  BY <1>1, <1>2

LEMMA CallSteps ==
  ASSUME IInv, NEW r \in Requests,
         \/ \E valid \in BOOLEAN : Answer(r, valid)
         \/ \E retryable \in BOOLEAN : CallFails(r, retryable)
  PROVE  IInv'
<1>1. request[r].phase = "calling" /\ onlyRequest
  BY DEF Answer, CallFails, At
<1>2. request[r].phase \in Working
  BY <1>1 DEF Working, InCall
<1>3. /\ request[r] \in Request /\ RequestChecked(request[r])
      /\ run[request[r].key].status = "RUNNING"
  BY <1>1, <1>2, KeyOwned DEF Working, RequestChecked, InCall
<1>4. PICK n \in Nat, phase \in { "calling", "answered", "failed" } :
        request' = [ request EXCEPT ![r] = [ request[r] EXCEPT !.phase = phase, !.retries = n ] ]
  <2>1. CASE \E valid \in BOOLEAN : Answer(r, valid)
    <3>1. request' = [ request EXCEPT ![r] = [ request[r] EXCEPT !.phase = "answered", !.retries = 0 ] ]
          \/ request' = [ request EXCEPT ![r] = [ request[r] EXCEPT !.phase = "failed", !.retries = 0 ] ]
      BY <2>1 DEF Answer, EndCalls, Set
    <3>2. QED
      BY <3>1
  <2>2. ASSUME NEW retryable \in BOOLEAN, CallFails(r, retryable)
        PROVE  \E n \in Nat, phase \in { "calling", "answered", "failed" } : request' =
                 [ request EXCEPT ![r] = [ request[r] EXCEPT !.phase = phase, !.retries = n ] ]
    <3>1. CASE request' = [ request EXCEPT ![r] = [ request[r] EXCEPT !.phase = "failed", !.retries = 0 ] ]
      BY <3>1
    <3>2. CASE request' = [ request EXCEPT ![r] = [ request[r] EXCEPT !.retries = @ + 1 ] ]
      <4>1. request[r].retries + 1 \in Nat
        BY <1>3 DEF Request
      <4>2. [ request[r] EXCEPT !.retries = @ + 1 ]
              = [ request[r] EXCEPT !.phase = "calling", !.retries = request[r].retries + 1 ]
        BY <1>1, <1>3 DEF Request
      <4>3. QED
        BY <3>2, <4>1, <4>2
    <3>3. QED
      BY <2>2, <3>1, <3>2 DEF CallFails, EndCalls, Set
  <2>3. QED
    BY <2>1, <2>2
<1>5. PICK q : q = [ request[r] EXCEPT !.phase = phase, !.retries = n ]
  OBVIOUS
<1>6. /\ q.op = request[r].op /\ q.key = request[r].key /\ q.scope = request[r].scope
      /\ q.phase = phase
  BY <1>3, <1>5 DEF Request
<1>7. q \in Request
  BY <1>3, <1>5 DEF Request
<1>8. RequestChecked(q)
  BY <1>1, <1>3, <1>6 DEF RequestChecked, Generating, Uncalled, InCall
<1>9. QED
  BY <1>1, <1>2, <1>4, <1>5, <1>6, <1>7, <1>8, PhaseStep DEF InCall

\* The run is counted from now on where the request was counted before.
LEMMA CreateRunStep ==
  ASSUME IInv, NEW r \in Requests, CreateRun(r)
  PROVE  IInv'
<1> USE DEF At, Set
<1>1. request[r].phase \in Working /\ request[r].phase = "allowed"
  BY DEF CreateRun, Working, Uncalled
<1>2. PICK k : k = request[r].key
  OBVIOUS
<1>3. /\ request[r] \in Request /\ RequestChecked(request[r]) /\ k \in RunKeys
      /\ request[r].op \in { "generate", "test" }
      /\ request[r].op = "generate" <=> k \in Keys
      /\ \A t \in Requests \ { r } : request[t].key # k
  BY <1>1, <1>2, KeyOwned DEF Working
<1>4. PICK q : q = [ request[r] EXCEPT !.phase = "calling", !.scope = SYSTEM, !.credential = 0 ]
  OBVIOUS
<1>5. q.op = request[r].op /\ q.key = k /\ q.phase = "calling" /\ q.scope = SYSTEM
  BY <1>2, <1>3, <1>4 DEF Request
<1>6. q \in Request
  BY <1>3, <1>4 DEF Request
<1>7. PICK new : new = [ status |-> "RUNNING", scope |-> request[r].scope, month |-> month ]
  OBVIOUS
<1>8. new \in Run
  BY <1>3, <1>7 DEF Run, Request, IInv, TypeOK
<1>9. /\ run' = [ run EXCEPT ![k] = new ] /\ request' = [ request EXCEPT ![r] = q ]
      /\ UNCHANGED <<outside, configuration, candidate, month, abandoned>>
  BY <1>2, <1>4, <1>7 DEF CreateRun
<1>10. run'[k] = new
  BY <1>3, <1>9 DEF IInv, TypeOK
<1>11. Own(r, q, k)
  BY <1>2, <1>3, <1>5, <1>8, <1>9 DEF Own, IInv, TypeOK
<1>12. Settled(q, k)'
  <2>1. run'[k].status = "RUNNING"
    BY <1>7, <1>10
  <2>2. k \in Keys => candidate[k] = "PENDING"
    BY <1>2, <1>3 DEF RequestChecked
  <2>3. q.op = "test" => k \in Probes
    BY <1>2, <1>3, <1>5 DEF RequestChecked
  <2>4. RequestChecked(q)'
    BY <1>3, <1>5, <1>9, <2>1, <2>2, <2>3 DEF RequestChecked, Generating, Uncalled, InCall
  <2>5. month \in 1 .. month
    BY DEF IInv, TypeOK, MonthPositive
  <2>6. QED
    BY <1>5, <1>7, <1>9, <1>10, <2>1, <2>2, <2>4, <2>5 DEF Settled, Generating, InCall
<1>13. ASSUME NEW s \in AllScopes, NEW m \in 1 .. month, (Spent(k, s, m) \/ MaySpend(q, k, s, m))'
       PROVE  Spent(k, s, m) \/ MaySpend(request[r], k, s, m)
  BY <1>1, <1>2, <1>5, <1>7, <1>9, <1>10, <1>13 DEF Spent, MaySpend
<1>14. QED
  BY <1>3, <1>6, <1>11, <1>12, <1>13, OwnStep, OwnLoad

\* The end of the run: it is COMPLETED, or FAILED and the request gives up.
LEMMA EndRunStep ==
  ASSUME IInv, NEW r \in Requests, CompleteRun(r) \/ FailRun(r)
  PROVE  IInv'
<1> USE DEF At, Set
<1>1. request[r].phase \in Working /\ request[r].phase \in { "answered", "failed" }
  BY DEF CompleteRun, FailRun, Working, InCall
<1>2. PICK k : k = request[r].key
  OBVIOUS
<1>3. /\ request[r] \in Request /\ RequestChecked(request[r]) /\ k \in RunKeys
      /\ request[r].op \in { "generate", "test" }
      /\ request[r].op = "generate" <=> k \in Keys
      /\ k \in Keys => candidate[k] = "PENDING"
      /\ \A t \in Requests \ { r } : request[t].key # k
      /\ run[k].status = "RUNNING"
  BY <1>1, <1>2, KeyOwned DEF Working, RequestChecked, InCall
<1>4. PICK status \in { "COMPLETED", "FAILED" } :
        /\ run' = [ run EXCEPT ![k].status = status ]
        /\ status = "COMPLETED" => request[r].phase = "answered"
        /\ UNCHANGED <<outside, configuration, candidate, month, abandoned>>
  BY <1>2 DEF CompleteRun, FailRun, EndRun
<1>5. PICK q : /\ q \in Request /\ request' = [ request EXCEPT ![r] = q ]
               /\ \/ q.op = "none" /\ q.phase = "idle" /\ q.key = NoKey /\ k \notin Keys
                  \/ /\ k \in Keys /\ q.op = "generate" /\ q.key = k
                     /\ q.phase = IF status = "COMPLETED" THEN "completed" ELSE "unfinished"
  <2>1. run'[k].status = status
    BY <1>3, <1>4 DEF IInv, TypeOK, Run
  <2>2. CASE request[r].op = "test"
    <3>1. request' = [ request EXCEPT ![r] = NoRequest ]
      BY <2>2 DEF CompleteRun, FailRun, Throw, Finish
    <3>2. k \notin Keys
      BY <1>3, <2>2
    <3>3. PICK q : q = NoRequest
      OBVIOUS
    <3>4. q \in Request /\ q.op = "none" /\ q.phase = "idle" /\ q.key = NoKey
      BY <3>3, IdleChecked DEF NoRequest
    <3>5. QED
      BY <3>1, <3>2, <3>3, <3>4
  <2>3. CASE request[r].op = "generate" /\ status = "COMPLETED"
    <3>1. CompleteRun(r)
      BY <1>2, <1>3, <2>1, <2>3 DEF FailRun, EndRun, IInv, TypeOK, Run
    <3>2. request' = [ request EXCEPT ![r] = [ request[r] EXCEPT !.phase = "completed" ] ]
      BY <3>1, <2>3 DEF CompleteRun, Goto
    <3>3. PICK q : q = [ request[r] EXCEPT !.phase = "completed" ]
      OBVIOUS
    <3>4. q \in Request /\ q.op = "generate" /\ q.key = k /\ q.phase = "completed"
      BY <1>2, <1>3, <2>3, <3>3 DEF Request
    <3>5. QED
      BY <1>3, <2>3, <3>2, <3>3, <3>4
  <2>4. CASE request[r].op = "generate" /\ status = "FAILED"
    <3>1. FailRun(r)
      BY <1>2, <1>3, <2>1, <2>4 DEF CompleteRun, EndRun, IInv, TypeOK, Run
    <3>2. request' = [ request EXCEPT ![r] = Unfinished(k) ]
      BY <1>2, <3>1, <2>4 DEF FailRun, Throw
    <3>3. /\ Unfinished(k) \in Request /\ Unfinished(k).op = "generate"
          /\ Unfinished(k).key = k /\ Unfinished(k).phase = "unfinished"
      BY <1>3 DEF Unfinished, NoRequest, Request, Changes
    <3>4. QED
      BY <1>3, <2>4, <3>2, <3>3
  <2>5. QED
    BY <1>3, <2>2, <2>3, <2>4
<1>6. run'[k] = [ run[k] EXCEPT !.status = status ] /\ run[k] \in Run
  BY <1>3, <1>4 DEF IInv, TypeOK
<1>7. /\ run'[k].status = status /\ run'[k].scope = run[k].scope /\ run'[k].month = run[k].month
      /\ run'[k] \in Run
  BY <1>6 DEF Run
<1>8. Own(r, q, k)
  <2>1. run' \in [ RunKeys -> Run ] /\ \A x \in RunKeys \ { k } : run'[x] = run[x]
    BY <1>3, <1>4, <1>7 DEF IInv, TypeOK
  <2>2. QED
    BY <1>2, <1>3, <1>4, <1>5, <2>1 DEF Own, IInv, TypeOK
<1>9. Settled(q, k)'
  <2>1. RequestChecked(q)'
    BY <1>3, <1>4, <1>5, <1>7 DEF RequestChecked, Generating, Uncalled, InCall
  <2>2. run[k].month \in 1 .. month
    BY <1>3 DEF IInv, RunsInTime
  <2>3. QED
    BY <1>3, <1>4, <1>5, <1>7, <2>1, <2>2 DEF Settled, Generating
<1>10. ASSUME NEW s \in AllScopes, NEW m \in 1 .. month, (Spent(k, s, m) \/ MaySpend(q, k, s, m))'
       PROVE  Spent(k, s, m) \/ MaySpend(request[r], k, s, m)
  BY <1>2, <1>4, <1>5, <1>7, <1>10 DEF Spent, MaySpend
<1>11. QED
  BY <1>3, <1>5, <1>8, <1>9, <1>10, OwnStep, OwnLoad

\* The end of the candidate, READY if its run is completed.
LEMMA EndCandidateStep ==
  ASSUME IInv, NEW r \in Requests, ReadyCandidate(r) \/ FailCandidate(r)
  PROVE  IInv'
<1> USE DEF At, Set
<1>1. request[r].phase \in Working /\ request[r].phase \in { "completed", "unfinished" }
  BY DEF ReadyCandidate, FailCandidate, Working
<1>2. PICK k : k = request[r].key
  OBVIOUS
<1>3. /\ request[r].op = "generate" /\ k \in Keys /\ k \in RunKeys
      /\ \A t \in Requests \ { r } : request[t].key # k
      /\ request[r].phase = "completed" => run[k].status = "COMPLETED"
      /\ request[r].phase = "unfinished" => run[k].status # "RUNNING" \/ k \in abandoned
  <2>1. RequestChecked(request[r]) /\ request[r].op \in { "generate", "test" }
    BY <1>1, KeyOwned DEF Working
  <2>2. request[r].op = "generate"
    BY <1>1, <2>1 DEF RequestChecked, InCall
  <2>3. QED
    BY <1>1, <1>2, <2>1, <2>2, KeyOwned DEF RequestChecked, Working
<1>4. PICK status \in { "READY", "FAILED" } :
        /\ candidate' = [ candidate EXCEPT ![k] = status ]
        /\ status = "READY" => request[r].phase = "completed"
        /\ status = "FAILED" => request[r].phase = "unfinished"
        /\ request' = [ request EXCEPT ![r] = NoRequest ]
        /\ UNCHANGED <<outside, configuration, run, month, abandoned>>
  BY <1>2 DEF ReadyCandidate, FailCandidate, Finish
<1>5. PICK q : q = NoRequest
  OBVIOUS
<1>6. q \in Request /\ q.op = "none" /\ q.phase = "idle" /\ q.key = NoKey
  BY <1>5, IdleChecked DEF NoRequest
<1>7. candidate'[k] = status /\ status \in CandidateStatus
  BY <1>3, <1>4 DEF IInv, TypeOK, CandidateStatus
<1>8. Own(r, q, k)
  BY <1>2, <1>3, <1>4, <1>5, <1>6, <1>7 DEF Own, IInv, TypeOK
<1>9. Settled(q, k)'
  <2>1. RequestChecked(q)'
    BY <1>6 DEF RequestChecked, Uncalled, InCall
  <2>2. run[k].status # "NONE" => run[k].month \in 1 .. month
    BY <1>3 DEF IInv, RunsInTime
  <2>3. k \notin abandoned => run[k].status # "RUNNING"
    BY <1>1, <1>3
  <2>4. QED
    BY <1>3, <1>4, <1>7, <2>1, <2>2, <2>3 DEF Settled
<1>10. ASSUME NEW s \in AllScopes, NEW m \in 1 .. month, (Spent(k, s, m) \/ MaySpend(q, k, s, m))'
       PROVE  Spent(k, s, m) \/ MaySpend(request[r], k, s, m)
  BY <1>4, <1>6, <1>10 DEF Spent, MaySpend
<1>11. QED
  BY <1>3, <1>6, <1>8, <1>9, <1>10, OwnStep, OwnLoad

\* What cannot be written, or rendered, is remembered as abandoned or given up.
LEMMA FailureSteps ==
  ASSUME IInv, NEW r \in Requests, RenderFails(r) \/ DatabaseFails(r)
  PROVE  IInv'
<1> USE DEF At, Set
<1>1. PICK k : k = request[r].key
  OBVIOUS
<1>2. PICK q : q = NoRequest
  OBVIOUS
<1>3. q \in Request /\ q.op = "none" /\ q.phase = "idle" /\ q.key = NoKey
  BY <1>2, IdleChecked DEF NoRequest
<1>4. ASSUME request[r].phase \in Working, Finish(r), abandoned' = abandoned \cup { k },
             UNCHANGED <<outside, configuration, run, candidate, month>>
      PROVE  IInv'
  <2>1. RequestChecked(q)'
    BY <1>3 DEF RequestChecked, Uncalled, InCall
  <2>2. request' = [ request EXCEPT ![r] = q ]
    BY <1>2, <1>4 DEF Finish
  <2>3. QED
    BY <1>1, <1>3, <1>4, <2>1, <2>2, QuietStep
<1>5. CASE RenderFails(r)
  BY <1>1, <1>4, <1>5 DEF RenderFails, Working, Uncalled
<1>6. CASE DatabaseFails(r)
  <2>1. UNCHANGED <<outside, configuration, run, candidate, month>>
    BY <1>6 DEF DatabaseFails
  <2>2. CASE request[r].phase = "answered" /\ Goto(r, "failed") /\ UNCHANGED abandoned
    <3>1. request[r].phase \in Working
      BY <2>2 DEF Working, InCall
    <3>2. /\ request[r] \in Request /\ RequestChecked(request[r])
      BY <3>1, KeyOwned DEF Working
    <3>3. PICK p : p = [ request[r] EXCEPT !.phase = "failed" ]
      OBVIOUS
    <3>4. p \in Request /\ p.op = request[r].op /\ p.key = request[r].key /\ p.phase = "failed"
      BY <3>2, <3>3 DEF Request
    <3>5. request' = [ request EXCEPT ![r] = p ]
      BY <2>2, <3>3 DEF Goto
    <3>6. RequestChecked(p)
      BY <2>2, <3>2, <3>4 DEF RequestChecked, Generating, Uncalled, InCall
    <3>7. QED
      BY <2>1, <2>2, <3>1, <3>4, <3>5, <3>6, PhaseStep DEF onlyRequest, InCall
  <2>3. CASE /\ request[r].phase \in { "allowed", "completed" }
             /\ Throw(r) /\ UNCHANGED abandoned
    <3>1. request[r].phase \in Working
      BY <2>3 DEF Working, Uncalled
    <3>2. run[request[r].key].status # "RUNNING"
      BY <2>3, <3>1, KeyOwned DEF Working, RequestChecked, Uncalled
    <3>3. QED
      BY <2>1, <2>3, <3>1, <3>2, ThrowStep
  <2>4. CASE /\ request[r].phase = "failed" /\ Throw(r)
             /\ abandoned' = abandoned \cup { request[r].key }
    <3>1. request[r].phase \in Working
      BY <2>4 DEF Working, InCall
    <3>2. QED
      BY <2>1, <2>4, <3>1, ThrowStep
  <2>5. CASE /\ request[r].phase = "unfinished" /\ Finish(r)
             /\ abandoned' = abandoned \cup { request[r].key }
    BY <1>1, <1>4, <2>1, <2>5 DEF Working
  <2>6. QED
    BY <1>6, <2>2, <2>3, <2>4, <2>5 DEF DatabaseFails
<1>7. QED
  BY <1>5, <1>6

\* A generation begins with a key that has no candidate, so that nobody works on it.
LEMMA InsertStep ==
  ASSUME IInv, NEW r \in Requests, NEW k \in Keys, NEW p \in Profiles, InsertCandidate(r, k, p)
  PROVE  IInv'
<1>1. /\ request[r] = NoRequest /\ candidate[k] = "NONE"
      /\ candidate' = [ candidate EXCEPT ![k] = "PENDING" ]
      /\ UNCHANGED <<outside, configuration, run, month, abandoned>>
  BY DEF InsertCandidate
<1>2. PICK q : q = [ NoRequest EXCEPT !.op = "generate", !.phase = "prompt", !.key = k, !.profile = p ]
  OBVIOUS
<1>3. /\ q.op = "generate" /\ q.phase = "prompt" /\ q.key = k /\ q.profile = p
      /\ q \in Request /\ request' = [ request EXCEPT ![r] = q ]
  BY <1>2 DEF InsertCandidate, Set, NoRequest, Request, RunKeys, Changes
<1>4. k \in RunKeys /\ k # NoKey
  BY AiAssumption DEF RunKeys
<1>5. \A t \in Requests : request[t].key # k
  <2>1. ASSUME NEW t \in Requests, request[t].key = k PROVE FALSE
    <3>1. request[t] \in Request /\ RequestChecked(request[t])
      BY DEF IInv, TypeOK, RequestSound
    <3>2. request[t].op = "generate"
      BY <1>4, <2>1, <3>1, AiAssumption DEF RequestChecked, Request
    <3>3. QED
      BY <1>1, <2>1, <3>1, <3>2 DEF RequestChecked
  <2>2. QED
    BY <2>1
<1>6. run[k].status = "NONE"
  BY <1>1, <1>5 DEF IInv, UnbegunRuns
<1>7. candidate'[k] = "PENDING"
  BY <1>1 DEF IInv, TypeOK
<1>8. Own(r, q, k)
  BY <1>1, <1>3, <1>5, <1>7 DEF Own, IInv, TypeOK, CandidateStatus, NoRequest
<1>9. Settled(q, k)'
  BY <1>1, <1>3, <1>6, <1>7 DEF Settled, RequestChecked, Generating, Uncalled, InCall
<1>10. ASSUME NEW s \in AllScopes, NEW m \in 1 .. month, (Spent(k, s, m) \/ MaySpend(q, k, s, m))'
       PROVE  Spent(k, s, m) \/ MaySpend(request[r], k, s, m)
  BY <1>1, <1>3, <1>10 DEF Spent, MaySpend
<1>11. QED
  BY <1>3, <1>4, <1>8, <1>9, <1>10, OwnStep, OwnLoad

LEMMA BeginTestStep ==
  ASSUME IInv, NEW r \in Requests, NEW k \in Probes, NEW s \in Scopes, BeginTest(r, k, s)
  PROVE  IInv'
<1>1. /\ request[r] = NoRequest /\ onlyRequest /\ run[k].status = "NONE"
      /\ \A t \in Requests : request[t].key # k
  BY DEF BeginTest
<1>2. s \in AllScopes /\ configuration[s].credential \in Nat
  BY AiAssumption DEF IInv, TypeOK, Configuration
<1>3. PICK q : q = [ NoRequest EXCEPT !.op = "test", !.phase = "loaded", !.key = k, !.scope = s,
                                      !.credential = configuration[s].credential ]
  OBVIOUS
<1>4. /\ q.op = "test" /\ q.phase = "loaded" /\ q.key = k /\ q.scope = s
      /\ request' = [ request EXCEPT ![r] = q ]
  BY <1>3 DEF BeginTest, Set, NoRequest
<1>5. q \in Request
  BY <1>2, <1>3 DEF NoRequest, Request, RunKeys, Changes
<1>6. k \in RunKeys /\ k \notin Keys
  BY AiAssumption DEF RunKeys
<1>7. Own(r, q, k)
  BY <1>1, <1>4, <1>6 DEF Own, onlyRequest, IInv, TypeOK, NoRequest
<1>8. Settled(q, k)'
  BY <1>1, <1>2, <1>4, <1>6
  DEF Settled, RequestChecked, onlyRequest, Uncalled, InCall
<1>9. ASSUME NEW u \in AllScopes, NEW m \in 1 .. month, (Spent(k, u, m) \/ MaySpend(q, k, u, m))'
      PROVE  Spent(k, u, m) \/ MaySpend(request[r], k, u, m)
  BY <1>1, <1>4, <1>9 DEF Spent, MaySpend, onlyRequest
<1>10. QED
  BY <1>5, <1>6, <1>7, <1>8, <1>9, OwnStep, OwnLoad

-----------------------------------------------------------------------------
(* Steps that concern no key *)

\* A step that leaves runs, candidates and the requests with a key alone.
LEMMA KeylessStep ==
  ASSUME IInv, UNCHANGED <<run, candidate, month, abandoned>>,
         SitesTypeOK', OneDefault', siteSteps' \in Nat,
         configuration' \in [ AllScopes -> Configuration ],
         request' \in [ Requests -> Request ], RequestSound',
         \A t \in Requests : request'[t] # request[t] =>
           request[t].key = NoKey /\ request'[t].key = NoKey
  PROVE  IInv'
<1> USE NoKeyApart
<1>1. \A t \in Requests, k \in RunKeys :
        (request[t].key = k \/ request'[t].key = k) => request'[t] = request[t]
  OBVIOUS
<1>2. TypeOK'
  BY DEF IInv, TypeOK
<1>3. KeysApart'
  BY DEF IInv, KeysApart
<1>4. \A k \in RunKeys : \A phases : Held(k, phases)' <=> Held(k, phases)
  BY <1>1 DEF Held
<1>5. InProgressHasOwner'
  BY <1>4 DEF IInv, InProgressHasOwner
<1>6. OutcomesAgree' /\ UnbegunRuns' /\ MonthPositive' /\ RunsInTime'
  BY DEF IInv, OutcomesAgree, UnbegunRuns, MonthPositive, RunsInTime
<1>7. LimitKept'
  <2>1. ASSUME NEW s \in AllScopes, NEW m \in 1 .. month PROVE Load(s, m)' = Load(s, m)
    <3>1. \A k \in RunKeys, t \in Requests :
            MaySpend(request[t], k, s, m)' <=> MaySpend(request[t], k, s, m)
      BY <1>1 DEF MaySpend
    <3>2. QED
      BY <3>1 DEF Load, Spent
  <2>2. QED
    BY <2>1 DEF IInv, LimitKept, Excess
<1>8. QED
  BY <1>2, <1>3, <1>5, <1>6, <1>7 DEF IInv

LEMMA BeginUpsertStep ==
  ASSUME IInv, NEW r \in Requests, NEW s \in Scopes, NEW change \in Changes,
         BeginUpsert(r, s, change)
  PROVE  IInv'
<1>1. request[r] = NoRequest /\ onlyRequest
  BY DEF BeginUpsert
<1>2. s \in AllScopes /\ configuration[s].credential \in Nat /\ configuration[s].version \in Nat
  BY AiAssumption DEF IInv, TypeOK, Configuration
<1>3. PICK q : q = [ NoRequest EXCEPT !.op = "upsert", !.phase = "write", !.scope = s,
                        !.change = change, !.version = configuration[s].version,
                        !.credential = configuration[s].credential ]
  OBVIOUS
<1>4. /\ q.op = "upsert" /\ q.phase = "write" /\ q.key = NoKey /\ q.scope = s
      /\ q.version = configuration[s].version /\ q.credential = configuration[s].credential
  BY <1>3 DEF NoRequest
<1>5. q \in Request
  BY <1>2, <1>3 DEF NoRequest, Request
<1>6. request' = [ request EXCEPT ![r] = q ]
  BY <1>3 DEF BeginUpsert, Set
<1>7. \A t \in Requests : request'[t] = IF t = r THEN q ELSE request[t]
  BY <1>6 DEF IInv, TypeOK
<1>8. request' \in [ Requests -> Request ]
  BY <1>5, <1>6 DEF IInv, TypeOK
<1>9. RequestChecked(q)
  BY <1>2, <1>4 DEF RequestChecked, Uncalled, InCall
<1>10. RequestSound'
  BY <1>1, <1>7, <1>9 DEF IInv, RequestSound, RequestChecked, onlyRequest
<1>11. SitesTypeOK' /\ OneDefault' /\ siteSteps' \in Nat
  BY <1>1 DEF IInv, TypeOK, SitesTypeOK, OneDefault, onlyRequest, outside, siteVars
<1>12. UNCHANGED <<run, candidate, month, abandoned>>
       /\ configuration' \in [ AllScopes -> Configuration ]
  BY <1>1 DEF IInv, TypeOK, onlyRequest
<1>13. \A t \in Requests : request'[t] # request[t] =>
         request[t].key = NoKey /\ request'[t].key = NoKey
  BY <1>1, <1>4, <1>7 DEF NoRequest
<1>14. QED
  BY <1>8, <1>10, <1>11, <1>12, <1>13, KeylessStep

\* A write makes a new version, so that what other updates have read is an older one.
LEMMA WriteStep ==
  ASSUME IInv, NEW r \in Requests, NEW enabled \in BOOLEAN, WriteConfiguration(r, enabled)
  PROVE  IInv'
<1>1. request[r] \in Request /\ RequestChecked(request[r]) /\ request[r].phase = "write"
  BY DEF IInv, TypeOK, RequestSound, WriteConfiguration, At
<1>2. request[r].op = "upsert" /\ request[r].key = NoKey /\ request[r].scope \in AllScopes
  BY <1>1 DEF RequestChecked, Request, Generating, Uncalled, InCall
<1>3. PICK s : s = request[r].scope
  OBVIOUS
<1>4. configuration[s] \in Configuration
  BY <1>2, <1>3 DEF IInv, TypeOK
<1>5. CredentialAfter(request[r]) \in Nat
  BY <1>1, <1>3, <1>4 DEF CredentialAfter, Configuration, Request
<1>6. PICK new : new = [ version |-> configuration[s].version + 1, enabled |-> enabled,
                         credential |-> CredentialAfter(request[r]) ]
  OBVIOUS
<1>7. new \in Configuration /\ new.version = configuration[s].version + 1
  BY <1>4, <1>5, <1>6 DEF Configuration
<1>8. /\ configuration' = [ configuration EXCEPT ![s] = new ]
      /\ request' = [ request EXCEPT ![r] = NoRequest ]
      /\ UNCHANGED <<outside, run, candidate, month, abandoned>>
  BY <1>3, <1>6 DEF WriteConfiguration, Finish, Set
<1>9. configuration' \in [ AllScopes -> Configuration ]
  BY <1>7, <1>8 DEF IInv, TypeOK
<1>10. \A u \in AllScopes : configuration'[u] = IF u = s THEN new ELSE configuration[u]
  BY <1>8 DEF IInv, TypeOK
<1>11. \A t \in Requests : request'[t] = IF t = r THEN NoRequest ELSE request[t]
  BY <1>8 DEF IInv, TypeOK
<1>12. request' \in [ Requests -> Request ]
  BY <1>8, IdleChecked DEF IInv, TypeOK
<1>13. RequestSound'
  <2>1. RequestChecked(NoRequest)'
    BY DEF NoRequest, RequestChecked, Uncalled, InCall
  <2>2. ASSUME NEW t \in Requests, t # r PROVE RequestChecked(request[t])'
    <3>1. PICK p : p = request[t]
      OBVIOUS
    <3>2. request'[t] = p /\ RequestChecked(p) /\ p \in Request
      BY <1>11, <2>2, <3>1 DEF IInv, RequestSound, TypeOK
    <3>3. p.op = "upsert" =>
            /\ p.version <= configuration'[p.scope].version
            /\ p.version = configuration'[p.scope].version =>
                 p.credential = configuration'[p.scope].credential
      <4>1. CASE p.op = "upsert" /\ p.scope = s
        <5>1. p.version <= configuration[s].version
          BY <3>2, <4>1 DEF RequestChecked
        <5>2. configuration'[s].version = configuration[s].version + 1
          BY <1>2, <1>3, <1>7, <1>10
        <5>3. p.version \in Nat /\ configuration[s].version \in Nat
          BY <3>2, <1>4 DEF Request, Configuration
        <5>4. QED
          BY <4>1, <5>1, <5>2, <5>3
      <4>2. CASE p.op = "upsert" /\ p.scope # s
        BY <1>10, <3>2, <4>2 DEF RequestChecked
      <4>3. QED
        BY <4>1, <4>2
    <3>4. RequestChecked(p)'
      BY <1>8, <3>2, <3>3 DEF RequestChecked
    <3>5. QED
      BY <3>2, <3>4
  <2>3. QED
    BY <1>11, <2>1, <2>2 DEF RequestSound
<1>14. SitesTypeOK' /\ OneDefault' /\ siteSteps' \in Nat
  BY <1>8 DEF IInv, TypeOK, SitesTypeOK, OneDefault, outside, siteVars
<1>15. \A t \in Requests : request'[t] # request[t] =>
         request[t].key = NoKey /\ request'[t].key = NoKey
  BY <1>2, <1>11 DEF NoRequest
<1>16. UNCHANGED <<run, candidate, month, abandoned>>
  BY <1>8
<1>17. QED
  BY <1>9, <1>12, <1>13, <1>14, <1>15, <1>16, KeylessStep

LEMMA SiteStepKept ==
  ASSUME IInv, SiteStep
  PROVE  IInv'
<1>1. SitesTypeOK' /\ OneDefault'
  BY SitesNextInv DEF SiteStep, IInv, TypeOK, SitesInv
<1>2. UNCHANGED aiVars /\ siteSteps' \in Nat
  BY DEF SiteStep, IInv, TypeOK
<1>3. RequestSound'
  BY <1>2 DEF aiVars, IInv, RequestSound, RequestChecked
<1>4. UNCHANGED <<run, candidate, month, abandoned>> /\ UNCHANGED request
      /\ configuration' \in [ AllScopes -> Configuration ]
      /\ request' \in [ Requests -> Request ]
  BY <1>2 DEF aiVars, IInv, TypeOK
<1>5. QED
  BY <1>1, <1>2, <1>3, <1>4, KeylessStep

\* In a new month no run counts yet, only those that have passed the check.
LEMMA NextMonthStep ==
  ASSUME IInv, NextMonth
  PROVE  IInv'
<1>1. /\ month' = month + 1 /\ month \in Nat
      /\ UNCHANGED <<outside, configuration, run, candidate, request, abandoned>>
  BY DEF NextMonth, IInv, TypeOK
<1>2. TypeOK' /\ OneDefault'
  BY <1>1 DEF IInv, TypeOK, SitesTypeOK, OneDefault, outside, siteVars
<1>3. RequestSound'
  BY <1>1 DEF IInv, RequestSound, RequestChecked
<1>4. KeysApart' /\ OutcomesAgree' /\ UnbegunRuns'
  BY <1>1 DEF IInv, KeysApart, OutcomesAgree, UnbegunRuns
<1>5. InProgressHasOwner'
  BY <1>1 DEF IInv, InProgressHasOwner, Held
<1>6. MonthPositive' /\ RunsInTime'
  BY <1>1 DEF IInv, MonthPositive, RunsInTime, TypeOK, Run
<1>7. LimitKept'
  <2>1. SUFFICES ASSUME NEW s \in AllScopes, NEW m \in 1 .. month'
                 PROVE  Load(s, m)' = {} \/ Tokens * Cardinality(Load(s, m)') < Excess
    BY DEF LimitKept, Excess
  <2>2. CASE m \in 1 .. month
    <3>1. \A k \in RunKeys : Spent(k, s, m)' => Spent(k, s, m)
      BY <1>1 DEF Spent
    <3>2. \A k \in RunKeys, t \in Requests :
            MaySpend(request[t], k, s, m)' => MaySpend(request[t], k, s, m)
      BY <1>1, <2>2 DEF MaySpend
    <3>3. Load(s, m)' \subseteq Load(s, m) /\ Load(s, m) \in SUBSET RunKeys
      BY <3>1, <3>2 DEF Load
    <3>4. Load(s, m) = {} \/ Tokens * Cardinality(Load(s, m)) < Excess
      BY <2>2 DEF IInv, LimitKept
    <3>5. QED
      BY <3>3, <3>4, SmallerLoad
  <2>3. CASE m \notin 1 .. month
    <3>1. ASSUME NEW k \in Load(s, m)'
          PROVE  k \in HeldKeys /\ MonthlyLimit > 0
      <4>1. k \in RunKeys
        BY <3>1 DEF Load
      <4>2. run[k].status # "NONE" => run[k].month # m
        BY <2>3, <4>1 DEF IInv, RunsInTime
      <4>3. ~ Spent(k, s, m)'
        BY <1>1, <4>2 DEF Spent
      <4>4. PICK t \in Requests : MaySpend(request[t], k, s, m)'
        BY <3>1, <4>3 DEF Load
      <4>5. RequestChecked(request[t]) /\ request[t].key = k
        BY <1>1, <4>4 DEF IInv, RequestSound, MaySpend
      <4>6. request[t].phase = "allowed" /\ request[t].scope = s
        BY <1>1, <4>2, <4>4, <4>5 DEF MaySpend, RequestChecked, InCall
      <4>7. QED
        BY <4>1, <4>5, <4>6, AiAssumption DEF RequestChecked, HeldKeys
    <3>2. CASE Load(s, m)' = {}
      BY <3>2
    <3>3. CASE Load(s, m)' # {}
      <4>1. Load(s, m)' \subseteq HeldKeys /\ MonthlyLimit > 0
        BY <3>1, <3>3
      <4> DEFINE a == Cardinality(Load(s, m)')
                 c == Cardinality(Requests)
      <4>2. a \in Nat /\ c \in Nat /\ a <= c
        BY <4>1, HeldKeysCounted, FS_Subset, FS_CardinalityType, AiAssumption
      <4> HIDE DEF a, c
      <4>3. Tokens * a <= Tokens * c
        BY <4>2, CostGrows
      <4>4. Tokens * a \in Nat /\ Tokens * c \in Nat
        BY <4>2, AiAssumption
      <4>5. Tokens * a < MonthlyLimit + Tokens * c
        BY <4>1, <4>3, <4>4, AiAssumption
      <4>6. QED
        BY <4>5 DEF a, c, Excess
    <3>4. QED
      BY <3>2, <3>3
  <2>4. QED
    BY <2>2, <2>3
<1>8. QED
  BY <1>2, <1>3, <1>4, <1>5, <1>6, <1>7 DEF IInv

\* What is in progress when the process dies is abandoned.
LEMMA CrashStep ==
  ASSUME IInv, Crash
  PROVE  IInv'
<1>1. /\ abandoned' = abandoned \cup { k \in RunKeys : InProgress(k) }
      /\ request' = [ t \in Requests |-> NoRequest ]
      /\ siteRequest' = [ t \in SiteRequests |-> NoSiteRequest ]
      /\ UNCHANGED <<website, profile, siteSteps, configuration, run, candidate, month>>
  BY DEF Crash
<1>2. request' \in [ Requests -> Request ] /\ \A t \in Requests : request'[t] = NoRequest
  BY <1>1, IdleChecked
<1>3. SitesTypeOK'
  BY <1>1, IdleSiteRequest DEF IInv, TypeOK, SitesTypeOK, NoSiteRequest
<1>4. TypeOK' /\ OneDefault'
  BY <1>1, <1>2, <1>3 DEF IInv, TypeOK, OneDefault
<1>5. RequestSound'
  BY <1>2 DEF RequestSound, RequestChecked, NoRequest, Uncalled, InCall
<1>6. KeysApart'
  BY <1>2 DEF KeysApart, NoRequest
<1>7. InProgressHasOwner'
  BY <1>1 DEF InProgressHasOwner, InProgress
<1>8. OutcomesAgree' /\ UnbegunRuns' /\ MonthPositive' /\ RunsInTime'
  BY <1>1 DEF IInv, OutcomesAgree, UnbegunRuns, MonthPositive, RunsInTime
<1>9. LimitKept'
  <2>1. SUFFICES ASSUME NEW s \in AllScopes, NEW m \in 1 .. month
                 PROVE  Load(s, m)' = {} \/ Tokens * Cardinality(Load(s, m)') < Excess
    BY <1>1 DEF LimitKept, Excess
  <2>2. \A k \in RunKeys, t \in Requests : ~ MaySpend(request[t], k, s, m)'
    BY <1>2, NoKeyApart DEF MaySpend, NoRequest
  <2>3. \A k \in RunKeys : Spent(k, s, m)' => Spent(k, s, m)
    BY <1>1 DEF Spent
  <2>4. Load(s, m)' \subseteq Load(s, m) /\ Load(s, m) \in SUBSET RunKeys
    BY <2>2, <2>3 DEF Load
  <2>5. Load(s, m) = {} \/ Tokens * Cardinality(Load(s, m)) < Excess
    BY DEF IInv, LimitKept
  <2>6. QED
    BY <2>4, <2>5, SmallerLoad
<1>10. QED
  BY <1>4, <1>5, <1>6, <1>7, <1>8, <1>9 DEF IInv

-----------------------------------------------------------------------------
(* The theorems *)

LEMMA InitInv == Init => IInv
<1> SUFFICES ASSUME Init PROVE IInv
  OBVIOUS
<1>1. TypeOK /\ OneDefault
  BY SitesInitInv, IdleChecked
  DEF Init, TypeOK, SitesInv, Configuration, Run, CandidateStatus
<1>2. RequestSound /\ KeysApart
  BY DEF Init, RequestSound, KeysApart, RequestChecked, NoRequest, Uncalled, InCall
<1>3. InProgressHasOwner /\ OutcomesAgree /\ UnbegunRuns
  BY DEF Init, InProgressHasOwner, OutcomesAgree, UnbegunRuns, RunKeys
<1>4. MonthPositive /\ RunsInTime
  BY DEF Init, MonthPositive, RunsInTime
<1>5. LimitKept
  <2>1. ASSUME NEW s \in AllScopes, NEW m \in 1 .. month PROVE Load(s, m) = {}
    BY NoKeyApart DEF Init, Load, Spent, MaySpend, NoRequest
  <2>2. QED
    BY <2>1 DEF LimitKept
<1>6. QED
  BY <1>1, <1>2, <1>3, <1>4, <1>5 DEF IInv

LEMMA NextInv == IInv /\ [Next]_vars => IInv'
<1> SUFFICES ASSUME IInv, [Next]_vars PROVE IInv'
  OBVIOUS
<1>1. CASE SiteStep \/ NextMonth \/ Crash
  BY <1>1, SiteStepKept, NextMonthStep, CrashStep
<1>2. ASSUME NEW r \in Requests,
             \/ \E s \in Scopes, change \in Changes : BeginUpsert(r, s, change)
             \/ \E enabled \in BOOLEAN : WriteConfiguration(r, enabled)
             \/ \E k \in Keys, p \in Profiles : InsertCandidate(r, k, p)
             \/ \E k \in Probes, s \in Scopes : BeginTest(r, k, s)
      PROVE  IInv'
  BY <1>2, BeginUpsertStep, WriteStep, InsertStep, BeginTestStep
<1>3. ASSUME NEW r \in Requests,
             \/ resolve(r) \/ findConfiguration(r) \/ CredentialUnavailable(r)
             \/ enforceMonthlyLimit(r) \/ RenderFails(r) \/ DatabaseFails(r)
      PROVE  IInv'
  BY <1>3, ReadSteps, LimitStep, FailureSteps
<1>4. ASSUME NEW r \in Requests,
             \/ CreateRun(r)
             \/ \E valid \in BOOLEAN : Answer(r, valid)
             \/ \E retryable \in BOOLEAN : CallFails(r, retryable)
             \/ CompleteRun(r) \/ FailRun(r)
             \/ ReadyCandidate(r) \/ FailCandidate(r)
      PROVE  IInv'
  BY <1>4, CreateRunStep, CallSteps, EndRunStep, EndCandidateStep
<1>5. CASE UNCHANGED vars
  <2>1. UNCHANGED aiVars /\ UNCHANGED siteVars /\ siteSteps' = siteSteps
    BY <1>5 DEF vars, outside
  <2>2. SitesTypeOK' /\ OneDefault' /\ siteSteps' \in Nat
    BY <2>1 DEF IInv, TypeOK, SitesTypeOK, OneDefault, siteVars
  <2>3. RequestSound'
    BY <2>1 DEF aiVars, IInv, RequestSound, RequestChecked
  <2>4. UNCHANGED <<run, candidate, month, abandoned>> /\ UNCHANGED request
        /\ configuration' \in [ AllScopes -> Configuration ]
        /\ request' \in [ Requests -> Request ]
    BY <2>1 DEF aiVars, IInv, TypeOK
  <2>5. QED
    BY <2>2, <2>3, <2>4, KeylessStep
<1>6. QED
  BY <1>1, <1>2, <1>3, <1>4, <1>5 DEF Next

\* Rows and requests have the fields and statuses of the schema.
THEOREM AiTypesCorrect == Spec => []TypeOK
<1>1. IInv => TypeOK
  BY DEF IInv
<1>2. QED
  BY <1>1, InitInv, NextInv, PTL DEF Spec

\* enforceMonthlyLimit is passed by every request in flight at once, and by no more: the
\* limit of a month is exceeded by less than one run for each of them, whatever fails.
THEOREM UsageBoundedAlways == Spec => []UsageBounded
<1>1. IInv => UsageBounded
  <2> SUFFICES ASSUME IInv, NEW s \in Scopes, NEW m \in 1 .. month
               PROVE  Usage(s, m) < Excess
    BY DEF UsageBounded, Excess
  <2> DEFINE Done == { k \in RunKeys :
                 run[k].status = "COMPLETED" /\ run[k].scope = s /\ run[k].month = m }
  <2>1. Done \subseteq Load(s, m) /\ Load(s, m) \in SUBSET RunKeys
    BY DEF Load, Spent
  <2>2. s \in AllScopes
    BY AiAssumption
  <2>3. Load(s, m) = {} \/ Tokens * Cardinality(Load(s, m)) < Excess
    BY <2>2 DEF IInv, LimitKept
  <2>4. Done = {} \/ Tokens * Cardinality(Done) < Excess
    BY <2>1, <2>3, SmallerLoad
  <2>5. Excess > 0
    <3>1. Cardinality(Requests) \in Nat \ {0}
      BY FS_CardinalityType, FS_EmptySet, AiAssumption
    <3>2. Tokens * Cardinality(Requests) \in Nat \ {0}
      BY <3>1, AiAssumption
    <3>3. QED
      BY <3>2, AiAssumption DEF Excess
  <2>6. Done = {} => Tokens * Cardinality(Done) = 0
    <3>1. Tokens * 0 = 0
      BY AiAssumption
    <3> HIDE DEF Done
    <3>2. QED
      BY <3>1, FS_EmptySet
  <2>7. QED
    BY <2>4, <2>5, <2>6 DEF Usage
<1>2. QED
  BY <1>1, InitInv, NextInv, PTL DEF Spec

\* A RUNNING run or a PENDING candidate has a handler, or a handler that could not finish.
THEOREM InProgressHasOwnerAlways == Spec => []InProgressHasOwner
<1>1. IInv => InProgressHasOwner
  BY DEF IInv
<1>2. QED
  BY <1>1, InitInv, NextInv, PTL DEF Spec

\* The candidate and its run never tell different stories.
THEOREM OutcomesAgreeAlways == Spec => []OutcomesAgree
<1>1. IInv => OutcomesAgree
  BY DEF IInv
<1>2. QED
  BY <1>1, InitInv, NextInv, PTL DEF Spec

LEMMA CredentialStep ==
  ASSUME IInv, Next, NEW s \in Scopes,
         configuration'[s].credential # configuration[s].credential
  PROVE  \E r \in Requests :
           /\ request[r].op = "upsert" /\ request[r].scope = s /\ request'[r] = NoRequest
           /\ \/ request[r].change # "keep"
              \/ request[r].version # configuration[s].version
<1>1. PICK r \in Requests, enabled \in BOOLEAN : WriteConfiguration(r, enabled)
  BY DEF Next, SiteStep, aiVars, BeginUpsert, InsertCandidate, RenderFails, resolve,
     findConfiguration, BeginTest, enforceMonthlyLimit, CredentialUnavailable, CreateRun, Answer,
     CallFails, CompleteRun, FailRun, ReadyCandidate, FailCandidate, DatabaseFails, NextMonth,
     Crash, onlyRequest
<1>2. request[r] \in Request /\ RequestChecked(request[r]) /\ request[r].phase = "write"
  BY <1>1 DEF IInv, TypeOK, RequestSound, WriteConfiguration, At
<1>3. request[r].op = "upsert" /\ request[r].scope \in AllScopes
  BY <1>2 DEF RequestChecked, Request, Generating, Uncalled, InCall
<1>4. request'[r] = NoRequest
  BY <1>1 DEF WriteConfiguration, Finish, Set, IInv, TypeOK
<1>5. s \in AllScopes
  BY AiAssumption
<1>6. request[r].scope = s /\ configuration'[s].credential = CredentialAfter(request[r])
  BY <1>1, <1>3, <1>5 DEF WriteConfiguration, IInv, TypeOK
<1>7. request[r].change = "keep" => CredentialAfter(request[r]) = request[r].credential
  BY DEF CredentialAfter
<1>8. request[r].change # "keep" \/ request[r].version # configuration[s].version
  BY <1>2, <1>3, <1>6, <1>7 DEF RequestChecked
<1>9. QED
  BY <1>3, <1>4, <1>6, <1>8

\* upsertConfiguration keeps the credential it has read: one that was changed meanwhile is
\* the only one that a write without a credential can change.
THEOREM CredentialKeptAlways == Spec => CredentialKept
<1>1. IInv /\ [Next]_vars =>
        [ \A s \in Scopes : configuration'[s].credential # configuration[s].credential =>
            \E r \in Requests :
              /\ request[r].op = "upsert" /\ request[r].scope = s /\ request'[r] = NoRequest
              /\ \/ request[r].change # "keep"
                 \/ request[r].version # configuration[s].version ]_vars
  BY CredentialStep
<1>2. QED
  BY <1>1, InitInv, NextInv, PTL DEF Spec, CredentialKept
=============================================================================
