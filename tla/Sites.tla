--------------------------------- MODULE Sites ---------------------------------
(***************************************************************************)
(* A website and its content profiles: WebsitesService and                 *)
(* ContentProfilesService.                                                 *)
(*                                                                         *)
(* A handler that looks at a row before it writes is two steps with other  *)
(* requests between them: Begin... and the write.  Where it only looks     *)
(* whether the row is there, one step is enough: a profile is never        *)
(* removed.  A website is not either, but it may be marked as deleted.     *)
(*                                                                         *)
(* Abstractions: texts, slugs and names are left out, and with them the    *)
(* conflicts, which are refused before anything is written or undo the     *)
(* transaction; a refused check changes nothing and is no action.          *)
(***************************************************************************)
EXTENDS Naturals

CONSTANTS
  Profiles,     \* content profiles the website may come to have
  SiteRequests, \* updates of the website and the profiles in flight
  NoProfile

ASSUME SitesAssumption == NoProfile \notin Profiles

VARIABLES
  website,      \* the websites row
  profile,      \* the content_profiles rows
  siteRequest   \* what each request in flight has checked

siteVars == <<website, profile, siteRequest>>

WebsiteStatus == { "DRAFT", "ACTIVE", "INACTIVE" }
ContentProfileStatus == { "ACTIVE", "INACTIVE" }

Website == [ status : WebsiteStatus \cup { "NONE" }, deleted : BOOLEAN ]
ContentProfile == [ status : ContentProfileStatus \cup { "NONE" }, isDefault : BOOLEAN ]
SiteRequest ==
  [ op : { "idle", "update", "create", "setDefault" }, profile : Profiles \cup {NoProfile} ]

NoSiteRequest == [ op |-> "idle", profile |-> NoProfile ]

SitesTypeOK ==
  /\ website \in Website
  /\ profile \in [ Profiles -> ContentProfile ]
  /\ siteRequest \in [ SiteRequests -> SiteRequest ]
  /\ \A r \in SiteRequests :
       siteRequest[r].op \in { "create", "setDefault" } => siteRequest[r].profile \in Profiles

\* Nothing, or what seed.ts leaves: a draft website with a default profile.
seed(seeded) ==
  /\ website = [ status |-> IF seeded = {} THEN "NONE" ELSE "DRAFT", deleted |-> FALSE ]
  /\ profile = [ p \in Profiles |-> [ status |-> IF p \in seeded THEN "ACTIVE" ELSE "NONE",
                                      isDefault |-> p \in seeded ] ]

SitesInit ==
  /\ \/ seed({})
     \/ \E p \in Profiles : seed({ p })
  /\ siteRequest = [ r \in SiteRequests |-> NoSiteRequest ]

\* find: there, and not marked as deleted.
requireWebsite == website.status # "NONE" /\ ~ website.deleted

Begin(r, op, p) ==
  /\ siteRequest[r] = NoSiteRequest
  /\ siteRequest' = [ siteRequest EXCEPT ![r] = [ op |-> op, profile |-> p ] ]
  /\ UNCHANGED <<website, profile>>

EndSiteRequest(r) == siteRequest' = [ siteRequest EXCEPT ![r] = NoSiteRequest ]

-----------------------------------------------------------------------------
(* The website *)

createWebsite(status) ==
  /\ website.status = "NONE"
  /\ website' = [ website EXCEPT !.status = status ]
  /\ UNCHANGED <<profile, siteRequest>>

BeginUpdateWebsite(r) == requireWebsite /\ Begin(r, "update", NoProfile)

\* The row is written by its id, deleted or not.
updateWebsite(r, status) ==
  /\ siteRequest[r].op = "update"
  /\ website' = [ website EXCEPT !.status = status ]
  /\ EndSiteRequest(r)
  /\ UNCHANGED profile

deactivateWebsite ==
  /\ requireWebsite
  /\ website' = [ status |-> "INACTIVE", deleted |-> TRUE ]
  /\ UNCHANGED <<profile, siteRequest>>

-----------------------------------------------------------------------------
(* The content profiles *)

Exists(p) == profile[p].status # "NONE"

\* updateMany: the default, whatever its status, is one no longer.
WithoutDefault == [ p \in Profiles |-> [ profile[p] EXCEPT !.isDefault = FALSE ] ]

BeginCreateProfile(r, p) ==
  /\ requireWebsite
  /\ ~ Exists(p)
  /\ Begin(r, "create", p)

\* Faulty variant: the default that was there is not cleared.
createKeepingDefault(r, isDefault) ==
  /\ siteRequest[r].op = "create"
  /\ ~ Exists(siteRequest[r].profile)
  /\ profile' = [ profile EXCEPT ![siteRequest[r].profile] =
                    [ status |-> "ACTIVE", isDefault |-> isDefault ] ]
  /\ EndSiteRequest(r)
  /\ UNCHANGED website

\* The name is unique: a create that was overtaken is undone.
createProfile(r, isDefault) ==
  LET p == siteRequest[r].profile IN
  /\ siteRequest[r].op = "create"
  /\ ~ Exists(p)
  /\ profile' = [ (IF isDefault THEN WithoutDefault ELSE profile) EXCEPT
                    ![p] = [ status |-> "ACTIVE", isDefault |-> isDefault ] ]
  /\ EndSiteRequest(r)
  /\ UNCHANGED website

\* Faulty variant: the profile stays the default.
updateStatusOnly(p, status) ==
  /\ Exists(p)
  /\ profile' = [ profile EXCEPT ![p].status = status ]
  /\ UNCHANGED <<website, siteRequest>>

\* A profile made inactive is not the default any more; one made active does not become it.
updateProfile(p, status) ==
  /\ Exists(p)
  /\ profile' = [ profile EXCEPT ![p] =
                    [ status |-> status, isDefault |-> @.isDefault /\ status = "ACTIVE" ] ]
  /\ UNCHANGED <<website, siteRequest>>

deactivateProfile(p) ==
  /\ Exists(p)
  /\ profile' = [ profile EXCEPT ![p] = [ status |-> "INACTIVE", isDefault |-> FALSE ] ]
  /\ UNCHANGED <<website, siteRequest>>

BeginSetDefault(r, p) ==
  /\ profile[p].status = "ACTIVE"
  /\ Begin(r, "setDefault", p)

setDefault(r) ==
  /\ siteRequest[r].op = "setDefault"
  /\ profile' = [ WithoutDefault EXCEPT ![siteRequest[r].profile].isDefault = TRUE ]
  /\ EndSiteRequest(r)
  /\ UNCHANGED website

\* A conflict, a failure or the end of the process: nothing is written.
AbortSiteRequest(r) ==
  /\ siteRequest[r] # NoSiteRequest
  /\ EndSiteRequest(r)
  /\ UNCHANGED <<website, profile>>

SitesNext ==
  \/ \E status \in WebsiteStatus : createWebsite(status)
  \/ deactivateWebsite
  \/ \E r \in SiteRequests :
       \/ BeginUpdateWebsite(r)
       \/ \E status \in WebsiteStatus : updateWebsite(r, status)
       \/ \E p \in Profiles : BeginCreateProfile(r, p) \/ BeginSetDefault(r, p)
       \/ \E isDefault \in BOOLEAN : createProfile(r, isDefault)
       \/ setDefault(r)
       \/ AbortSiteRequest(r)
  \/ \E p \in Profiles :
       \/ \E status \in ContentProfileStatus : updateProfile(p, status)
       \/ deactivateProfile(p)

SitesSpec == SitesInit /\ [][SitesNext]_siteVars

-----------------------------------------------------------------------------
(* Properties *)

\* A website never has two default profiles, not even when one of them is inactive, which
\* the index on active defaults would allow.
OneDefault ==
  \A p, q \in Profiles : profile[p].isDefault /\ profile[q].isDefault => p = q

InactiveDefault(p) == profile[p].status = "INACTIVE" /\ profile[p].isDefault

\* An inactive profile is never the default, unless it was deactivated after setDefault
\* had found it active and before its transaction.
InactiveDefaultHasCause ==
  [][ \A p \in Profiles : ~ InactiveDefault(p) /\ InactiveDefault(p)' =>
        \E r \in SiteRequests :
          siteRequest[r] = [ op |-> "setDefault", profile |-> p ]
            /\ siteRequest'[r] = NoSiteRequest ]_siteVars
=============================================================================
