------------------------------- MODULE WebEditor -------------------------------
(***************************************************************************)
(* The content editor of the web application (ContentEditorPage with its   *)
(* review and generation panels), open on one item in several browsers.    *)
(*                                                                         *)
(* A page shows what its query cache last brought and keeps a form that an *)
(* effect replaces whenever the data shown changes, which is not only when *)
(* there is a new version: what is known of the Blogger draft is recorded  *)
(* on the item without one.  A command is sent with the version shown;     *)
(* when its answer comes, the item is fetched anew and, after a save, the  *)
(* form is set to the answer.  Answers, refetches, renders and the user's  *)
(* typing interleave, on every page.                                       *)
(*                                                                         *)
(* Abstractions: a text is the set of the edits it contains, and the user  *)
(* only adds to it; publicationStatus and updatedAt are a count of their   *)
(* changes; the server is its version check and what a handoff writes      *)
(* (Editorial and ContentPublication have the rest); creation,             *)
(* permissions, lists and notices are left out.                            *)
(***************************************************************************)
EXTENDS Naturals

CONSTANTS
  Pages,        \* browsers with the editor open on the item
  Reviewers,    \* those whose user may also change the status, apply a draft or hand over
  Edits,        \* what the users may come to type
  MaxCommands,  \* bound: commands sent and drafts found missing
  MaxEvents,    \* bound: answers lost, fetches failed and windows focused
  MaxRecords    \* bound: no handoff is asked for, no draft missed, after so many on record

ASSUME EditorAssumption ==
  /\ Reviewers \subseteq Pages
  /\ MaxCommands \in Nat /\ MaxEvents \in Nat /\ MaxRecords \in Nat

VARIABLES
  latest,       \* the content item on the server
  cache,        \* the item in each page's query cache
  shown,        \* item.data as each page last rendered it
  form,         \* the text in each page's form
  broken,       \* whether the page shows an error in place of the editor
  fetch,        \* each page's GET of the item
  call,         \* each page's save and other command
  used,         \* the edits that have been typed
  commands, events,
  told,         \* history: the last version each page was told it made
  raced,        \* history: the pages whose save was followed by a write before it was done
  overwriters,  \* history: the pages whose accepted save dropped another's edit
  calm          \* history: what was typed with nothing going on, nor anything since

editorVars == <<latest, cache, shown, form, broken, fetch, call, used, commands, events,
          told, raced, overwriters, calm>>
histories == <<told, raced, overwriters, calm>>

\* stamp: how often publicationStatus and updatedAt have changed without a new version.
ServerItem == [ version : Nat \ { 0 }, text : SUBSET Edits, stamp : Nat ]
Commands == { "save", "act" }
Phase == { "idle", "sent", "handing", "stale", "saved", "refetching", "refetched" }
Call == [ phase : Phase, expected : Nat, text : SUBSET Edits ]
Fetch == [ phase : { "none", "asked", "answered" }, item : ServerItem ]

NoCall == [ phase |-> "idle", expected |-> 0, text |-> {} ]
FirstItem == [ version |-> 1, text |-> {}, stamp |-> 0 ]
NoFetch == [ phase |-> "none", item |-> FirstItem ]
Asked == [ phase |-> "asked", item |-> FirstItem ]

EditorTypeOK ==
  /\ latest \in ServerItem
  /\ cache \in [ Pages -> ServerItem ] /\ shown \in [ Pages -> ServerItem ]
  /\ form \in [ Pages -> SUBSET Edits ]
  /\ broken \in [ Pages -> BOOLEAN ]
  /\ fetch \in [ Pages -> Fetch ]
  /\ call \in [ Pages -> [ Commands -> Call ] ]
  /\ used \subseteq Edits
  /\ commands \in 0 .. MaxCommands /\ events \in 0 .. MaxEvents
  /\ told \in [ Pages -> Nat ]
  /\ raced \subseteq Pages /\ overwriters \subseteq Pages
  /\ calm \in [ Pages -> SUBSET Edits ]

\* Every page has loaded the first version.
EditorInit ==
  /\ latest = FirstItem
  /\ cache = [ p \in Pages |-> FirstItem ] /\ shown = cache
  /\ form = [ p \in Pages |-> {} ]
  /\ broken = [ p \in Pages |-> FALSE ]
  /\ fetch = [ p \in Pages |-> NoFetch ]
  /\ call = [ p \in Pages |-> [ c \in Commands |-> NoCall ] ]
  /\ used = {} /\ commands = 0 /\ events = 0
  /\ told = [ p \in Pages |-> 1 ] /\ raced = {} /\ overwriters = {}
  /\ calm = [ p \in Pages |-> {} ]

Pending(p, c) == call[p][c].phase \notin { "idle", "stale" }

\* Nothing is on its way to the page, and it shows what it last fetched.
Quiet(p) ==
  /\ \A c \in Commands : ~ Pending(p, c)
  /\ fetch[p].phase = "none" /\ ~ broken[p]
  /\ shown[p] = cache[p]

SetCall(p, c, new) == call' = [ call EXCEPT ![p][c] = new ]

(***************************************************************************)
(* The user.                                                               *)
(***************************************************************************)

\* The fields are enabled even while a save is pending.
set(p, e) ==
  /\ ~ broken[p] /\ e \notin used
  /\ form' = [ form EXCEPT ![p] = @ \cup { e } ]
  /\ used' = used \cup { e }
  /\ calm' = IF Quiet(p) /\ shown[p] = latest THEN [ calm EXCEPT ![p] = @ \cup { e } ] ELSE calm
  /\ UNCHANGED <<commands, latest, cache, shown, broken, fetch, call, events, told, raced, overwriters>>

\* save.mutate(): the button is disabled until the last save is done and that
\* is rendered.
save(p) ==
  /\ ~ broken[p] /\ ~ Pending(p, "save") /\ shown[p] = cache[p]
  /\ commands < MaxCommands /\ commands' = commands + 1
  /\ SetCall(p, "save",
       [ phase |-> "sent", expected |-> shown[p].version, text |-> form[p] ])
  /\ UNCHANGED <<latest, cache, shown, form, broken, fetch, used, events, histories>>

\* transition, archive, decide: another version with the same text.
transition(p) ==
  /\ p \in Reviewers /\ ~ broken[p] /\ ~ Pending(p, "act")
  /\ commands < MaxCommands /\ commands' = commands + 1
  /\ SetCall(p, "act",
       [ phase |-> "sent", expected |-> shown[p].version, text |-> shown[p].text ])
  /\ UNCHANGED <<latest, cache, shown, form, broken, fetch, used, events, histories>>

\* apply: the generated draft takes the place of the text.
apply(p, e) ==
  /\ p \in Reviewers /\ ~ broken[p] /\ ~ Pending(p, "act") /\ e \notin used
  /\ commands < MaxCommands /\ commands' = commands + 1
  /\ SetCall(p, "act",
       [ phase |-> "sent", expected |-> shown[p].version, text |-> { e } ])
  /\ used' = used \cup { e }
  /\ UNCHANGED <<latest, cache, shown, form, broken, fetch, events, histories>>

\* handoff: the version shown is to be sent to Blogger, and is if it is the item's.
handoff(p) ==
  /\ p \in Reviewers /\ ~ broken[p] /\ ~ Pending(p, "act")
  /\ commands < MaxCommands /\ commands' = commands + 1
  /\ shown[p].version = latest.version /\ latest.stamp < MaxRecords
  /\ SetCall(p, "act",
       [ phase |-> "handing", expected |-> shown[p].version, text |-> {} ])
  /\ UNCHANGED <<latest, cache, shown, form, broken, fetch, used, events, histories>>

(***************************************************************************)
(* The item's query.                                                       *)
(***************************************************************************)

\* A window that gets the focus fetches, unless a fetch is on its way.
Focus(p) ==
  /\ fetch[p].phase = "none" /\ events < MaxEvents
  /\ events' = events + 1
  /\ fetch' = [ fetch EXCEPT ![p] = Asked ]
  /\ UNCHANGED <<commands, latest, cache, shown, form, broken, call, used, histories>>

\* Faulty variant: a fetch that is on its way will do.
JoinFetch(p) ==
  fetch' = [ fetch EXCEPT ![p] = IF @.phase = "none" THEN Asked ELSE @ ]

\* invalidateQueries and refetch give up a fetch that is on its way.
invalidate(p) == fetch' = [ fetch EXCEPT ![p] = Asked ]

\* "Recharger la version actuelle", offered after a stale command.
Reload(p) ==
  /\ ~ broken[p]
  /\ \E c \in Commands : call[p][c].phase = "stale"
  /\ invalidate(p)
  /\ UNCHANGED <<commands, latest, cache, shown, form, broken, call, used, events, histories>>

ReadItem(p) ==
  /\ fetch[p].phase = "asked"
  /\ fetch' = [ fetch EXCEPT ![p] = [ phase |-> "answered", item |-> latest ] ]
  /\ UNCHANGED <<commands, latest, cache, shown, form, broken, call, used, events, histories>>

\* The commands that wait for the fetch may be finished.
EndFetch(p) ==
  /\ fetch' = [ fetch EXCEPT ![p] = NoFetch ]
  /\ call' = [ call EXCEPT ![p] =
       [ c \in Commands |-> IF @[c].phase = "refetching" THEN [ @[c] EXCEPT !.phase = "refetched" ]
                            ELSE @[c] ] ]

\* Faulty variant: every answer replaces the form, be it new or not.
FetchedAndHydrated(p) ==
  /\ fetch[p].phase = "answered"
  /\ EndFetch(p)
  /\ cache' = [ cache EXCEPT ![p] = fetch[p].item ]
  /\ form' = [ form EXCEPT ![p] = fetch[p].item.text ]
  /\ broken' = [ broken EXCEPT ![p] = FALSE ]
  /\ UNCHANGED <<commands, latest, shown, used, events, histories>>

Fetched(p) ==
  /\ fetch[p].phase = "answered"
  /\ EndFetch(p)
  /\ cache' = [ cache EXCEPT ![p] = fetch[p].item ]
  /\ broken' = [ broken EXCEPT ![p] = FALSE ]
  /\ UNCHANGED <<commands, latest, shown, form, used, events, histories>>

\* Both attempts failed: the data stays, an error takes the editor's place.
FetchFailed(p) ==
  /\ fetch[p].phase # "none" /\ events < MaxEvents
  /\ events' = events + 1
  /\ EndFetch(p)
  /\ broken' = [ broken EXCEPT ![p] = TRUE ]
  /\ UNCHANGED <<commands, latest, cache, shown, form, used, histories>>

\* Faulty variant: the form is only filled when the page is opened.
RenderOnly(p) ==
  /\ shown[p] # cache[p]
  /\ shown' = [ shown EXCEPT ![p] = cache[p] ]
  /\ UNCHANGED <<commands, latest, cache, form, broken, fetch, call, used, events, histories>>

\* The page renders new data, and the effect fills the form with it.
Hydrate(p) ==
  /\ shown[p] # cache[p]
  /\ shown' = [ shown EXCEPT ![p] = cache[p] ]
  /\ form' = [ form EXCEPT ![p] = cache[p].text ]
  /\ UNCHANGED <<commands, latest, cache, broken, fetch, call, used, events, histories>>

(***************************************************************************)
(* The server, and what a page does with its answers.                      *)
(***************************************************************************)

\* updateWithRevision: the version sent is the item's, or the command is stale.
Accept(p, c) ==
  LET sent == call[p][c] IN
  /\ sent.phase = "sent" /\ sent.expected = latest.version
  /\ latest' = [ latest EXCEPT !.version = @ + 1, !.text = sent.text ]
  /\ SetCall(p, c, [ sent EXCEPT !.phase = "saved" ])
  /\ raced' = raced \cup
       { q \in Pages : call[q]["save"].phase \in { "saved", "refetching", "refetched" } }
  /\ overwriters' = IF c = "save" /\ ~ latest.text \subseteq sent.text
                    THEN overwriters \cup { p } ELSE overwriters
  /\ calm' = [ q \in Pages |-> IF q = p /\ c = "save" THEN calm[q] ELSE {} ]
  /\ UNCHANGED <<commands, cache, shown, form, broken, fetch, used, events, told>>

Stale(p, c) ==
  /\ call[p][c].phase = "sent" /\ call[p][c].expected # latest.version
  /\ SetCall(p, c, [ NoCall EXCEPT !.phase = "stale" ])
  /\ UNCHANGED <<commands, latest, cache, shown, form, broken, fetch, used, events, histories>>

\* What is known of the draft is written on the item, which stays at its version.
RecordPublication ==
  /\ latest' = [ latest EXCEPT !.stamp = @ + 1 ]
  /\ calm' = [ q \in Pages |-> {} ]

\* The item is not at the version sent, not ready or not connected, or its draft is
\* being made.
HandoffRefused(p) ==
  /\ call[p]["act"].phase = "handing"
  /\ SetCall(p, "act", NoCall)
  /\ UNCHANGED <<commands, latest, cache, shown, form, broken, fetch, used, events, histories>>

\* DRAFT_SENT is written if the item still has the version; nothing is if it was sent
\* before.  The answer is of no new version.
HandedOff(p) ==
  /\ call[p]["act"].phase = "handing"
  /\ SetCall(p, "act", [ NoCall EXCEPT !.phase = "saved" ])
  /\ \/ call[p]["act"].expected = latest.version /\ RecordPublication
     \/ UNCHANGED <<latest, calm>>
  /\ UNCHANGED <<commands, cache, shown, form, broken, fetch, used, events, told, raced, overwriters>>

\* FAILED is written whatever the version, and an error is answered.
HandoffFailed(p) ==
  /\ call[p]["act"].phase = "handing"
  /\ SetCall(p, "act", NoCall)
  /\ RecordPublication
  /\ UNCHANGED <<commands, cache, shown, form, broken, fetch, used, events, told, raced, overwriters>>

\* The panel's query of the draft finds it missing, and FAILED is written.
DraftMissing ==
  /\ commands < MaxCommands /\ commands' = commands + 1
  /\ latest.stamp < MaxRecords /\ RecordPublication
  /\ UNCHANGED <<cache, shown, form, broken, fetch, call, used, events, told, raced, overwriters>>

\* The connection breaks: the page shows an error and knows of no new version.
LoseAnswer(p, c) ==
  /\ call[p][c].phase = "saved" /\ events < MaxEvents
  /\ events' = events + 1
  /\ SetCall(p, c, NoCall)
  /\ calm' = [ calm EXCEPT ![p] = {} ]
  /\ UNCHANGED <<commands, latest, cache, shown, form, broken, fetch, used, told, raced, overwriters>>

\* onSuccess, first half.
Answered(p, c) ==
  /\ call[p][c].phase = "saved"
  /\ SetCall(p, c, [ phase |-> "refetching", expected |-> 0,
                     text |-> IF c = "save" THEN call[p][c].text ELSE {} ])
  /\ invalidate(p)
  /\ told' = [ told EXCEPT ![p] = IF @ <= call[p][c].expected THEN call[p][c].expected + 1 ELSE @ ]
  /\ UNCHANGED <<commands, latest, cache, shown, form, broken, used, events, raced, overwriters, calm>>

\* onSuccess of a save, when the item and the other queries have been fetched.
Saved(p) ==
  /\ call[p]["save"].phase = "refetched"
  /\ form' = [ form EXCEPT ![p] = call[p]["save"].text ]
  /\ SetCall(p, "save", NoCall)
  /\ UNCHANGED <<commands, latest, cache, shown, broken, fetch, used, events, histories>>

Acted(p) ==
  /\ call[p]["act"].phase = "refetched"
  /\ SetCall(p, "act", NoCall)
  /\ UNCHANGED <<commands, latest, cache, shown, form, broken, fetch, used, events, histories>>

EditorNext ==
  \E p \in Pages :
    \/ \E e \in Edits : set(p, e) \/ apply(p, e)
    \/ save(p) \/ transition(p) \/ handoff(p)
    \/ Focus(p) \/ Reload(p) \/ ReadItem(p) \/ Fetched(p) \/ FetchFailed(p)
    \/ Hydrate(p)
    \/ \E c \in Commands : Accept(p, c) \/ Stale(p, c) \/ LoseAnswer(p, c) \/ Answered(p, c)
    \/ HandoffRefused(p) \/ HandedOff(p) \/ HandoffFailed(p)
    \/ DraftMissing
    \/ Saved(p) \/ Acted(p)

EditorSpec == EditorInit /\ [][EditorNext]_editorVars

(***************************************************************************)
(* Properties.                                                             *)
(***************************************************************************)

\* A save that the server accepts drops another's edit only on a page whose
\* earlier save was followed by a write before the page was done with it: in
\* every other order of fetches, renders and answers the form descends from
\* the version that is sent with it.
OverwriteHasCause == overwriters \subseteq raced

\* What the decision records say of clients that send the version they have
\* loaded: no accepted save drops an edit its user has never seen.
NoSilentOverwrite == overwriters = {}

\* Once a page is quiet it shows a version no older than those it was told it
\* has made, whatever fetch was on its way when the answer came: an editor who
\* works alone is never told to reload.
OwnWritesSeen == \A p \in Pages : Quiet(p) => told[p] <= shown[p].version

\* What was typed while nothing was going on stays in the form, or is saved,
\* until there is a version that does not come from this form or a handoff's
\* outcome is recorded on the item: fetches, failed ones included, do not
\* touch it.
QuietTypingKept == \A p \in Pages : calm[p] \subseteq form[p] \cup latest.text
=============================================================================
