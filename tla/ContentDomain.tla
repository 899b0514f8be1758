--------------------------- MODULE ContentDomain ---------------------------
(***************************************************************************)
(* The vocabulary of the editorial domain: the statuses of a content item, *)
(* the edges of its life cycle, and what each workspace role may do to it. *)
(* Pure definitions, shared by every module that handles content items.    *)
(***************************************************************************)

\* The life cycle, apart from archiving: current status -> permitted next statuses.
ALLOWED_EDITORIAL_TRANSITIONS ==
  { <<"IDEA", "RESEARCHING">>, <<"IDEA", "DRAFT">>,
    <<"RESEARCHING", "OUTLINED">>, <<"RESEARCHING", "DRAFT">>,
    <<"OUTLINED", "DRAFT">>,
    <<"DRAFT", "IN_REVIEW">>,
    <<"IN_REVIEW", "CHANGES_REQUESTED">>, <<"IN_REVIEW", "APPROVED">>,
    <<"CHANGES_REQUESTED", "DRAFT">>,
    <<"APPROVED", "READY_TO_PUBLISH">>,
    <<"READY_TO_PUBLISH", "PUBLISHED">> }

ContentEditorialStatus ==
  { "IDEA", "RESEARCHING", "OUTLINED", "DRAFT", "IN_REVIEW", "CHANGES_REQUESTED",
    "APPROVED", "READY_TO_PUBLISH", "PUBLISHED", "ARCHIVED" }

\* Everything but an archived item may also be archived.
canTransitionEditorialStatus(current, next) ==
  \/ next = "ARCHIVED" /\ current # "ARCHIVED"
  \/ <<current, next>> \in ALLOWED_EDITORIAL_TRANSITIONS

\* The two outcomes of a review; only a review decision may take these edges.
ContentReviewDecision == { "APPROVED", "CHANGES_REQUESTED" }

\* The statuses an approval leads to.
approvedStatuses == { "APPROVED", "READY_TO_PUBLISH", "PUBLISHED" }

writerEditableStatuses ==
  { "IDEA", "RESEARCHING", "OUTLINED", "DRAFT", "CHANGES_REQUESTED" }

writerTransitions ==
  { <<"IDEA", "RESEARCHING">>, <<"IDEA", "DRAFT">>,
    <<"RESEARCHING", "OUTLINED">>, <<"RESEARCHING", "DRAFT">>,
    <<"OUTLINED", "DRAFT">>, <<"DRAFT", "IN_REVIEW">>, <<"CHANGES_REQUESTED", "DRAFT">> }

reviewerTransitions == { <<"IN_REVIEW", d>> : d \in ContentReviewDecision }

\* Statuses from which a machine draft may be requested.
generatableStatuses ==
  { "IDEA", "RESEARCHING", "OUTLINED", "DRAFT", "CHANGES_REQUESTED" }

Roles == { "OWNER", "ADMIN", "EDITOR", "REVIEWER", "SEO_MANAGER", "WRITER", "VIEWER" }

\* The permissions on content that change state, and the roles that hold them.
Permission ==
  { "contents.create", "contents.update", "contents.assign", "contents.transition",
    "contents.archive", "contents.seo.update", "contents.reviews.approve",
    "contents.reviews.requestChanges", "contents.publication.createDraft",
    "contents.publication.updateDraft", "contents.ai.generate", "contents.ai.apply" }

allPermissions == Permission

ROLE_PERMISSIONS ==
  [ role \in Roles |->
      CASE role \in { "OWNER", "ADMIN", "EDITOR" } -> allPermissions
        [] role = "REVIEWER" ->
             { "contents.transition", "contents.reviews.approve",
               "contents.reviews.requestChanges" }
        [] role = "SEO_MANAGER" -> { "contents.seo.update" }
        [] role = "WRITER" -> { "contents.create", "contents.update", "contents.transition" }
        [] role = "VIEWER" -> {} ]
=============================================================================
