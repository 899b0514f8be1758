-------------------------- MODULE ContentLifecycle --------------------------
(***************************************************************************)
(* What the editorial side promises to the rest of the system about one    *)
(* content item: a version that grows by one with every write, a status    *)
(* that only follows the life cycle, and a text that becomes approved only *)
(* while it stands in review.  Editorial.tla shows that the real services, *)
(* with their reads, checks and later commits, implement this; the         *)
(* publication handoff is built on it.                                     *)
(*                                                                         *)
(* The promise has an exception that the services do not exclude: a client *)
(* may name a version ahead of the row its request is checked on, and the  *)
(* check is then one of an older row than the one written.                 *)
(*                                                                         *)
(* A text is named by the version that wrote it, so two texts differ iff   *)
(* they were written by different writes.                                  *)
(***************************************************************************)
EXTENDS Naturals, ContentDomain

VARIABLES
  version,    \* 0 until the item is created, then its current version
  status,     \* editorial status
  body,       \* the current text: the version that wrote it
  approved,   \* the texts that a reviewer approved
  ahead       \* the versions written by clients that had run ahead

lifecycleVars == <<version, status, body, approved, ahead>>

LifecycleTypeOK ==
  /\ version \in Nat
  /\ status \in ContentEditorialStatus
  /\ body \in Nat
  /\ approved \subseteq Nat
  /\ ahead \subseteq Nat

LifecycleInit ==
  /\ version = 0
  /\ status = "IDEA"
  /\ body = 0
  /\ approved = {}
  /\ ahead = {}

Create ==
  /\ version = 0
  /\ version' = 1
  /\ status' \in { "IDEA", "DRAFT" }
  /\ body' = 1
  /\ UNCHANGED <<approved, ahead>>

\* An edit: any status but the archive, which it keeps; the text may be new.
Edit ==
  /\ version > 0
  /\ status # "ARCHIVED"
  /\ version' = version + 1
  /\ body' \in { body, version + 1 }
  /\ UNCHANGED <<status, approved, ahead>>

\* A change of status outside review leaves the text alone.
Move ==
  /\ version > 0
  /\ status # "IN_REVIEW" \/ status' = "ARCHIVED"
  /\ status' \in ContentEditorialStatus
  /\ canTransitionEditorialStatus(status, status')
  /\ version' = version + 1
  /\ UNCHANGED <<body, approved, ahead>>

\* A review decides about exactly the text that stands in review.
Decide ==
  /\ version > 0
  /\ status = "IN_REVIEW"
  /\ status' \in ContentReviewDecision
  /\ approved' = IF status' = "APPROVED" THEN approved \cup {body} ELSE approved
  /\ version' = version + 1
  /\ UNCHANGED <<body, ahead>>

\* An accepted machine draft: new text, back to DRAFT, never out of review or later.
Redraft ==
  /\ version > 0
  /\ status \in generatableStatuses
  /\ status' = "DRAFT"
  /\ version' = version + 1
  /\ body' = version + 1
  /\ UNCHANGED <<approved, ahead>>

RunAhead ==
  /\ version > 1
  /\ version' = version + 1
  /\ ahead' = ahead \cup { version + 1 }

\* An edit whose check was made on an older row: even an archived item takes it.
EditAhead ==
  /\ RunAhead
  /\ body' \in { body, version + 1 }
  /\ UNCHANGED <<status, approved>>

\* A move whose check was made on an older row: to any status that a move can bring, but
\* never a review's outcome, and beyond review only once a reviewer has approved a text.
MoveAhead ==
  /\ RunAhead
  /\ status' \in ContentEditorialStatus \ ({ "IDEA" } \cup ContentReviewDecision)
  /\ status' \in approvedStatuses => approved # {}
  /\ UNCHANGED <<body, approved>>

LifecycleNext == Create \/ Edit \/ Move \/ Decide \/ Redraft \/ EditAhead \/ MoveAhead

LifecycleSpec == LifecycleInit /\ [][LifecycleNext]_lifecycleVars
=============================================================================
