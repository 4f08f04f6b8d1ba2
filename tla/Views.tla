-------------------------------- MODULE Views ---------------------------------
(***************************************************************************)
(* application-stages.util.ts: the one status of an application shown in    *)
(* two vocabularies, to staff as the stages of the internal process and to  *)
(* the student as milestones, each with its progress bar.  g is the status  *)
(* of the guarantor's link, "none" where the student has none; documents    *)
(* are no longer part of completeness (docsAllVerified is constantly true). *)
(***************************************************************************)
EXTENDS Naturals, FiniteSets, SequencesExt

LinkShown == {"none", "pending_invitation", "active", "declined"}

\* getCompleteness: what allComplete asks of the guarantor.
AtLeastInvited(g) == g \in {"active", "pending_invitation"}

(***************************************************************************)
(* computeAdminStage.                                                       *)
(***************************************************************************)
AdminStages ==
  <<"draft", "submitted", "completeness_verification", "guarantor", "ai_review",
    "internal_review", "pre_approval", "contract", "university_confirmation", "approved",
    "university_payment", "active_student">>

Exceptional == {"rejected", "fraud_flagged", "withdrawn"}

AdminStage(s, g) ==
  CASE s \in {"new_lead", "contacted"} -> IF g = "active" THEN "ai_review" ELSE "guarantor"
    [] s \in {"waiting_for_documents", "documents_received"} -> "completeness_verification"
    [] s \in {"under_review", "more_info_required", "on_hold", "capital_queue", "appealing"}
         -> "internal_review"
    [] s \in {"approved_level1", "approved_level2", "approved_level3"} -> "pre_approval"
    [] s \in {"contract_sent", "contract_signed"} -> "contract"
    [] s = "university_confirmed" -> "university_confirmation"
    [] s = "university_paid" -> "university_payment"
    [] s \in {"active_student", "completed"} -> "active_student"
    [] OTHER -> "submitted"

\* An exception leaves no stage current; "approved" is never current.
AdminBar(s, g) ==
  LET at == CHOOSE k \in DOMAIN AdminStages : AdminStages[k] = AdminStage(s, g) IN
  [k \in DOMAIN AdminStages |-> CASE k < at -> "done"
                                  [] k = at -> IF s \in Exceptional THEN "done" ELSE "current"
                                  [] OTHER  -> "upcoming"]

(***************************************************************************)
(* computeStudentMilestone.                                                 *)
(***************************************************************************)
Milestones ==
  <<"application_started", "application_submitted", "documents_verified", "guarantor_status",
    "under_review", "decision", "university_confirmation", "active_student">>

IsActiveStudent     == {"active_student", "completed"}
UniversityConfirmed == {"university_confirmed", "university_paid"} \cup IsActiveStudent
DecisionMade == {"approved_level1", "approved_level2", "approved_level3", "rejected",
                 "contract_sent", "contract_signed"} \cup UniversityConfirmed
ReachedUnderReview_NoHold ==
  {"under_review", "more_info_required", "capital_queue", "appealing", "withdrawn"}
    \cup DecisionMade
ReachedUnderReview ==
  {"under_review", "more_info_required", "on_hold", "capital_queue", "appealing", "withdrawn"}
    \cup DecisionMade

Milestone(s, g) ==
  CASE s \in IsActiveStudent                       -> "active_student"
    [] s \in UniversityConfirmed \ IsActiveStudent -> "university_confirmation"
    [] s \in DecisionMade \ UniversityConfirmed    -> "decision"
    [] s \in ReachedUnderReview \ DecisionMade     -> "under_review"
    [] OTHER -> IF AtLeastInvited(g) THEN "application_submitted" ELSE "guarantor_status"

StudentBar(s, g) ==
  LET at == CHOOSE k \in DOMAIN Milestones : Milestones[k] = Milestone(s, g) IN
  [k \in DOMAIN Milestones |-> CASE k < at -> "done"
                                 [] k = at -> "current"
                                 [] OTHER  -> "upcoming"]

\* computeNextAction; m is the status of the meeting shown, "none" without one.
NextAction(s, g, m) ==
  CASE s = "rejected" -> "review_options"
    [] s # "rejected" /\ Milestone(s, g) = "guarantor_status" ->
         IF g = "declined" THEN "invite_another" ELSE "invite_guarantor"
    [] s # "rejected" /\ Milestone(s, g) = "decision" ->
         IF m \in {"scheduled", "confirmed"} THEN "attend_meeting" ELSE "await_meeting"
    [] Milestone(s, g) = "application_submitted" -> "complete_application"
    [] OTHER -> "none_needed"

-------------------------------------------------------------------------------
\* How far a progress bar has come.
Reached(bar) == Cardinality({k \in DOMAIN bar : bar[k] # "upcoming"})
===============================================================================
