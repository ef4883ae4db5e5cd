--------------------------- MODULE CampaignStates ---------------------------
(***************************************************************************)
(* The campaign state machine of core/enums.py: the transition table and   *)
(* the named sets of states the services and the repository consult.       *)
(* A row that does not exist (never created, or deleted) has a value       *)
(* outside CampaignStatus, from which nothing is reachable.                *)
(***************************************************************************)
EXTENDS Naturals

CampaignStatus ==
  {"DRAFT", "READY", "AWAITING_APPROVAL", "APPROVED", "REJECTED",
   "SENDING", "SENT", "PARTIAL_FAILURE", "FAILED", "ARCHIVED"}

NoRow == {"ABSENT", "DELETED"}   \* not created yet; created and deleted

(* Seeded faults: an archive may interrupt a send; an approval may be      *)
(* handed back for review.                                                 *)
ArchivesMidSend ==
  [s \in CampaignStatus |->
    CASE s = "DRAFT"             -> {"AWAITING_APPROVAL"}
      [] s = "AWAITING_APPROVAL" -> {"APPROVED"}
      [] s = "APPROVED"          -> {"SENDING"}
      [] s = "SENDING"           -> {"SENT", "ARCHIVED"}
      [] OTHER                   -> {}]
ReopensReview ==
  [s \in CampaignStatus |->
    CASE s = "DRAFT"             -> {"AWAITING_APPROVAL"}
      [] s = "AWAITING_APPROVAL" -> {"APPROVED"}
      [] s = "APPROVED"          -> {"AWAITING_APPROVAL", "SENDING"}
      [] OTHER                   -> {}]

Transitions ==
  [s \in CampaignStatus |->
    CASE s = "DRAFT"             -> {"READY", "SENDING", "ARCHIVED", "AWAITING_APPROVAL"}
      [] s = "READY"             -> {"DRAFT", "SENDING", "ARCHIVED", "AWAITING_APPROVAL"}
      [] s = "AWAITING_APPROVAL" -> {"APPROVED", "REJECTED", "ARCHIVED"}
      [] s = "APPROVED"          -> {"SENDING", "ARCHIVED"}
      [] s = "REJECTED"          -> {"ARCHIVED"}
      [] s = "SENDING"           -> {"SENT", "PARTIAL_FAILURE", "FAILED"}
      [] s = "PARTIAL_FAILURE"   -> {"SENDING", "ARCHIVED"}
      [] s = "FAILED"            -> {"SENDING", "ARCHIVED"}
      [] s = "SENT"              -> {"ARCHIVED"}
      [] s = "ARCHIVED"          -> {}]

(* Seeded fault: the state that waits for a human counts as sendable.      *)
SendsPending == {"DRAFT", "READY", "AWAITING_APPROVAL", "APPROVED"}

SendableStates  == {"DRAFT", "READY", "APPROVED"}
EditableStates  == {"DRAFT", "READY"}
PendingApproval == {"AWAITING_APPROVAL"}

(* can_transition, and the sources of the conditional UPDATE that          *)
(* transition_status issues: the states from which `to` is reachable.      *)
CanTransition(s, to) == s \in CampaignStatus /\ to \in Transitions[s]
SourcesOf(to)        == {s \in CampaignStatus : CanTransition(s, to)}

(* What a status becomes under transition_status(to): the UPDATE matches   *)
(* the row or matches nothing, and the caller ignores the row count.       *)
Transitioned(s, to) == IF s \in SourcesOf(to) THEN to ELSE s

(* The outcome _settle writes, from the two counts of a run.               *)
Outcome(sent, failed) ==
  CASE failed = 0 /\ sent > 0 -> "SENT"
    [] sent = 0               -> "FAILED"
    [] OTHER                  -> "PARTIAL_FAILURE"
=============================================================================
