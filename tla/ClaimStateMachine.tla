------------------------- MODULE ClaimStateMachine -------------------------
(***************************************************************************)
(* The deterministic rules of supportagent/claims/state_machine.py: the    *)
(* statuses of a claim, the table of allowed transitions, and the rule by  *)
(* which a proposed action is approved or rejected.  No state of its own.  *)
(***************************************************************************)

\* Literal ClaimStatus of claims/schemas.py.
ClaimStatuses ==
    {"DRAFT", "DOCUMENTS_PENDING", "READY_FOR_REVIEW", "UNDER_REVIEW",
     "NEEDS_INFORMATION", "READY_FOR_DECISION", "EXPERT_REVIEW_REQUIRED",
     "APPROVED", "REJECTED", "CLOSED"}

\* The set of target statuses the table allows from each status.
CLAIM_TRANSITIONS ==
    [DRAFT                  |-> {"DOCUMENTS_PENDING", "READY_FOR_REVIEW"},
     DOCUMENTS_PENDING      |-> {"READY_FOR_REVIEW"},
     READY_FOR_REVIEW       |-> {"UNDER_REVIEW", "NEEDS_INFORMATION"},
     UNDER_REVIEW           |-> {"READY_FOR_REVIEW", "NEEDS_INFORMATION",
                                 "READY_FOR_DECISION"},
     NEEDS_INFORMATION      |-> {"DOCUMENTS_PENDING", "READY_FOR_REVIEW"},
     READY_FOR_DECISION     |-> {"NEEDS_INFORMATION", "EXPERT_REVIEW_REQUIRED",
                                 "APPROVED", "REJECTED"},
     EXPERT_REVIEW_REQUIRED |-> {"UNDER_REVIEW", "READY_FOR_DECISION"},
     APPROVED               |-> {"CLOSED"},
     REJECTED               |-> {"CLOSED"},
     CLOSED                 |-> {}]

OUT_OF_SCOPE_STATES == {"CLOSED"}

\* validate_claim_transition does not raise.
ValidClaimTransition(current, target) ==
    /\ target \in CLAIM_TRANSITIONS[current]
    /\ target \notin OUT_OF_SCOPE_STATES

-----------------------------------------------------------------------------

\* Literal ActionType and ActionStatus of claims/schemas.py.
ActionTypes == {"CREATE_JIRA_ISSUE", "SEND_TEAMS_NOTIFICATION", "UPDATE_CLAIM_STATUS"}

ActionStatuses ==
    {"PROPOSED", "WAITING_FOR_APPROVAL", "APPROVED", "REJECTED", "EXECUTING",
     "SUCCEEDED", "FAILED", "VERIFICATION_FAILED"}

InitialActionStatus(actionType) == "WAITING_FOR_APPROVAL"

ActionIsDecidableUnlessRejected(current) == current # "REJECTED"

\* validate_action_decision does not raise.
ActionIsDecidable(current) == current = "WAITING_FOR_APPROVAL"

\* The status validate_action_decision returns for a decision.
DecidedActionStatus(decision) ==
    IF decision = "approve" THEN "APPROVED" ELSE "REJECTED"
=============================================================================
