--------------------------- MODULE ClaimLifecycle ---------------------------
(***************************************************************************)
(* What the claim desk promises, one step per operation: a claim moves     *)
(* only along CLAIM_TRANSITIONS, it is UNDER_REVIEW exactly while one      *)
(* review of it is open, and nothing but that review's outcome moves it    *)
(* out of UNDER_REVIEW.                                                    *)
(***************************************************************************)
EXTENDS ClaimStateMachine

CONSTANTS Claims, Reviews

VARIABLES status,   \* status of each claim, "ABSENT" before it is created
          open      \* the reviews of each claim that have not finished

vars == <<status, open>>

Init ==
    /\ status = [c \in Claims |-> "ABSENT"]
    /\ open = [c \in Claims |-> {}]

Create(c) ==
    /\ status[c] = "ABSENT"
    /\ status' = [status EXCEPT ![c] = "DRAFT"]
    /\ UNCHANGED open

\* A transition a user asks for, outside a review.
Move(c, to) ==
    /\ status[c] \notin {"ABSENT", "UNDER_REVIEW"}
    /\ to # "UNDER_REVIEW"
    /\ ValidClaimTransition(status[c], to)
    /\ status' = [status EXCEPT ![c] = to]
    /\ UNCHANGED open

OpenReview(c, r) ==
    /\ status[c] = "READY_FOR_REVIEW"
    /\ open[c] = {}
    /\ status' = [status EXCEPT ![c] = "UNDER_REVIEW"]
    /\ open' = [open EXCEPT ![c] = {r}]

CloseReview(c, to) ==
    /\ status[c] = "UNDER_REVIEW"
    /\ ValidClaimTransition("UNDER_REVIEW", to)
    /\ status' = [status EXCEPT ![c] = to]
    /\ open' = [open EXCEPT ![c] = {}]

Next ==
    \E c \in Claims :
        \/ Create(c)
        \/ \E to \in ClaimStatuses : Move(c, to) \/ CloseReview(c, to)
        \/ \E r \in Reviews : OpenReview(c, r)

Spec == Init /\ [][Next]_vars
=============================================================================
