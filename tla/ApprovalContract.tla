-------------------------- MODULE ApprovalContract --------------------------
(***************************************************************************)
(* What the approval boundary of proposed actions promises: an action is   *)
(* decided once, by the owner of its claim, and the decision is recorded   *)
(* in the same step that takes effect.                                     *)
(***************************************************************************)
EXTENDS Sequences

CONSTANTS Actions, Users

VARIABLES state,    \* "NONE", "OPEN", "APPROVED" or "REJECTED", per action
          owner,    \* who may decide the action
          record    \* the decisions recorded for it

vars == <<state, owner, record>>

Init ==
    /\ state = [a \in Actions |-> "NONE"]
    /\ owner = [a \in Actions |-> "nobody"]
    /\ record = [a \in Actions |-> <<>>]

Propose(a, u) ==
    /\ state[a] = "NONE"
    /\ state' = [state EXCEPT ![a] = "OPEN"]
    /\ owner' = [owner EXCEPT ![a] = u]
    /\ UNCHANGED record

Decide(a, verdict) ==
    /\ state[a] = "OPEN"
    /\ record[a] = <<>>
    /\ state' = [state EXCEPT ![a] = verdict]
    /\ record' = [record EXCEPT ![a] = <<[actor |-> owner[a], decision |-> verdict]>>]
    /\ UNCHANGED owner

Next ==
    \E a \in Actions :
        \/ \E u \in Users : Propose(a, u)
        \/ \E verdict \in {"APPROVED", "REJECTED"} : Decide(a, verdict)

Spec == Init /\ [][Next]_vars
=============================================================================
