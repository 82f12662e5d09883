--------------------------- MODULE ActionApproval ---------------------------
(***************************************************************************)
(* Proposed actions and their approval: create_proposed_action,            *)
(* approve_action and reject_action of supportagent/claims/service.py over *)
(* proposed_actions and claim_action_approvals.                            *)
(*                                                                         *)
(* A decision is one transaction that opens with SELECT ... JOIN claims    *)
(* ... FOR UPDATE.  Without an OF clause PostgreSQL locks the row of each  *)
(* joined table, the action's first and then the claim's, so a decision    *)
(* also excludes every transaction that updates the claim, and the one     *)
(* that inserts an action for it (its foreign key locks the claim's row).  *)
(* The wait for a row lock ends with its newest committed version.         *)
(* claim_action_approvals has no unique constraint: only the lock keeps    *)
(* two decisions of one action apart.                                      *)
(***************************************************************************)
EXTENDS Sequences, ClaimStateMachine

CONSTANTS
    Claims,      \* ids of claims, all created already
    Users,       \* user ids
    Owner,       \* owner_user_id of each claim
    Actions,     \* ids of proposed actions
    Requests     \* request threads in flight at the same time

ASSUME ApprovalAssumption ==
    /\ Owner \in [Claims -> Users]
    /\ Claims \cap Actions = {}
    /\ "none" \notin Claims
    /\ "free" \notin Requests

VARIABLES
    actions,     \* table proposed_actions: id -> row, or NoAction
    approvals,   \* table claim_action_approvals: the records of each action
    lock,        \* the request that holds the row lock of an action or a claim
    txn          \* what each request thread has read so far

vars == <<actions, approvals, lock, txn>>

-----------------------------------------------------------------------------
Nobody == "nobody"
Free == "free"

NoAction == [status |-> "ABSENT", claim |-> "none", approved_by |-> Nobody]

ActionRow == [status : ActionStatuses \cup {"ABSENT"}, claim : Claims \cup {"none"},
              approved_by : Users \cup {Nobody}]

ApprovalRecord == [actor : Users, decision : {"APPROVED", "REJECTED"}]

Decisions == {"approve", "reject"}

Txn == [pc : {"idle", "lock.action", "lock.claim", "decide", "update.claim"},
        action : Actions \cup {"none"}, claim : Claims \cup {"none"},
        actor : Users \cup {Nobody}, decision : Decisions \cup {"none"},
        seen : ActionStatuses \cup {"ABSENT"}]
Idle == [pc |-> "idle", action |-> "none", claim |-> "none", actor |-> Nobody,
         decision |-> "none", seen |-> "ABSENT"]

\* COMMIT or ROLLBACK ends a request and releases its row locks.
Done(p) ==
    /\ txn' = [txn EXCEPT ![p] = Idle]
    /\ lock' = [row \in DOMAIN lock |-> IF lock[row] = p THEN Free ELSE lock[row]]

Step(p, pc) == txn' = [txn EXCEPT ![p].pc = pc]

-----------------------------------------------------------------------------
\* create_proposed_action: the owner's claim is found, the action inserted
\* with its initial status.  The foreign key's lock waits for a decision that
\* holds the claim's row, but not for an update of the claim.
Propose(p, u, c, a, type) ==
    /\ txn[p].pc = "idle"
    /\ Owner[c] = u
    /\ actions[a] = NoAction
    /\ \A q \in Requests : lock[c] = q => txn[q].pc = "update.claim"
    /\ actions' = [actions EXCEPT ![a] = [status |-> InitialActionStatus(type),
                                          claim |-> c, approved_by |-> Nobody]]
    /\ UNCHANGED <<approvals, lock, txn>>

\* approve_action or reject_action is called.
Request(p, u, c, a, decision) ==
    /\ txn[p].pc = "idle"
    /\ txn' = [txn EXCEPT ![p] = [Idle EXCEPT !.pc = "lock.action", !.action = a, !.claim = c,
                                              !.actor = u, !.decision = decision]]
    /\ UNCHANGED <<actions, approvals, lock>>

\* The WHERE clause of fetch_action_for_owner.
FoundForOwner(t) == actions[t.action].claim = t.claim /\ Owner[t.claim] = t.actor

LockActionForRead(p) ==
    /\ txn[p].pc = "lock.action"
    /\ FoundForOwner(txn[p])
    /\ txn' = [txn EXCEPT ![p].pc = "lock.claim", ![p].seen = actions[txn[p].action].status]
    /\ UNCHANGED <<actions, approvals, lock>>

\* fetch_action_for_owner locks the action's row ...
LockAction(p) ==
    /\ txn[p].pc = "lock.action"
    /\ FoundForOwner(txn[p])
    /\ lock[txn[p].action] = Free
    /\ lock' = [lock EXCEPT ![txn[p].action] = p]
    /\ txn' = [txn EXCEPT ![p].pc = "lock.claim", ![p].seen = actions[txn[p].action].status]
    /\ UNCHANGED <<actions, approvals>>

\* ... or finds no such action of the caller: ClaimNotFoundError.
NotFound(p) ==
    /\ txn[p].pc = "lock.action"
    /\ ~FoundForOwner(txn[p])
    /\ Done(p)
    /\ UNCHANGED <<actions, approvals>>

LockClaimLeaked(p) ==
    /\ txn[p].pc = "lock.claim"
    /\ lock[txn[p].claim] = Free
    /\ lock' = [lock EXCEPT ![txn[p].claim] = p]
    /\ txn' = [txn EXCEPT ![p] = IF ActionIsDecidable(txn[p].seen)
                                 THEN [txn[p] EXCEPT !.pc = "decide"] ELSE Idle]
    /\ UNCHANGED <<actions, approvals>>

\* ... and then the claim's row; validate_action_decision refuses an action
\* that is decided already (ClaimActionConflictError).
LockClaim(p) ==
    /\ txn[p].pc = "lock.claim"
    /\ lock[txn[p].claim] = Free
    /\ IF ActionIsDecidable(txn[p].seen)
       THEN lock' = [lock EXCEPT ![txn[p].claim] = p] /\ Step(p, "decide")
       ELSE Done(p)
    /\ UNCHANGED <<actions, approvals>>

\* record_action_decision: INSERT the approval, UPDATE the action, COMMIT.
Decide(p) ==
    LET t == txn[p]
        verdict == DecidedActionStatus(t.decision) IN
    /\ t.pc = "decide"
    /\ approvals' = [approvals EXCEPT ![t.action] =
                        Append(@, [actor |-> t.actor, decision |-> verdict])]
    /\ actions' = [actions EXCEPT ![t.action].status = verdict,
                                  ![t.action].approved_by =
                                      IF verdict = "APPROVED" THEN t.actor ELSE Nobody]
    /\ Done(p)

\* A transaction of the claim desk updates the status of a claim: it holds the
\* row lock from its UPDATE to its COMMIT.
UpdateClaim(p, c) ==
    /\ txn[p].pc = "idle"
    /\ lock[c] = Free
    /\ lock' = [lock EXCEPT ![c] = p]
    /\ Step(p, "update.claim")
    /\ UNCHANGED <<actions, approvals>>

CommitClaim(p) ==
    /\ txn[p].pc = "update.claim"
    /\ Done(p)
    /\ UNCHANGED <<actions, approvals>>

\* The request raises a database error, or its process dies: rolled back.
Lose(p) ==
    /\ txn[p].pc # "idle"
    /\ Done(p)
    /\ UNCHANGED <<actions, approvals>>

-----------------------------------------------------------------------------
Init ==
    /\ actions = [a \in Actions |-> NoAction]
    /\ approvals = [a \in Actions |-> <<>>]
    /\ lock = [row \in Actions \cup Claims |-> Free]
    /\ txn = [p \in Requests |-> Idle]

NewRequest(p) ==
    \E c \in Claims :
        \/ UpdateClaim(p, c)
        \/ \E u \in Users, a \in Actions :
              \/ \E type \in ActionTypes : Propose(p, u, c, a, type)
              \/ \E decision \in Decisions : Request(p, u, c, a, decision)

Next ==
    \E p \in Requests :
        \/ NewRequest(p)
        \/ LockAction(p) \/ NotFound(p) \/ LockClaim(p) \/ Decide(p)
        \/ CommitClaim(p) \/ Lose(p)

Spec == Init /\ [][Next]_vars

\* The database serves the waiters of a row lock in turn, and a request that
\* holds its locks runs to its end.
FairSpec ==
    /\ Spec
    /\ \A p \in Requests :
          /\ SF_vars(LockAction(p)) /\ SF_vars(LockClaim(p))
          /\ WF_vars(NotFound(p)) /\ WF_vars(Decide(p)) /\ WF_vars(CommitClaim(p))

-----------------------------------------------------------------------------
\* Type invariant: well-formed rows, records, locks and requests.
TypeOK ==
    /\ actions \in [Actions -> ActionRow]
    /\ approvals \in [Actions -> Seq(ApprovalRecord)]
    /\ lock \in [Actions \cup Claims -> Requests \cup {Free}]
    /\ txn \in [Requests -> Txn]

\* An action and its approval records agree: none while it waits for a
\* decision, and afterwards exactly the one that made its status, however
\* many approvals and rejections were sent at once (_decide_action).
DecidedOnce ==
    \A a \in Actions :
        \/ actions[a].status \in {"ABSENT", "WAITING_FOR_APPROVAL"} /\ approvals[a] = <<>>
        \/ /\ actions[a].status \in {"APPROVED", "REJECTED"}
           /\ Len(approvals[a]) = 1
           /\ approvals[a][1].decision = actions[a].status

\* Nobody but the owner of the claim decides, and approved_by names the actor
\* of the approval, or nobody (fetch_action_for_owner, record_action_decision).
OwnerDecides ==
    \A a \in Actions :
        /\ \A i \in DOMAIN approvals[a] : approvals[a][i].actor = Owner[actions[a].claim]
        /\ IF actions[a].status = "APPROVED"
           THEN approvals[a] # <<>> /\ actions[a].approved_by = approvals[a][1].actor
           ELSE actions[a].approved_by = Nobody

\* What an action looks like through the contract.
ContractState(row) ==
    CASE row.status = "ABSENT" -> "NONE"
      [] row.status = "WAITING_FOR_APPROVAL" -> "OPEN"
      [] OTHER -> row.status

Contract == INSTANCE ApprovalContract
               WITH state <- [a \in Actions |-> ContractState(actions[a])],
                    owner <- [a \in Actions |-> IF actions[a].claim \in Claims
                                                THEN Owner[actions[a].claim]
                                                ELSE Nobody],
                    record <- approvals

\* The rows and locks implement one atomic decision per action.
ImplementsContract == Contract!Spec

\* Every decision, and every update of a claim it competes with, ends: the
\* two row locks of a decision deadlock neither with another decision nor
\* with an update of the claim.
RequestsEnd == \A p \in Requests : txn[p].pc # "idle" ~> txn[p].pc = "idle"
=============================================================================
