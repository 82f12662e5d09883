------------------------ MODULE ActionApprovalProofs ------------------------
(***************************************************************************)
(* Proofs, for any number of claims, users, actions and requests, that the *)
(* row lock taken by a decision makes it the only one of its action.       *)
(***************************************************************************)
EXTENDS ActionApproval, TLAPS

\* An action row is absent, or belongs to a claim and is WAITING_FOR_APPROVAL
\* or decided.
RowInv ==
    \A a \in Actions :
        \/ actions[a] = NoAction
        \/ /\ actions[a].claim \in Claims
           /\ actions[a].status \in {"WAITING_FOR_APPROVAL", "APPROVED", "REJECTED"}

\* A decision that has locked its action's row still holds the lock, is made
\* by the owner of the action's claim, and knows the action's present status.
LockInv ==
    \A p \in Requests :
        /\ txn[p].pc = "lock.action" =>
               txn[p].action \in Actions /\ txn[p].claim \in Claims /\ txn[p].actor \in Users
                   /\ txn[p].decision \in Decisions
        /\ txn[p].pc \in {"lock.claim", "decide"} =>
               /\ txn[p].action \in Actions
               /\ txn[p].decision \in Decisions
               /\ lock[txn[p].action] = p
               /\ actions[txn[p].action].claim = txn[p].claim
               /\ txn[p].claim \in Claims
               /\ Owner[txn[p].claim] = txn[p].actor
               /\ txn[p].seen = actions[txn[p].action].status
        /\ txn[p].pc = "decide" => txn[p].seen = "WAITING_FOR_APPROVAL"

\* The inductive invariant.
IndInv == TypeOK /\ RowInv /\ LockInv /\ DecidedOnce /\ OwnerDecides

-----------------------------------------------------------------------------
\* No action, no lock and no request: every part holds at the start (Init).
LEMMA InitIndInv == Init => IndInv
  <1> SUFFICES ASSUME Init PROVE IndInv
    OBVIOUS
  <1>1. NoAction \in ActionRow /\ Idle \in Txn /\ Idle.pc = "idle"
    BY DEF NoAction, ActionRow, Idle, Txn
  <1>2. TypeOK
    <2>1. <<>> \in Seq(ApprovalRecord)
      OBVIOUS
    <2> QED BY <1>1, <2>1 DEF Init, TypeOK
  <1>3. RowInv /\ LockInv
    BY <1>1 DEF Init, RowInv, LockInv
  <1>4. DecidedOnce /\ OwnerDecides
    BY DEF Init, DecidedOnce, OwnerDecides, NoAction
  <1> QED BY <1>2, <1>3, <1>4 DEF IndInv

\* The tables stay as they are: what remains to show is about the locks.
LEMMA TablesKept ==
    ASSUME IndInv, UNCHANGED <<actions, approvals>>,
           lock' \in [Actions \cup Claims -> Requests \cup {Free}],
           txn' \in [Requests -> Txn],
           LockInv'
    PROVE  IndInv'
  <1>1. TypeOK'
    BY DEF IndInv, TypeOK
  <1>2. RowInv' /\ DecidedOnce' /\ OwnerDecides'
    BY DEF IndInv, RowInv, DecidedOnce, OwnerDecides
  <1> QED BY <1>1, <1>2 DEF IndInv

\* A request that ends releases its own locks only.
LEMMA DoneReleases ==
    ASSUME TypeOK, NEW p \in Requests, Done(p)
    PROVE  /\ lock' \in [Actions \cup Claims -> Requests \cup {Free}]
           /\ txn' \in [Requests -> Txn]
           /\ txn'[p].pc = "idle"
           /\ \A q \in Requests \ {p} : txn'[q] = txn[q]
           /\ \A row \in Actions \cup Claims : lock[row] # p => lock'[row] = lock[row]
  <1>1. Idle \in Txn /\ Idle.pc = "idle"
    BY DEF Idle, Txn
  <1> QED BY <1>1 DEF TypeOK, Done

\* The end of a request that wrote nothing.
LEMMA DoneKeepsInv ==
    ASSUME IndInv, NEW p \in Requests, Done(p), UNCHANGED <<actions, approvals>>
    PROVE  IndInv'
  <1>1. LockInv'
    BY DoneReleases DEF IndInv, LockInv
  <1> QED BY <1>1, DoneReleases, TablesKept DEF IndInv

-----------------------------------------------------------------------------
(***************************************************************************)
(* Every step keeps the invariant and is a step of the contract.           *)
(***************************************************************************)

ContractStep == [Contract!Next]_(Contract!vars)

\* A step that leaves the tables alone is a stutter of the contract.
LEMMA TablesKeptIsStutter ==
    ASSUME UNCHANGED <<actions, approvals>>
    PROVE  ContractStep
  BY DEF ContractStep, Contract!vars, ContractState

\* create_proposed_action inserts an action nobody decided yet, and opens it
\* in the contract.
LEMMA ProposeStep ==
    ASSUME IndInv, NEW p \in Requests, NEW u \in Users, NEW c \in Claims, NEW a \in Actions,
           NEW type \in ActionTypes, Propose(p, u, c, a, type)
    PROVE  IndInv' /\ ContractStep
  <1> DEFINE row == [status |-> "WAITING_FOR_APPROVAL", claim |-> c, approved_by |-> Nobody]
  <1>1. /\ Owner[c] = u /\ actions[a] = NoAction
        /\ actions' = [actions EXCEPT ![a] = row]
        /\ UNCHANGED <<approvals, lock, txn>>
    BY DEF Propose, InitialActionStatus
  <1>2. row \in ActionRow
    BY DEF ActionRow, ActionStatuses
  <1>3. /\ \A b \in Actions : actions'[b] = IF b = a THEN row ELSE actions[b]
        /\ actions[a].status = "ABSENT" /\ actions[a].claim = "none"
        /\ row.status = "WAITING_FOR_APPROVAL" /\ row.claim = c /\ row.approved_by = Nobody
    BY <1>1 DEF IndInv, TypeOK, NoAction
  <1> HIDE DEF row
  <1>4. TypeOK'
    BY <1>1, <1>2 DEF IndInv, TypeOK
  <1>5. RowInv'
    BY <1>3 DEF IndInv, RowInv
  <1>6. LockInv'
    BY <1>1, <1>3, ApprovalAssumption DEF IndInv, LockInv
  <1>7. approvals[a] = <<>>
    BY <1>3 DEF IndInv, DecidedOnce, TypeOK
  <1>8. DecidedOnce'
    BY <1>1, <1>3, <1>7 DEF IndInv, DecidedOnce
  <1>9. OwnerDecides'
    BY <1>1, <1>3, <1>7 DEF IndInv, OwnerDecides
  <1>10. ContractStep
    <2>1. Contract!Propose(a, u)
      BY <1>1, <1>3 DEF Contract!Propose, ContractState, IndInv, TypeOK
    <2> QED BY <2>1 DEF ContractStep, Contract!Next
  <1> QED BY <1>4, <1>5, <1>6, <1>8, <1>9, <1>10 DEF IndInv

\* record_action_decision writes the one approval and the status that names it:
\* the contract's atomic decision, by a request that still holds the row lock.
LEMMA DecideStep ==
    ASSUME IndInv, NEW p \in Requests, Decide(p)
    PROVE  IndInv' /\ ContractStep
  <1> SUFFICES ASSUME NEW a, NEW c, NEW verdict, NEW u,
                      a = txn[p].action, c = txn[p].claim, u = txn[p].actor,
                      verdict = DecidedActionStatus(txn[p].decision)
               PROVE  IndInv' /\ ContractStep
    OBVIOUS
  <1> DEFINE approver == IF verdict = "APPROVED" THEN u ELSE Nobody
             row == [actions[a] EXCEPT !.status = verdict, !.approved_by = approver]
             entry == [actor |-> u, decision |-> verdict]
  <1>1. /\ a \in Actions /\ c \in Claims /\ lock[a] = p
        /\ actions[a].claim = c /\ Owner[c] = u /\ u \in Users
        /\ actions[a].status = "WAITING_FOR_APPROVAL"
        /\ verdict \in {"APPROVED", "REJECTED"}
        /\ actions[a] \in ActionRow
    <2>1. /\ txn[p].pc = "decide" /\ a \in Actions /\ c \in Claims /\ lock[a] = p
          /\ actions[a].claim = c /\ Owner[c] = u
          /\ actions[a].status = "WAITING_FOR_APPROVAL"
      BY DEF IndInv, LockInv, Decide
    <2>2. u \in Users
      BY <2>1, ApprovalAssumption
    <2>3. verdict \in {"APPROVED", "REJECTED"}
      BY DEF DecidedActionStatus
    <2>4. actions[a] \in ActionRow
      BY <2>1 DEF IndInv, TypeOK
    <2> QED BY <2>1, <2>2, <2>3, <2>4
  <1>2. /\ approvals[a] = <<>>
        /\ approvals' = [approvals EXCEPT ![a] = Append(@, entry)]
        /\ actions' = [actions EXCEPT ![a] = row]
        /\ Done(p)
    <2>1. approvals[a] = <<>>
      BY <1>1 DEF IndInv, DecidedOnce
    <2>2. /\ approvals' = [approvals EXCEPT ![a] = Append(@, entry)]
          /\ actions' = [actions EXCEPT ![a].status = verdict, ![a].approved_by = approver]
          /\ Done(p)
      BY DEF Decide
    <2>3. actions' = [actions EXCEPT ![a] = row]
      BY <1>1, <2>2 DEF IndInv, TypeOK
    <2> QED BY <2>1, <2>2, <2>3
  <1>3. approver \in Users \cup {Nobody} /\ (verdict = "APPROVED" => approver = u)
        /\ (verdict # "APPROVED" => approver = Nobody)
    BY <1>1
  <1> HIDE DEF approver
  <1>4. /\ row \in ActionRow /\ row.status = verdict /\ row.claim = c
        /\ row.approved_by = approver
    BY <1>1, <1>3 DEF ActionRow, ActionStatuses
  <1>5. entry \in ApprovalRecord /\ entry.actor = u /\ entry.decision = verdict
    BY <1>1 DEF ApprovalRecord
  <1> HIDE DEF row
  <1>6. /\ \A b \in Actions : actions'[b] = IF b = a THEN row ELSE actions[b]
        /\ \A b \in Actions : approvals'[b] = IF b = a THEN <<entry>> ELSE approvals[b]
    <2>1. Append(approvals[a], entry) = <<entry>>
      BY <1>2
    <2>2. approvals' = [approvals EXCEPT ![a] = <<entry>>]
      BY <1>2, <2>1
    <2> QED BY <1>1, <1>2, <2>2 DEF IndInv, TypeOK
  <1>7. <<entry>> \in Seq(ApprovalRecord) /\ Len(<<entry>>) = 1 /\ <<entry>>[1] = entry
        /\ DOMAIN <<entry>> = {1}
    BY <1>5
  <1>8. TypeOK'
    <2>1. approvals' \in [Actions -> Seq(ApprovalRecord)]
      BY <1>1, <1>2, <1>6, <1>7 DEF IndInv, TypeOK
    <2>2. actions' \in [Actions -> ActionRow]
      BY <1>1, <1>2, <1>4 DEF IndInv, TypeOK
    <2> QED BY <1>2, <2>1, <2>2, DoneReleases DEF IndInv, TypeOK
  <1>9. RowInv'
    BY <1>1, <1>4, <1>6 DEF IndInv, RowInv
  <1>10. LockInv'
    <2>1. /\ txn'[p].pc = "idle"
          /\ \A q \in Requests \ {p} : txn'[q] = txn[q]
          /\ \A r \in Actions \cup Claims : lock[r] # p => lock'[r] = lock[r]
      BY <1>2, DoneReleases DEF IndInv
    <2> QED BY <1>1, <1>6, <2>1 DEF IndInv, LockInv
  <1>11. DecidedOnce'
    BY <1>1, <1>4, <1>5, <1>6, <1>7 DEF IndInv, DecidedOnce
  <1>12. OwnerDecides'
    BY <1>1, <1>3, <1>4, <1>5, <1>6, <1>7 DEF IndInv, OwnerDecides
  <1>13. ContractStep
    <2>1. Contract!Decide(a, verdict)
      BY <1>1, <1>2, <1>4, <1>6 DEF Contract!Decide, ContractState, IndInv, TypeOK
    <2> QED BY <1>1, <2>1 DEF ContractStep, Contract!Next
  <1> QED BY <1>8, <1>9, <1>10, <1>11, <1>12, <1>13 DEF IndInv

\* The steps that only move a request or a lock.
LEMMA OtherSteps ==
    ASSUME IndInv, NEW p \in Requests,
           \/ \E c \in Claims, u \in Users, a \in Actions, decision \in Decisions :
                  Request(p, u, c, a, decision)
           \/ \E c \in Claims : UpdateClaim(p, c)
           \/ LockAction(p) \/ NotFound(p) \/ LockClaim(p) \/ CommitClaim(p) \/ Lose(p)
    PROVE  IndInv' /\ UNCHANGED <<actions, approvals>>
  <1>0. /\ lock \in [Actions \cup Claims -> Requests \cup {Free}]
        /\ txn \in [Requests -> Txn] /\ txn[p] \in Txn
        /\ actions \in [Actions -> ActionRow]
        /\ Free \notin Requests
    BY ApprovalAssumption DEF IndInv, TypeOK, Free
  <1>1. CASE NotFound(p) \/ CommitClaim(p) \/ Lose(p)
    BY <1>1, DoneKeepsInv DEF NotFound, CommitClaim, Lose
  <1>2. ASSUME NEW c \in Claims, NEW u \in Users, NEW a \in Actions, NEW decision \in Decisions,
               Request(p, u, c, a, decision)
        PROVE  IndInv' /\ UNCHANGED <<actions, approvals>>
    <2> DEFINE t == [Idle EXCEPT !.pc = "lock.action", !.action = a, !.claim = c,
                                 !.actor = u, !.decision = decision]
    <2>1. txn' = [txn EXCEPT ![p] = t] /\ UNCHANGED <<actions, approvals, lock>>
      BY <1>2 DEF Request
    <2>2. /\ t \in Txn /\ t.pc = "lock.action" /\ t.action = a /\ t.claim = c
          /\ t.actor = u /\ t.decision = decision
      BY DEF Idle, Txn
    <2> HIDE DEF t
    <2>3. LockInv'
      BY <1>0, <2>1, <2>2 DEF IndInv, LockInv
    <2> QED BY <1>0, <2>1, <2>2, <2>3, TablesKept
  <1>3. ASSUME NEW c \in Claims, UpdateClaim(p, c)
        PROVE  IndInv' /\ UNCHANGED <<actions, approvals>>
    <2> DEFINE t == [txn[p] EXCEPT !.pc = "update.claim"]
    <2>1. /\ lock[c] = Free /\ lock' = [lock EXCEPT ![c] = p] /\ txn' = [txn EXCEPT ![p] = t]
          /\ UNCHANGED <<actions, approvals>>
      BY <1>0, <1>3 DEF UpdateClaim, Step
    <2>2. t \in Txn /\ t.pc = "update.claim"
      BY <1>0 DEF Txn
    <2> HIDE DEF t
    <2>3. LockInv'
      BY <1>0, <2>1, <2>2, ApprovalAssumption DEF IndInv, LockInv
    <2> QED BY <1>0, <2>1, <2>2, <2>3, TablesKept
  <1>4. CASE LockAction(p)
    <2> SUFFICES ASSUME NEW a, a = txn[p].action PROVE IndInv' /\ UNCHANGED <<actions, approvals>>
      OBVIOUS
    <2> DEFINE t == [txn[p] EXCEPT !.pc = "lock.claim", !.seen = actions[a].status]
    <2>1. /\ txn[p].pc = "lock.action" /\ lock[a] = Free
          /\ actions[a].claim = txn[p].claim /\ Owner[txn[p].claim] = txn[p].actor
          /\ lock' = [lock EXCEPT ![a] = p] /\ txn' = [txn EXCEPT ![p] = t]
          /\ UNCHANGED <<actions, approvals>>
      BY <1>0, <1>4 DEF LockAction, FoundForOwner
    <2>2. a \in Actions /\ txn[p].claim \in Claims /\ txn[p].decision \in Decisions
      BY <2>1 DEF IndInv, LockInv
    <2>3. actions[a].status \in ActionStatuses \cup {"ABSENT"}
      BY <1>0, <2>2 DEF ActionRow
    <2>4. /\ t \in Txn /\ t.pc = "lock.claim" /\ t.action = a /\ t.claim = txn[p].claim
          /\ t.actor = txn[p].actor /\ t.decision = txn[p].decision /\ t.seen = actions[a].status
      BY <1>0, <2>3 DEF Txn
    <2> HIDE DEF t
    <2>5. LockInv'
      BY <1>0, <2>1, <2>2, <2>4 DEF IndInv, LockInv
    <2> QED BY <1>0, <2>1, <2>2, <2>4, <2>5, TablesKept
  <1>5. CASE LockClaim(p)
    <2>1. CASE ActionIsDecidable(txn[p].seen)
      <3> SUFFICES ASSUME NEW c, c = txn[p].claim PROVE IndInv' /\ UNCHANGED <<actions, approvals>>
        OBVIOUS
      <3> DEFINE t == [txn[p] EXCEPT !.pc = "decide"]
      <3>1. /\ txn[p].pc = "lock.claim" /\ lock[c] = Free
            /\ lock' = [lock EXCEPT ![c] = p] /\ txn' = [txn EXCEPT ![p] = t]
            /\ UNCHANGED <<actions, approvals>>
            /\ txn[p].seen = "WAITING_FOR_APPROVAL"
        BY <1>0, <1>5, <2>1 DEF LockClaim, Step, ActionIsDecidable
      <3>2. c \in Claims
        BY <3>1 DEF IndInv, LockInv
      <3>3. /\ t \in Txn /\ t.pc = "decide" /\ t.action = txn[p].action /\ t.claim = txn[p].claim
            /\ t.actor = txn[p].actor /\ t.decision = txn[p].decision /\ t.seen = txn[p].seen
        BY <1>0 DEF Txn
      <3> HIDE DEF t
      <3>4. LockInv'
        BY <1>0, <3>1, <3>2, <3>3, ApprovalAssumption DEF IndInv, LockInv
      <3> QED BY <1>0, <3>1, <3>2, <3>3, <3>4, TablesKept
    <2>2. CASE ~ActionIsDecidable(txn[p].seen)
      BY <1>5, <2>2, DoneKeepsInv DEF LockClaim
    <2> QED BY <2>1, <2>2
  <1> QED BY <1>1, <1>2, <1>3, <1>4, <1>5

\* Every step keeps the invariant and is a step of the contract or a stutter.
LEMMA NextIndInv == IndInv /\ [Next]_vars => IndInv' /\ ContractStep
  <1> SUFFICES ASSUME IndInv, [Next]_vars PROVE IndInv' /\ ContractStep
    OBVIOUS
  <1>1. CASE UNCHANGED vars
    <2>1. UNCHANGED <<actions, approvals>>
      BY <1>1 DEF vars
    <2>2. IndInv'
      BY <1>1 DEF vars, IndInv, TypeOK, RowInv, LockInv, DecidedOnce, OwnerDecides
    <2> QED BY <2>1, <2>2, TablesKeptIsStutter
  <1>2. ASSUME NEW p \in Requests, NewRequest(p) PROVE IndInv' /\ ContractStep
    <2>1. CASE \E c \in Claims, u \in Users, a \in Actions, type \in ActionTypes :
                   Propose(p, u, c, a, type)
      BY <2>1, ProposeStep
    <2>2. CASE \/ \E c \in Claims, u \in Users, a \in Actions, decision \in Decisions :
                      Request(p, u, c, a, decision)
               \/ \E c \in Claims : UpdateClaim(p, c)
      BY <2>2, OtherSteps, TablesKeptIsStutter
    <2> QED BY <1>2, <2>1, <2>2 DEF NewRequest
  <1>3. ASSUME NEW p \in Requests, Decide(p) PROVE IndInv' /\ ContractStep
    BY <1>3, DecideStep
  <1>4. ASSUME NEW p \in Requests,
               LockAction(p) \/ NotFound(p) \/ LockClaim(p) \/ CommitClaim(p) \/ Lose(p)
        PROVE  IndInv' /\ ContractStep
    BY <1>4, OtherSteps, TablesKeptIsStutter
  <1> QED BY <1>1, <1>2, <1>3, <1>4 DEF Next

\* The inductive invariant holds in every reachable state.
THEOREM Inductive == Spec => []IndInv
  <1>1. IndInv /\ [Next]_vars => IndInv'
    BY NextIndInv
  <1> QED BY <1>1, InitIndInv, PTL DEF Spec

\* Rows, records, locks and requests stay well-formed.
THEOREM TypeCorrect == Spec => []TypeOK
  <1>1. IndInv => TypeOK
    BY DEF IndInv
  <1> QED BY <1>1, Inductive, PTL

\* However many approvals and rejections of an action race, one is recorded
\* and it is the one in force.
THEOREM OneDecisionPerAction == Spec => []DecidedOnce
  <1>1. IndInv => DecidedOnce
    BY DEF IndInv
  <1> QED BY <1>1, Inductive, PTL

\* Only the owner of the claim decides an action, and approved_by tells who.
THEOREM OnlyOwnersDecide == Spec => []OwnerDecides
  <1>1. IndInv => OwnerDecides
    BY DEF IndInv
  <1> QED BY <1>1, Inductive, PTL

\* The transactions and row locks of _decide_action implement a single atomic
\* decision per action.
THEOREM Refinement == Spec => ImplementsContract
  <1>1. Init => Contract!Init
    BY ApprovalAssumption DEF Init, Contract!Init, ContractState, NoAction, Nobody
  <1>2. IndInv /\ [Next]_vars => [Contract!Next]_(Contract!vars)
    BY NextIndInv DEF ContractStep
  <1> QED BY <1>1, <1>2, Inductive, PTL DEF Spec, ImplementsContract, Contract!Spec
=============================================================================
