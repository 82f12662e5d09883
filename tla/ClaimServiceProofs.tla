------------------------- MODULE ClaimServiceProofs -------------------------
(***************************************************************************)
(* Proofs, for any number of claims, users, requests and runs, of the      *)
(* safety properties of ClaimService that survive every race, and of those *)
(* that hold while no two requests are open on one claim, among them that  *)
(* the service implements the lifecycle.                                   *)
(***************************************************************************)
EXTENDS ClaimService, FiniteSetTheorems, TLAPS

CreatedClaims == {c \in Claims : claims[c].status # "ABSENT"}

DocumentedClaims == {c \in CreatedClaims : Missing(c, documents[c]) = {}}

\* Claims some review of which succeeded with a clean result.
BackedClaims == {c \in Claims : \E r \in RunsOf(c) : CleanReview(r)}

\* What a request relies on between its reads and its write.  The statuses it
\* read may be stale by then, but these facts stay true.
SafeTxns ==
    {t \in Txn : t.pc # "idle" =>
        /\ t.claim \in CreatedClaims
        /\ t.pc = "submit.write" => t.to \in {"DOCUMENTS_PENDING", "READY_FOR_REVIEW"}
        /\ t.pc # "submit.documents" /\ t.to # "DOCUMENTS_PENDING" =>
               t.claim \in DocumentedClaims
        /\ t.pc \in {"start.latest", "start.write"} =>
               t.to = "UNDER_REVIEW" /\ t.run \in 1..begun
        /\ t.pc = "nextStep.write" => t.to \in {"NEEDS_INFORMATION", "EXPERT_REVIEW_REQUIRED"}
        /\ t.pc = "decision.write" =>
               t.choice \in {"APPROVE", "REJECT"} /\ t.to = DecisionTarget(t.choice)
        /\ t.pc \in {"nextStep.write", "decision.write"} => t.claim \in BackedClaims}

TxnInv == \A p \in Requests : txn[p] \in SafeTxns

\* A run number belongs to one start transaction at most, and to no run yet
\* while that transaction is open.
Starting == {p \in Requests : txn[p].pc \in {"start.latest", "start.write"}}

RunNumbers ==
    /\ \A r \in RunIds : r > begun => task[r].at = "NONE"
    /\ \A p \in Starting : task[txn[p].run].at = "NONE"
    /\ \A p, q \in Starting : txn[q].run = txn[p].run => q = p

\* What the task of a run relies on at each of its steps.
TaskOK(r) ==
    /\ task[r].missing = {}
    /\ runs[r].missing = {}
    /\ task[r].at = "NONE" => runs[r] = NoRun
    /\ task[r].at # "NONE" => runs[r].status # "ABSENT" /\ runs[r].claim \in DocumentedClaims
    /\ task[r].at = "DONE" <=> runs[r].status \in {"SUCCEEDED", "FAILED"}
    /\ task[r].at = "CHECK_DOCUMENTS" => Missing(runs[r].claim, task[r].documents) = {}
    /\ task[r].at \in {"GENERATE_RECOMMENDATION", "PREPARE_NEXT_ACTION", "COMPLETE"} =>
           task[r].evidence # "none"

TaskInv == \A r \in RunIds : TaskOK(r)

ClaimsOK == DocumentedBeforeReview /\ DecisionBackedByReview /\ TerminalWasDecided

\* The inductive invariant.
IndInv ==
    /\ TypeOK
    /\ TxnInv
    /\ RunNumbers
    /\ TaskInv
    /\ ClaimsOK
    /\ followUps = {}

-----------------------------------------------------------------------------
(***************************************************************************)
(* Lemmas about the document rules.  Only these open MissingDocuments.     *)
(***************************************************************************)

\* Missing documents are document types (document_rules.py: the result lists
\* types of the requirement table).
LEMMA MissingIsTypes ==
    ASSUME NEW product, NEW kind, NEW docs
    PROVE  MissingDocuments(product, kind, docs) \subseteq DocumentTypes
  <1>1. \A q \in DOCUMENT_REQUIREMENTS : q.type \in DocumentTypes
    BY DEF DOCUMENT_REQUIREMENTS, Requirement, DocumentTypes
  <1>2. RequirementsForClaim(product, kind) \subseteq DOCUMENT_REQUIREMENTS
    BY DEF RequirementsForClaim
  <1> QED
    BY <1>1, <1>2 DEF MissingDocuments, RequiredDocuments, DocumentsAtLevel

\* A document more never makes another one missing (document_rules.py: the
\* missing types are the required ones minus the completed ones).
LEMMA MissingShrinks ==
    ASSUME NEW product, NEW kind, NEW less, NEW more, less \subseteq more,
           MissingDocuments(product, kind, less) = {}
    PROVE  MissingDocuments(product, kind, more) = {}
  BY DEF MissingDocuments, CompletedDocumentTypes

-----------------------------------------------------------------------------
(***************************************************************************)
(* What every step leaves alone.                                           *)
(***************************************************************************)

\* A created claim keeps its policy context, documents are only added, and a
\* finished run keeps its row.
Frame ==
    /\ \A c \in Claims : claims[c].status # "ABSENT" =>
           /\ claims'[c].status # "ABSENT"
           /\ claims'[c].product = claims[c].product
           /\ claims'[c].kind = claims[c].kind
    /\ \A c \in Claims : documents[c] \subseteq documents'[c]
    /\ \A r \in RunIds : runs[r].status \in {"SUCCEEDED", "FAILED"} => runs'[r] = runs[r]
    /\ \A r \in RunIds : runs[r].status # "ABSENT" => runs'[r].claim = runs[r].claim

\* What a request or a task learned of a claim stays true (claim_documents is
\* insert-only, a finished run is never rewritten).
LEMMA FactsStable ==
    ASSUME Frame
    PROVE  /\ CreatedClaims \subseteq CreatedClaims'
           /\ DocumentedClaims \subseteq DocumentedClaims'
           /\ BackedClaims \subseteq BackedClaims'
  <1>1. CreatedClaims \subseteq CreatedClaims'
    BY DEF Frame, CreatedClaims
  <1>2. ASSUME NEW c \in DocumentedClaims
        PROVE  c \in DocumentedClaims'
    <2>1. /\ c \in Claims /\ claims[c].status # "ABSENT"
          /\ MissingDocuments(claims[c].product, claims[c].kind, documents[c]) = {}
      BY DEF DocumentedClaims, CreatedClaims, Missing
    <2>2. documents[c] \subseteq documents'[c]
      BY <2>1 DEF Frame
    <2>3. MissingDocuments(claims[c].product, claims[c].kind, documents'[c]) = {}
      BY <2>1, <2>2, MissingShrinks
    <2> QED
      BY <2>1, <2>3 DEF Frame, DocumentedClaims, CreatedClaims, Missing
  <1>3. BackedClaims \subseteq BackedClaims'
    BY DEF Frame, BackedClaims, RunsOf, CleanReview
  <1> QED BY <1>1, <1>2, <1>3

\* What _transition_claim may change: the status of one claim, to the target.
LEMMA TransitionFrame ==
    ASSUME TypeOK, NEW c \in Claims, NEW seen \in ClaimStatuses \cup {"ABSENT"},
           NEW to \in ClaimStatuses, TransitionClaim(c, seen, to)
    PROVE  /\ claims' \in [Claims -> ClaimRow]
           /\ trail' \in [Claims -> Change]
           /\ \A d \in Claims :
                 /\ claims'[d].status = claims[d].status \/ (d = c /\ claims'[d].status = to)
                 /\ claims'[d].product = claims[d].product
                 /\ claims'[d].kind = claims[d].kind
  <1>0. claims \in [Claims -> ClaimRow] /\ trail \in [Claims -> Change]
    BY DEF TypeOK
  <1>1. CASE seen = to
    BY <1>0, <1>1 DEF TransitionClaim
  <1>2. CASE seen # to
    <2>1. /\ claims' = [claims EXCEPT ![c].status = to]
          /\ trail' = [trail EXCEPT ![c] = [from |-> seen, to |-> to]]
      BY <1>2 DEF TransitionClaim
    <2>2. [claims[c] EXCEPT !.status = to] \in ClaimRow
      BY <1>0 DEF ClaimRow
    <2>3. [from |-> seen, to |-> to] \in Change
      BY DEF Change
    <2>4. claims' \in [Claims -> ClaimRow] /\ trail' \in [Claims -> Change]
      BY <1>0, <2>1, <2>2, <2>3
    <2>5. ASSUME NEW d \in Claims
          PROVE  /\ claims'[d].status = claims[d].status \/ (d = c /\ claims'[d].status = to)
                 /\ claims'[d].product = claims[d].product
                 /\ claims'[d].kind = claims[d].kind
      <3>1. CASE d = c
        <4>1. claims'[d] = [claims[d] EXCEPT !.status = to]
          BY <1>0, <2>1, <3>1
        <4>2. claims[d] \in ClaimRow
          BY <1>0
        <4> QED BY <3>1, <4>1, <4>2 DEF ClaimRow
      <3>2. CASE d # c
        BY <1>0, <2>1, <3>2
      <3> QED BY <3>1, <3>2
    <2> QED BY <2>4, <2>5
  <1> QED BY <1>1, <1>2

\* A request keeps its facts over a step of anyone else.
LEMMA TxnStable ==
    ASSUME Frame, TypeOK, begun' \in begun..MaxRuns
    PROVE  SafeTxns \subseteq SafeTxns'
  <1>1. 1..begun \subseteq 1..begun'
    BY ServiceAssumption DEF TypeOK
  <1>2. Txn' = Txn
    BY DEF Txn, RunIds, RunClaim, RequestSteps, Choices
  <1> QED
    BY <1>1, <1>2, FactsStable DEF SafeTxns, DecisionTarget

\* A task keeps its facts over a step that leaves it and its run alone.
LEMMA TaskStable ==
    ASSUME Frame, NEW r \in RunIds, TaskOK(r), task'[r] = task[r], runs'[r] = runs[r]
    PROVE  TaskOK(r)'
  <1>1. task[r].at # "NONE" => runs[r].claim \in DocumentedClaims /\ runs[r].claim \in DocumentedClaims'
    BY FactsStable DEF TaskOK
  <1>2. ASSUME task[r].at = "CHECK_DOCUMENTS"
        PROVE  Missing(runs[r].claim, task[r].documents)' = {}
    <2>1. runs[r].claim \in Claims /\ claims[runs[r].claim].status # "ABSENT"
      BY <1>1, <1>2 DEF DocumentedClaims, CreatedClaims
    <2> QED
      BY <1>2, <2>1 DEF TaskOK, Frame, Missing
  <1> QED
    BY <1>1, <1>2 DEF TaskOK, NoRun

\* The properties of claims survive a write of one status to one claim, when
\* the writer has the facts that status needs.
LEMMA StatusWrite ==
    ASSUME Frame, ClaimsOK, NEW c \in Claims, NEW to,
           \A d \in Claims : \/ claims'[d].status = claims[d].status
                             \/ d = c /\ claims'[d].status = to,
           \A d \in Claims : decided[d] \subseteq decided'[d],
           to \notin {"ABSENT", "DRAFT", "DOCUMENTS_PENDING"} => c \in DocumentedClaims',
           to \in {"READY_FOR_DECISION", "EXPERT_REVIEW_REQUIRED", "APPROVED", "REJECTED"} =>
               c \in BackedClaims',
           to = "APPROVED" => "APPROVE" \in decided'[c],
           to = "REJECTED" => "REJECT" \in decided'[c]
    PROVE  ClaimsOK'
  <1>1. DocumentedBeforeReview'
    BY FactsStable DEF ClaimsOK, DocumentedBeforeReview, DocumentedClaims, CreatedClaims
  <1>2. DecisionBackedByReview'
    BY FactsStable DEF ClaimsOK, DecisionBackedByReview, BackedClaims
  <1>3. TerminalWasDecided'
    BY DEF ClaimsOK, TerminalWasDecided
  <1> QED BY <1>1, <1>2, <1>3 DEF ClaimsOK

-----------------------------------------------------------------------------
(***************************************************************************)
(* The kinds of steps.  Each action below is one of these.                 *)
(***************************************************************************)

\* A request begins or reads: it keeps the record t.
LEMMA RequestRead ==
    ASSUME IndInv, NEW p \in Requests, NEW t \in Txn, Keep(p, t),
           UNCHANGED <<tables, task>>, begun' \in begun..MaxRuns,
           t \in SafeTxns',
           t.pc \in {"start.latest", "start.write"} =>
               /\ task[t.run].at = "NONE"
               /\ \A q \in Starting \ {p} : txn[q].run # t.run
    PROVE  IndInv' /\ Frame
  <1>1. Frame
    BY DEF Frame, tables
  <1>2. TypeOK'
    BY ServiceAssumption DEF IndInv, TypeOK, tables, Keep
  <1>3. TxnInv'
    BY <1>1, TxnStable DEF IndInv, TypeOK, Keep, TxnInv
  <1>4. RunNumbers'
    BY ServiceAssumption DEF IndInv, TypeOK, RunNumbers, Starting, Keep, RunIds
  <1>5. TaskInv'
    <2> SUFFICES ASSUME NEW r \in RunIds PROVE TaskOK(r)'
      BY DEF TaskInv, RunIds
    <2> QED BY <1>1, TaskStable DEF IndInv, TaskInv, tables
  <1>6. ClaimsOK'
    BY DEF IndInv, ClaimsOK, DocumentedBeforeReview, DecisionBackedByReview, TerminalWasDecided,
           Missing, RunsOf, CleanReview, tables
  <1> QED
    BY <1>1, <1>2, <1>3, <1>4, <1>5, <1>6 DEF IndInv, tables

\* A running task moves on without touching a table.
LEMMA TaskRead ==
    ASSUME IndInv, NEW r \in RunIds, NEW t \in Task, task' = [task EXCEPT ![r] = t],
           UNCHANGED <<tables, txn, begun>>,
           task[r].at \notin {"NONE", "DONE"}, t.at \notin {"NONE", "DONE"},
           t.missing = {},
           t.at = "CHECK_DOCUMENTS" => Missing(runs[r].claim, t.documents) = {},
           t.at \in {"GENERATE_RECOMMENDATION", "PREPARE_NEXT_ACTION", "COMPLETE"} =>
               t.evidence # "none"
    PROVE  IndInv' /\ Frame
  <1>1. Frame
    BY DEF Frame, tables
  <1>2. TypeOK'
    BY DEF IndInv, TypeOK, tables
  <1>3. TxnInv'
    BY <1>1, TxnStable DEF IndInv, TypeOK, TxnInv
  <1>4. RunNumbers'
    BY ServiceAssumption DEF IndInv, TypeOK, RunNumbers, Starting
  <1>5. TaskInv'
    <2> SUFFICES ASSUME NEW s \in RunIds PROVE TaskOK(s)'
      BY DEF TaskInv, RunIds
    <2>1. CASE s # r
      BY <1>1, <2>1, TaskStable DEF IndInv, TypeOK, TaskInv, tables
    <2>2. CASE s = r
      <3>1. task'[r] = t /\ runs'[r] = runs[r] /\ TaskOK(r)
        BY DEF IndInv, TypeOK, TaskInv, tables
      <3>2. runs[r].claim \in DocumentedClaims'
        BY <1>1, <3>1, FactsStable DEF TaskOK
      <3>3. Missing(runs[r].claim, t.documents)' = Missing(runs[r].claim, t.documents)
        BY DEF Missing, tables
      <3> QED BY <2>2, <3>1, <3>2, <3>3 DEF TaskOK
    <2> QED BY <2>1, <2>2
  <1>6. ClaimsOK'
    BY DEF IndInv, ClaimsOK, DocumentedBeforeReview, DecisionBackedByReview, TerminalWasDecided,
           Missing, RunsOf, CleanReview, tables
  <1> QED
    BY <1>1, <1>2, <1>3, <1>4, <1>5, <1>6 DEF IndInv, tables

\* A request commits one status to one claim and ends.
LEMMA RequestWrite ==
    ASSUME IndInv, NEW p \in Requests, NEW c, NEW to \in ClaimStatuses,
           txn[p].pc # "idle", txn[p].claim = c, txn[p].to = to, Done(p),
           TransitionClaim(c, txn[p].seen, to),
           UNCHANGED <<documents, runs, followUps, task, begun>>,
           decided' \in [Claims -> SUBSET Choices],
           \A d \in Claims : decided[d] \subseteq decided'[d],
           to \notin {"DRAFT", "DOCUMENTS_PENDING"} => c \in DocumentedClaims,
           to \in {"READY_FOR_DECISION", "EXPERT_REVIEW_REQUIRED", "APPROVED", "REJECTED"} =>
               c \in BackedClaims,
           to = "APPROVED" => "APPROVE" \in decided'[c],
           to = "REJECTED" => "REJECT" \in decided'[c]
    PROVE  IndInv' /\ Frame
  <1>1. /\ c \in Claims /\ claims[c].status # "ABSENT"
        /\ txn[p] \in Txn
        /\ "ABSENT" \notin ClaimStatuses
    BY DEF IndInv, TypeOK, TxnInv, SafeTxns, CreatedClaims, ClaimStatuses
  <1>2. /\ claims' \in [Claims -> ClaimRow]
        /\ trail' \in [Claims -> Change]
        /\ \A d \in Claims :
              /\ claims'[d].status = claims[d].status \/ (d = c /\ claims'[d].status = to)
              /\ claims'[d].product = claims[d].product
              /\ claims'[d].kind = claims[d].kind
    <2>1. txn[p].seen \in ClaimStatuses \cup {"ABSENT"}
      BY <1>1 DEF Txn
    <2> QED BY <1>1, <2>1, TransitionFrame DEF IndInv
  <1>3. Frame
    BY <1>1, <1>2 DEF Frame
  <1>4. Idle \in Txn /\ Idle \in SafeTxns'
    BY DEF Idle, Txn, RunClaim, RequestSteps, Choices, NoChoice, SafeTxns
  <1>5. TypeOK'
    BY <1>2, <1>4 DEF IndInv, TypeOK, Done, Keep
  <1>6. TxnInv'
    BY <1>3, <1>4, ServiceAssumption, TxnStable DEF IndInv, TypeOK, Done, Keep, TxnInv
  <1>7. RunNumbers'
    BY DEF IndInv, TypeOK, RunNumbers, Starting, Done, Keep, Idle
  <1>8. TaskInv'
    <2> SUFFICES ASSUME NEW s \in RunIds PROVE TaskOK(s)'
      BY DEF TaskInv, RunIds
    <2> QED BY <1>3, TaskStable DEF IndInv, TaskInv
  <1>9. ClaimsOK'
    BY <1>1, <1>2, <1>3, FactsStable, StatusWrite DEF IndInv
  <1> QED
    BY <1>3, <1>5, <1>6, <1>7, <1>8, <1>9 DEF IndInv

\* A task writes its run, and may write one status to its claim.
LEMMA TaskWrite ==
    ASSUME IndInv, NEW r \in RunIds, NEW c, NEW to \in ClaimStatuses, NEW row \in RunRow,
           NEW t \in Task,
           task[r].at \notin {"NONE", "DONE"}, t.at # "NONE", t.missing = {},
           t.at \notin {"GENERATE_RECOMMENDATION", "PREPARE_NEXT_ACTION", "COMPLETE"}
               \/ t.evidence # "none",
           t.at = "CHECK_DOCUMENTS" => t.documents = task[r].documents /\ task[r].at = t.at,
           t.at = "DONE" <=> row.status \in {"SUCCEEDED", "FAILED"},
           task' = [task EXCEPT ![r] = t],
           runs[r].claim = c, row.claim = c, row.status # "ABSENT", row.missing = {},
           runs' = [runs EXCEPT ![r] = row],
           (\E seen \in ClaimStatuses \cup {"ABSENT"} : TransitionClaim(c, seen, to))
               \/ UNCHANGED <<claims, trail>>,
           UNCHANGED <<documents, followUps, decided, txn, begun>>,
           to \in {"READY_FOR_REVIEW", "NEEDS_INFORMATION", "READY_FOR_DECISION"},
           to = "READY_FOR_DECISION" => row.status = "SUCCEEDED" /\ row.evidence = "sufficient"
    PROVE  IndInv' /\ Frame
  <1>1. /\ c \in DocumentedClaims /\ c \in Claims
        /\ TaskOK(r) /\ runs[r].status \notin {"ABSENT", "SUCCEEDED", "FAILED"}
    BY DEF IndInv, TaskInv, TaskOK, DocumentedClaims, CreatedClaims
  <1>2. /\ claims' \in [Claims -> ClaimRow]
        /\ trail' \in [Claims -> Change]
        /\ \A d \in Claims :
              /\ claims'[d].status = claims[d].status \/ (d = c /\ claims'[d].status = to)
              /\ claims'[d].product = claims[d].product
              /\ claims'[d].kind = claims[d].kind
    <2>1. CASE UNCHANGED <<claims, trail>>
      BY <2>1 DEF IndInv, TypeOK
    <2>2. CASE \E seen \in ClaimStatuses \cup {"ABSENT"} : TransitionClaim(c, seen, to)
      BY <1>1, <2>2, TransitionFrame DEF IndInv
    <2> QED BY <2>1, <2>2
  <1>3. Frame
    <2>1. \A s \in RunIds : runs'[s] = IF s = r THEN row ELSE runs[s]
      BY DEF IndInv, TypeOK
    <2> QED BY <1>1, <1>2, <2>1 DEF Frame
  <1>4. TypeOK'
    BY <1>2 DEF IndInv, TypeOK
  <1>5. TxnInv'
    BY <1>3, ServiceAssumption, TxnStable DEF IndInv, TypeOK, TxnInv
  <1>6. RunNumbers'
    BY DEF IndInv, TypeOK, RunNumbers, Starting
  <1>7. TaskInv'
    <2> SUFFICES ASSUME NEW s \in RunIds PROVE TaskOK(s)'
      BY DEF TaskInv, RunIds
    <2>1. CASE s # r
      BY <1>3, <2>1, TaskStable DEF IndInv, TypeOK, TaskInv
    <2>2. CASE s = r
      <3>1. task'[r] = t /\ runs'[r] = row
        BY DEF IndInv, TypeOK
      <3>2. c \in DocumentedClaims'
        BY <1>1, <1>3, FactsStable
      <3>3. t.at = "CHECK_DOCUMENTS" => Missing(c, t.documents)' = {}
        BY <1>1, <1>2 DEF Missing, TaskOK
      <3> QED BY <2>2, <3>1, <3>2, <3>3 DEF TaskOK
    <2> QED BY <2>1, <2>2
  <1>8. to = "READY_FOR_DECISION" => c \in BackedClaims'
    BY <1>1 DEF BackedClaims, RunsOf, CleanReview, IndInv, TypeOK
  <1>9. ClaimsOK'
    <2>1. /\ \A d \in Claims : decided[d] \subseteq decided'[d]
          /\ c \in DocumentedClaims'
          /\ \A d \in Claims : claims'[d].status = claims[d].status \/ (d = c /\ claims'[d].status = to)
      BY <1>1, <1>2, <1>3, FactsStable
    <2> QED BY <1>1, <1>3, <1>8, <2>1, StatusWrite DEF IndInv
  <1> QED
    BY <1>3, <1>4, <1>5, <1>6, <1>7, <1>9 DEF IndInv

\* start_claim_review_run commits: the claim is UNDER_REVIEW, the run exists,
\* its background task is queued and the request has ended.
LEMMA StartWriteStep ==
    ASSUME IndInv, NEW p \in Requests, StartWrite(p)
    PROVE  IndInv' /\ Frame
  <1> SUFFICES ASSUME NEW c, NEW r, NEW seen, c = txn[p].claim, r = txn[p].run, seen = txn[p].seen
               PROVE  IndInv' /\ Frame
    OBVIOUS
  <1> DEFINE row == [NoRun EXCEPT !.claim = c, !.status = "RUNNING", !.step = "LOAD_CLAIM"]
  <1>1. /\ c \in DocumentedClaims /\ c \in Claims
        /\ r \in RunIds /\ r \in 1..begun /\ p \in Starting
        /\ task[r].at = "NONE" /\ runs[r].status = "ABSENT"
        /\ seen \in ClaimStatuses \cup {"ABSENT"}
    <2>1. /\ txn[p] \in Txn /\ txn[p].pc = "start.write" /\ txn[p].to = "UNDER_REVIEW"
          /\ txn[p].claim \in DocumentedClaims /\ txn[p].run \in 1..begun
      BY DEF IndInv, TypeOK, TxnInv, SafeTxns, StartWrite
    <2>2. c \in DocumentedClaims /\ c \in Claims /\ seen \in ClaimStatuses \cup {"ABSENT"}
      BY <2>1 DEF DocumentedClaims, CreatedClaims, Txn
    <2>3. r \in 1..begun /\ r \in RunIds /\ p \in Starting
      BY <2>1, ServiceAssumption DEF Starting, RunIds, IndInv, TypeOK
    <2>4. task[r].at = "NONE" /\ runs[r].status = "ABSENT"
      BY <2>3 DEF IndInv, RunNumbers, TaskInv, TaskOK, NoRun
    <2> QED BY <2>2, <2>3, <2>4
  <1>2. /\ TransitionClaim(c, seen, "UNDER_REVIEW")
        /\ runs' = [runs EXCEPT ![r] = row]
        /\ task' = [task EXCEPT ![r].at = "LOAD_CLAIM"]
        /\ Done(p)
        /\ UNCHANGED <<documents, followUps, decided, begun>>
    BY DEF StartWrite, IndInv, TypeOK, TxnInv, SafeTxns
  <1>3. /\ claims' \in [Claims -> ClaimRow]
        /\ trail' \in [Claims -> Change]
        /\ \A d \in Claims :
              /\ claims'[d].status = claims[d].status \/ (d = c /\ claims'[d].status = "UNDER_REVIEW")
              /\ claims'[d].product = claims[d].product
              /\ claims'[d].kind = claims[d].kind
    BY <1>1, <1>2, TransitionFrame DEF IndInv, ClaimStatuses
  <1>4. row \in RunRow /\ row.claim = c /\ row.status = "RUNNING" /\ row.missing = {}
    BY <1>1 DEF RunRow, NoRun, RunClaim, Nodes
  <1>5. /\ \A s \in RunIds : runs'[s] = IF s = r THEN row ELSE runs[s]
        /\ \A s \in RunIds : s # r => task'[s] = task[s]
        /\ task'[r] \in Task /\ task'[r].at = "LOAD_CLAIM" /\ task'[r].missing = {}
    <2>1. /\ task'[r] = [task[r] EXCEPT !.at = "LOAD_CLAIM"]
          /\ task[r] \in Task /\ task[r].missing = {}
      BY <1>1, <1>2 DEF IndInv, TypeOK, TaskInv, TaskOK
    <2>2. task'[r] \in Task /\ task'[r].at = "LOAD_CLAIM" /\ task'[r].missing = {}
      BY <2>1 DEF Task, Nodes
    <2> QED BY <1>1, <1>2, <2>2 DEF IndInv, TypeOK
  <1> HIDE DEF row
  <1>6. Frame
    BY <1>1, <1>2, <1>3, <1>5 DEF Frame
  <1>7. Idle \in Txn /\ Idle \in SafeTxns'
    BY DEF Idle, Txn, RunClaim, RequestSteps, Choices, NoChoice, SafeTxns
  <1>8. TypeOK'
    BY <1>2, <1>3, <1>4, <1>5, <1>7 DEF IndInv, TypeOK, Done, Keep
  <1>9. TxnInv'
    BY <1>2, <1>6, <1>7, ServiceAssumption, TxnStable DEF IndInv, TypeOK, Done, Keep, TxnInv
  <1>10. RunNumbers'
    BY <1>1, <1>2, <1>5, ServiceAssumption DEF IndInv, TypeOK, RunNumbers, Starting, Done, Keep,
           Idle, TxnInv, SafeTxns, RunIds
  <1>11. TaskInv'
    <2> SUFFICES ASSUME NEW s \in RunIds PROVE TaskOK(s)'
      BY DEF TaskInv, RunIds
    <2>1. CASE s # r
      BY <1>5, <1>6, <2>1, TaskStable DEF IndInv, TaskInv
    <2>2. CASE s = r
      <3>1. c \in DocumentedClaims'
        BY <1>1, <1>6, FactsStable
      <3> QED BY <1>4, <1>5, <2>2, <3>1 DEF TaskOK
    <2> QED BY <2>1, <2>2
  <1>12. ClaimsOK'
    <2> SUFFICES ASSUME NEW to, to = "UNDER_REVIEW" PROVE ClaimsOK'
      OBVIOUS
    <2>1. /\ \A d \in Claims : decided[d] \subseteq decided'[d]
          /\ c \in DocumentedClaims'
          /\ \A d \in Claims : claims'[d].status = claims[d].status \/ (d = c /\ claims'[d].status = to)
      BY <1>1, <1>2, <1>3, <1>6, FactsStable
    <2> QED BY <1>1, <1>6, <2>1, StatusWrite DEF IndInv
  <1> QED
    BY <1>2, <1>6, <1>8, <1>9, <1>10, <1>11, <1>12 DEF IndInv

\* create_claim: a DRAFT with no document, run or decision.
LEMMA CreateClaimStep ==
    ASSUME IndInv, NEW p \in Requests, NEW u \in Users, NEW c \in Claims,
           NEW product \in Products, NEW kind \in ClaimTypes,
           CreateClaim(p, u, c, product, kind)
    PROVE  IndInv' /\ Frame
  <1> DEFINE row == [status |-> "DRAFT", owner |-> u, product |-> product, kind |-> kind]
  <1>1. /\ claims[c].status = "ABSENT"
        /\ claims' = [claims EXCEPT ![c] = row]
        /\ UNCHANGED <<documents, runs, followUps, trail, decided, txn, task, begun>>
    BY DEF CreateClaim, NoClaim
  <1>2. row \in ClaimRow /\ row.status = "DRAFT"
    BY ServiceAssumption DEF ClaimRow, ClaimStatuses
  <1>3. \A d \in Claims : claims'[d] = IF d = c THEN row ELSE claims[d]
    BY <1>1 DEF IndInv, TypeOK
  <1> HIDE DEF row
  <1>4. Frame
    BY <1>1, <1>3 DEF Frame
  <1>5. TypeOK'
    BY <1>1, <1>2 DEF IndInv, TypeOK
  <1>6. TxnInv'
    BY <1>1, <1>4, ServiceAssumption, TxnStable DEF IndInv, TypeOK, TxnInv
  <1>7. RunNumbers'
    BY <1>1 DEF IndInv, RunNumbers, Starting
  <1>8. TaskInv'
    <2> SUFFICES ASSUME NEW s \in RunIds PROVE TaskOK(s)'
      BY DEF TaskInv, RunIds
    <2> QED BY <1>1, <1>4, TaskStable DEF IndInv, TaskInv
  <1>9. ClaimsOK'
    <2> SUFFICES ASSUME NEW to, to = "DRAFT" PROVE ClaimsOK'
      OBVIOUS
    <2>1. /\ \A d \in Claims : decided[d] \subseteq decided'[d]
          /\ \A d \in Claims : claims'[d].status = claims[d].status \/ (d = c /\ claims'[d].status = to)
      BY <1>1, <1>2, <1>3
    <2> QED BY <1>4, <2>1, StatusWrite DEF IndInv
  <1> QED
    BY <1>1, <1>4, <1>5, <1>6, <1>7, <1>8, <1>9 DEF IndInv

\* create_claim_document: one row more.
LEMMA CreateDocumentStep ==
    ASSUME IndInv, NEW p \in Requests, NEW u \in Users, NEW c \in Claims,
           NEW document \in Uploads, CreateDocument(p, u, c, document)
    PROVE  IndInv' /\ Frame
  <1>1. /\ documents' = [documents EXCEPT ![c] = @ \cup {document}]
        /\ UNCHANGED <<claims, runs, followUps, trail, decided, txn, task, begun>>
    BY DEF CreateDocument
  <1>2. Frame
    BY <1>1 DEF Frame, IndInv, TypeOK
  <1>3. TypeOK'
    BY <1>1 DEF IndInv, TypeOK
  <1>4. TxnInv'
    BY <1>1, <1>2, ServiceAssumption, TxnStable DEF IndInv, TypeOK, TxnInv
  <1>5. RunNumbers'
    BY <1>1 DEF IndInv, RunNumbers, Starting
  <1>6. TaskInv'
    <2> SUFFICES ASSUME NEW s \in RunIds PROVE TaskOK(s)'
      BY DEF TaskInv, RunIds
    <2> QED BY <1>1, <1>2, TaskStable DEF IndInv, TaskInv
  <1>7. ClaimsOK'
    <2>1. /\ \A d \in Claims : decided[d] \subseteq decided'[d]
          /\ \A d \in Claims : claims'[d].status = claims[d].status
      BY <1>1
    <2> QED BY <1>2, <2>1, FactsStable DEF IndInv, ClaimsOK, DocumentedBeforeReview,
               DecisionBackedByReview, TerminalWasDecided, DocumentedClaims, CreatedClaims, BackedClaims
  <1> QED
    BY <1>1, <1>2, <1>3, <1>4, <1>5, <1>6, <1>7 DEF IndInv

-----------------------------------------------------------------------------
(***************************************************************************)
(* The steps of a request.                                                 *)
(***************************************************************************)

\* The first SELECT of a request.
LEMMA RequestBegins ==
    ASSUME IndInv, NEW p \in Requests, NEW u \in Users, NEW c \in Claims,
           \/ SubmitFetch(p, u, c) \/ StartFetch(p, u, c)
           \/ \E choice \in {"REQUEST_INFORMATION", "ESCALATE_TO_EXPERT"} :
                  NextStepFetch(p, u, c, choice)
           \/ \E choice \in {"APPROVE", "REJECT"} : DecisionFetch(p, u, c, choice)
    PROVE  IndInv' /\ Frame
  <1>0. /\ begun \in 0..MaxRuns /\ txn[p] \in Txn /\ txn[p] \in SafeTxns
        /\ claims[c] \in ClaimRow
    BY DEF IndInv, TypeOK, TxnInv
  <1>1. Idle \in Txn /\ Idle.pc = "idle"
    BY DEF Idle, Txn, RunClaim, RequestSteps, Choices, NoChoice
  <1>2. UNCHANGED <<tables, begun>> => SafeTxns \subseteq SafeTxns' /\ begun' \in begun..MaxRuns
    <2>1. UNCHANGED <<tables, begun>> => Frame
      BY DEF Frame, tables
    <2> QED BY <1>0, <2>1, ServiceAssumption, TxnStable DEF IndInv
  <1>3. CASE SubmitFetch(p, u, c)
    <2> DEFINE t == [Idle EXCEPT !.pc = "submit.documents", !.claim = c, !.seen = claims[c].status]
    <2>1. t \in Txn /\ t.pc = "submit.documents" /\ t.claim = c
      BY <1>0, <1>1 DEF Idle, Txn, RunClaim, RequestSteps, ClaimRow
    <2>2. Keep(p, t) /\ UNCHANGED <<tables, task, begun>> /\ c \in CreatedClaims
      BY <1>3 DEF SubmitFetch, Fetched, OwnedBy, CreatedClaims
    <2> HIDE DEF t
    <2>3. t \in SafeTxns'
      BY <2>1, <2>2, <1>0 DEF SafeTxns, CreatedClaims, Txn, RunIds, RunClaim, tables
    <2> QED BY <1>0, <2>1, <2>2, <2>3, RequestRead, ServiceAssumption
  <1>4. CASE StartFetch(p, u, c)
    <2> DEFINE t == [Idle EXCEPT !.pc = "start.latest", !.claim = c, !.seen = claims[c].status,
                                 !.to = "UNDER_REVIEW", !.run = begun + 1]
    <2>1. /\ claims[c].status = "READY_FOR_REVIEW" /\ begun < MaxRuns /\ begun' = begun + 1
          /\ Keep(p, t) /\ UNCHANGED <<tables, task>>
      BY <1>4 DEF StartFetch
    <2>2. c \in DocumentedClaims
      BY <2>1 DEF IndInv, ClaimsOK, DocumentedBeforeReview, DocumentedClaims, CreatedClaims
    <2>3. begun + 1 \in RunIds /\ begun' \in begun..MaxRuns /\ begun + 1 \in 1..begun'
      BY <1>0, <2>1, ServiceAssumption DEF RunIds
    <2>4. /\ t \in Txn /\ t.pc = "start.latest" /\ t.claim = c
          /\ t.to = "UNDER_REVIEW" /\ t.run = begun + 1
      BY <1>0, <1>1, <2>3 DEF Idle, Txn, RunClaim, RequestSteps, ClaimRow, ClaimStatuses
    <2> HIDE DEF t
    <2>5. Frame
      BY <2>1 DEF Frame, tables
    <2>6. t \in SafeTxns'
      <3>1. c \in CreatedClaims' /\ c \in DocumentedClaims'
        BY <2>2, <2>5, FactsStable DEF DocumentedClaims
      <3>2. Txn' = Txn
        BY DEF Txn, RunIds, RunClaim, RequestSteps, Choices
      <3> SUFFICES ASSUME NEW x, x = t PROVE x \in SafeTxns'
        OBVIOUS
      <3>3. x.run \in 1..begun'
        BY <2>3, <2>4
      <3> QED BY <2>4, <3>1, <3>2, <3>3 DEF SafeTxns
    <2>7. task[t.run].at = "NONE" /\ \A q \in Starting \ {p} : txn[q].run # t.run
      <3>1. \A q \in Starting : txn[q].run \in 1..begun
        BY DEF IndInv, TypeOK, TxnInv, SafeTxns, Starting
      <3> QED BY <1>0, <2>3, <2>4, <3>1, ServiceAssumption DEF IndInv, RunNumbers
    <2> QED BY <2>1, <2>3, <2>4, <2>6, <2>7, RequestRead
  <1>5. claims[c].status = "READY_FOR_DECISION" => c \in DocumentedClaims /\ c \in BackedClaims
    BY DEF IndInv, ClaimsOK, DocumentedBeforeReview, DecisionBackedByReview,
           DocumentedClaims, CreatedClaims, BackedClaims
  <1>6. ASSUME NEW choice \in {"REQUEST_INFORMATION", "ESCALATE_TO_EXPERT"},
               NextStepFetch(p, u, c, choice)
        PROVE  IndInv' /\ Frame
    <2> DEFINE to == NextStepTarget(choice)
               t == [Idle EXCEPT !.pc = "nextStep.write", !.claim = c, !.seen = claims[c].status,
                                 !.to = to, !.choice = choice]
    <2>1. /\ claims[c].status = "READY_FOR_DECISION"
          /\ Keep(p, t) /\ UNCHANGED <<tables, task, begun>>
      BY <1>6 DEF NextStepFetch
    <2>2. to \in {"NEEDS_INFORMATION", "EXPERT_REVIEW_REQUIRED"} /\ to \in ClaimStatuses
      BY DEF NextStepTarget, ClaimStatuses
    <2> HIDE DEF to
    <2>3. /\ t \in Txn /\ t.pc = "nextStep.write" /\ t.claim = c
          /\ t.to \in {"NEEDS_INFORMATION", "EXPERT_REVIEW_REQUIRED"}
      <3>1. /\ claims[c].status \in ClaimStatuses \cup {"ABSENT"}
            /\ choice \in Choices /\ c \in RunClaim /\ "nextStep.write" \in RequestSteps
        BY <1>0 DEF ClaimRow, Choices, RunClaim, RequestSteps
      <3>2. t \in Txn
        BY <1>1, <2>2, <3>1 DEF Txn
      <3>3. t.pc = "nextStep.write" /\ t.claim = c /\ t.to = to
        BY DEF Idle
      <3> QED BY <2>2, <3>2, <3>3
    <2> HIDE DEF t
    <2>4. t \in SafeTxns
      BY <1>5, <2>1, <2>3 DEF SafeTxns, DocumentedClaims
    <2> QED BY <1>2, <2>1, <2>3, <2>4, RequestRead
  <1>7. ASSUME NEW choice \in {"APPROVE", "REJECT"}, DecisionFetch(p, u, c, choice)
        PROVE  IndInv' /\ Frame
    <2> DEFINE to == DecisionTarget(choice)
               t == [Idle EXCEPT !.pc = "decision.write", !.claim = c, !.seen = claims[c].status,
                                 !.to = to, !.choice = choice]
    <2>1. /\ claims[c].status = "READY_FOR_DECISION"
          /\ Keep(p, t) /\ UNCHANGED <<tables, task, begun>>
      BY <1>7 DEF DecisionFetch
    <2>2. to \in {"APPROVED", "REJECTED"} /\ to \in ClaimStatuses
      BY DEF DecisionTarget, ClaimStatuses
    <2> HIDE DEF to
    <2>3. /\ t \in Txn /\ t.pc = "decision.write" /\ t.claim = c
          /\ t.choice = choice /\ t.to = to
      <3>1. /\ claims[c].status \in ClaimStatuses \cup {"ABSENT"}
            /\ choice \in Choices /\ c \in RunClaim /\ "decision.write" \in RequestSteps
        BY <1>0 DEF ClaimRow, Choices, RunClaim, RequestSteps
      <3>2. t \in Txn
        BY <1>1, <2>2, <3>1 DEF Txn
      <3>3. t.pc = "decision.write" /\ t.claim = c /\ t.choice = choice /\ t.to = to
        BY DEF Idle
      <3> QED BY <3>2, <3>3
    <2> HIDE DEF t
    <2>4. t \in SafeTxns
      BY <1>5, <2>1, <2>3 DEF SafeTxns, DocumentedClaims, to
    <2> QED BY <1>2, <2>1, <2>3, <2>4, RequestRead
  <1> QED
    BY <1>3, <1>4, <1>6, <1>7

\* A later SELECT of a request, or its loss.
LEMMA RequestGoesOn ==
    ASSUME IndInv, NEW p \in Requests, SubmitDocuments(p) \/ StartLatest(p) \/ LoseRequest(p)
    PROVE  IndInv' /\ Frame
  <1>0. begun \in 0..MaxRuns /\ txn[p] \in Txn /\ txn[p] \in SafeTxns
    BY DEF IndInv, TypeOK, TxnInv
  <1>1. Idle \in Txn /\ Idle.pc = "idle"
    BY DEF Idle, Txn, RunClaim, RequestSteps, Choices, NoChoice
  <1>2. UNCHANGED <<tables, begun>> => SafeTxns \subseteq SafeTxns' /\ begun' \in begun..MaxRuns
    <2>1. UNCHANGED <<tables, begun>> => Frame
      BY DEF Frame, tables
    <2> QED BY <1>0, <2>1, ServiceAssumption, TxnStable DEF IndInv
  <1>3. CASE SubmitDocuments(p)
    <2> DEFINE d == txn[p].claim
               target == SubmitTarget(Missing(d, documents[d]))
               t == [txn[p] EXCEPT !.pc = "submit.write", !.to = target]
    <2>1. /\ txn[p].pc = "submit.documents" /\ d \in CreatedClaims
          /\ target \in {"DOCUMENTS_PENDING", "READY_FOR_REVIEW"}
          /\ target = "READY_FOR_REVIEW" => d \in DocumentedClaims
      BY <1>0, <1>3 DEF SubmitDocuments, SubmitTarget, SafeTxns, DocumentedClaims
    <2>2. Keep(p, t) /\ UNCHANGED <<tables, task, begun>>
      BY <1>3 DEF SubmitDocuments
    <2> HIDE DEF target
    <2>3. t \in Txn /\ t.pc = "submit.write" /\ t.claim = d /\ t.to = target
      BY <1>0, <2>1 DEF Txn, RequestSteps, ClaimStatuses
    <2> HIDE DEF t, d
    <2>4. Frame
      BY <2>2 DEF Frame, tables
    <2>5. t \in SafeTxns'
      <3>1. d \in CreatedClaims' /\ (target = "READY_FOR_REVIEW" => d \in DocumentedClaims')
        BY <2>1, <2>4, FactsStable
      <3>2. Txn' = Txn
        BY DEF Txn, RunIds, RunClaim, RequestSteps, Choices
      <3> SUFFICES ASSUME NEW x, x = t, NEW y, y = d, NEW z, z = target PROVE x \in SafeTxns'
        OBVIOUS
      <3> QED BY <2>1, <2>3, <3>1, <3>2 DEF SafeTxns
    <2> QED BY <1>0, <2>2, <2>3, <2>5, RequestRead, ServiceAssumption
  <1>4. CASE StartLatest(p)
    <2>1. txn[p].pc = "start.latest" /\ UNCHANGED <<tables, task, begun>>
      BY <1>4 DEF StartLatest
    <2>2. CASE Done(p)
      <3>1. Idle \in SafeTxns'
        BY <1>1, <1>2, <2>1 DEF SafeTxns
      <3> QED BY <1>1, <1>2, <2>1, <2>2, <3>1, RequestRead DEF Done
    <2>3. CASE Keep(p, [txn[p] EXCEPT !.pc = "start.write"])
      <3> DEFINE t == [txn[p] EXCEPT !.pc = "start.write"]
      <3>1. /\ t \in Txn /\ t.pc = "start.write" /\ t.claim = txn[p].claim
            /\ t.to = txn[p].to /\ t.run = txn[p].run
        BY <1>0 DEF Txn, RequestSteps
      <3> HIDE DEF t
      <3>2. t \in SafeTxns
        BY <1>0, <2>1, <3>1 DEF SafeTxns
      <3>3. task[t.run].at = "NONE" /\ \A q \in Starting \ {p} : txn[q].run # t.run
        BY <2>1, <3>1 DEF IndInv, RunNumbers, Starting
      <3> QED BY <1>2, <2>1, <2>3, <3>1, <3>2, <3>3, RequestRead DEF t
    <2> QED BY <1>4, <2>2, <2>3 DEF StartLatest
  <1>5. CASE LoseRequest(p)
    <2>1. Done(p) /\ UNCHANGED <<tables, task, begun>>
      BY <1>5 DEF LoseRequest
    <2>2. Idle \in SafeTxns
      BY <1>1 DEF SafeTxns
    <2> QED BY <1>1, <1>2, <2>1, <2>2, RequestRead DEF Done
  <1> QED
    BY <1>3, <1>4, <1>5

\* The commit of a request that moves a claim.
LEMMA RequestWrites ==
    ASSUME IndInv, NEW p \in Requests, SubmitWrite(p) \/ NextStepWrite(p) \/ DecisionWrite(p)
    PROVE  IndInv' /\ Frame
  <1> SUFFICES ASSUME NEW c, NEW to, c = txn[p].claim, to = txn[p].to
               PROVE  IndInv' /\ Frame
    OBVIOUS
  <1>1. /\ txn[p] \in Txn /\ txn[p] \in SafeTxns
        /\ decided \in [Claims -> SUBSET Choices]
    BY DEF IndInv, TypeOK, TxnInv
  <1>2. CASE SubmitWrite(p)
    <2>1. /\ txn[p].pc = "submit.write" /\ Done(p) /\ TransitionClaim(c, txn[p].seen, to)
          /\ UNCHANGED <<documents, runs, followUps, decided, task, begun>>
      BY <1>2 DEF SubmitWrite
    <2>2. to \in {"DOCUMENTS_PENDING", "READY_FOR_REVIEW"} /\ to \in ClaimStatuses
          /\ (to # "DOCUMENTS_PENDING" => c \in DocumentedClaims)
      BY <1>1, <2>1 DEF SafeTxns, ClaimStatuses
    <2>3. \A d \in Claims : decided[d] \subseteq decided'[d]
      BY <2>1
    <2> QED BY <1>1, <2>1, <2>2, <2>3, RequestWrite
  <1>3. CASE NextStepWrite(p)
    <2>1. /\ txn[p].pc = "nextStep.write" /\ Done(p) /\ TransitionClaim(c, txn[p].seen, to)
          /\ UNCHANGED <<documents, runs, followUps, decided, task, begun>>
      BY <1>3 DEF NextStepWrite
    <2>2. /\ to \in {"NEEDS_INFORMATION", "EXPERT_REVIEW_REQUIRED"} /\ to \in ClaimStatuses
          /\ c \in DocumentedClaims /\ c \in BackedClaims
      BY <1>1, <2>1 DEF SafeTxns, ClaimStatuses
    <2>3. \A d \in Claims : decided[d] \subseteq decided'[d]
      BY <2>1
    <2> QED BY <1>1, <2>1, <2>2, <2>3, RequestWrite
  <1>4. CASE DecisionWrite(p)
    <2>1. /\ txn[p].pc = "decision.write" /\ Done(p) /\ TransitionClaim(c, txn[p].seen, to)
          /\ decided' = [decided EXCEPT ![c] = @ \cup {txn[p].choice}]
          /\ UNCHANGED <<documents, runs, followUps, task, begun>>
      BY <1>4 DEF DecisionWrite
    <2>2. /\ to = DecisionTarget(txn[p].choice) /\ txn[p].choice \in {"APPROVE", "REJECT"}
          /\ to \in ClaimStatuses /\ to \in {"APPROVED", "REJECTED"}
          /\ c \in DocumentedClaims /\ c \in BackedClaims /\ c \in Claims
      BY <1>1, <2>1 DEF SafeTxns, ClaimStatuses, DecisionTarget, DocumentedClaims, CreatedClaims
    <2>3. /\ decided' \in [Claims -> SUBSET Choices]
          /\ \A d \in Claims : decided[d] \subseteq decided'[d]
          /\ txn[p].choice \in decided'[c]
      BY <1>1, <2>1, <2>2 DEF Choices
    <2>4. /\ to = "APPROVED" => "APPROVE" \in decided'[c]
          /\ to = "REJECTED" => "REJECT" \in decided'[c]
      BY <2>2, <2>3 DEF DecisionTarget
    <2> QED BY <1>1, <2>1, <2>2, <2>3, <2>4, RequestWrite
  <1> QED BY <1>2, <1>3, <1>4

-----------------------------------------------------------------------------
(***************************************************************************)
(* The steps of a background task.                                         *)
(***************************************************************************)

\* A node returns the state s: the task is at the next node of the graph.
LEMMA NodeReturns ==
    ASSUME NEW r \in RunIds, NEW s \in Task, s.at \in Nodes, Advance(r, s)
    PROVE  \E t \in Task : /\ task' = [task EXCEPT ![r] = t]
                           /\ t.at = NextNode[s.at]
                           /\ t.documents = s.documents
                           /\ t.missing = s.missing
                           /\ t.evidence = s.evidence
  <1>1. NextNode[s.at] \in Nodes \cup {"COMPLETE"}
    BY DEF NextNode, Nodes
  <1> DEFINE next == NextNode[s.at]
             t == [s EXCEPT !.at = next, !.entered = FALSE]
  <1>2. task' = [task EXCEPT ![r] = t]
    BY DEF Advance
  <1> HIDE DEF next
  <1>3. /\ t \in Task /\ t.at = next
        /\ t.documents = s.documents /\ t.missing = s.missing /\ t.evidence = s.evidence
    BY <1>1 DEF Task, next
  <1> QED BY <1>2, <1>3 DEF next

\* The steps of a review task that write neither claims nor runs: the bodies of
\* the nodes, the SELECTs before its last writes, a raise, and its loss.
LEMMA TaskReads ==
    ASSUME IndInv, NEW r \in RunIds,
           \/ LoadClaim(r) \/ CheckDocuments(r) \/ RetrievePolicy(r) \/ VerifyEvidence(r)
           \/ Recommend(r) \/ ProposeFollowUp(r) \/ CompleteFetch(r) \/ Raise(r)
           \/ FailFetch(r) \/ LoseTask(r)
    PROVE  IndInv' /\ Frame
  <1>1. /\ task[r] \in Task /\ TaskOK(r) /\ task[r].missing = {}
        /\ "NONE" \notin Nodes /\ "DONE" \notin Nodes
        /\ claims \in [Claims -> ClaimRow]
    BY DEF IndInv, TypeOK, TaskInv, TaskOK, Nodes
  <1>2. task[r].at # "NONE" =>
            /\ runs[r].claim \in Claims /\ runs[r].claim \in DocumentedClaims
            /\ documents[runs[r].claim] \in SUBSET Uploads
            /\ claims[runs[r].claim] \in ClaimRow
    BY <1>1 DEF TaskOK, DocumentedClaims, CreatedClaims, IndInv, TypeOK
  <1>3. CASE LoadClaim(r)
    <2> DEFINE docs == documents[runs[r].claim]
               s == [task[r] EXCEPT !.documents = docs]
    <2>1. /\ task[r].at = "LOAD_CLAIM" /\ Advance(r, s) /\ UNCHANGED <<tables, txn, begun>>
      BY <1>3 DEF LoadClaim, InBody
    <2>2. docs \in SUBSET Uploads /\ Missing(runs[r].claim, docs) = {}
      BY <1>2, <2>1 DEF DocumentedClaims
    <2> HIDE DEF docs
    <2>3. s \in Task /\ s.at = "LOAD_CLAIM" /\ s.missing = {} /\ s.documents = docs
      BY <1>1, <2>1, <2>2 DEF Task
    <2> HIDE DEF s
    <2>4. PICK t \in Task : /\ task' = [task EXCEPT ![r] = t]
                            /\ t.at = NextNode["LOAD_CLAIM"]
                            /\ t.documents = docs /\ t.missing = {}
      BY <2>1, <2>3, NodeReturns DEF Nodes
    <2>5. t.at = "CHECK_DOCUMENTS"
      BY <2>4 DEF NextNode
    <2> QED BY <2>1, <2>2, <2>4, <2>5, TaskRead
  <1>4. CASE CheckDocuments(r)
    <2> DEFINE found == Missing(runs[r].claim, task[r].documents)
               s == [task[r] EXCEPT !.missing = found]
    <2>1. /\ task[r].at = "CHECK_DOCUMENTS" /\ Advance(r, s) /\ UNCHANGED <<tables, txn, begun>>
      BY <1>4 DEF CheckDocuments, InBody
    <2>2. found = {}
      BY <1>1, <2>1 DEF TaskOK
    <2> HIDE DEF found
    <2>3. s \in Task /\ s.at = "CHECK_DOCUMENTS" /\ s.missing = {}
      BY <1>1, <2>1, <2>2 DEF Task
    <2> HIDE DEF s
    <2>4. PICK t \in Task : /\ task' = [task EXCEPT ![r] = t]
                            /\ t.at = NextNode["CHECK_DOCUMENTS"] /\ t.missing = {}
      BY <2>1, <2>3, NodeReturns DEF Nodes
    <2>5. t.at = "RETRIEVE_POLICY_EVIDENCE"
      BY <2>4 DEF NextNode
    <2> QED BY <2>1, <2>4, <2>5, TaskRead
  <1>5. CASE RetrievePolicy(r)
    <2>1. PICK found \in BOOLEAN : Advance(r, [task[r] EXCEPT !.chunks = found])
      BY <1>5 DEF RetrievePolicy
    <2> DEFINE s == [task[r] EXCEPT !.chunks = found]
    <2>2. /\ task[r].at = "RETRIEVE_POLICY_EVIDENCE" /\ Advance(r, s)
          /\ UNCHANGED <<tables, txn, begun>>
      BY <1>5, <2>1 DEF RetrievePolicy, InBody
    <2>3. s \in Task /\ s.at = "RETRIEVE_POLICY_EVIDENCE" /\ s.missing = {}
      BY <1>1, <2>2 DEF Task
    <2> HIDE DEF s
    <2>4. PICK t \in Task : /\ task' = [task EXCEPT ![r] = t]
                            /\ t.at = NextNode["RETRIEVE_POLICY_EVIDENCE"] /\ t.missing = {}
      BY <2>2, <2>3, NodeReturns DEF Nodes
    <2>5. t.at = "VERIFY_EVIDENCE"
      BY <2>4 DEF NextNode
    <2> QED BY <2>2, <2>4, <2>5, TaskRead
  <1>6. CASE VerifyEvidence(r)
    <2> DEFINE verdict == IF claims[runs[r].claim].product # "unknown" /\ task[r].chunks
                          THEN "sufficient" ELSE "insufficient"
               s == [task[r] EXCEPT !.evidence = verdict]
    <2>1. /\ task[r].at = "VERIFY_EVIDENCE" /\ Advance(r, s) /\ UNCHANGED <<tables, txn, begun>>
      BY <1>6 DEF VerifyEvidence, InBody
    <2>2. verdict \in {"sufficient", "insufficient"}
      OBVIOUS
    <2> HIDE DEF verdict
    <2>3. s \in Task /\ s.at = "VERIFY_EVIDENCE" /\ s.missing = {} /\ s.evidence = verdict
      BY <1>1, <2>1, <2>2 DEF Task
    <2> HIDE DEF s
    <2>4. PICK t \in Task : /\ task' = [task EXCEPT ![r] = t]
                            /\ t.at = NextNode["VERIFY_EVIDENCE"]
                            /\ t.missing = {} /\ t.evidence = verdict
      BY <2>1, <2>3, NodeReturns DEF Nodes
    <2>5. t.at = "GENERATE_RECOMMENDATION" /\ t.evidence # "none"
      BY <2>2, <2>4 DEF NextNode
    <2> QED BY <2>1, <2>4, <2>5, TaskRead
  <1>7. CASE Recommend(r)
    <2>1. /\ task[r].at = "GENERATE_RECOMMENDATION" /\ Advance(r, task[r])
          /\ UNCHANGED <<tables, txn, begun>>
      BY <1>7 DEF Recommend, InBody
    <2>2. PICK t \in Task : /\ task' = [task EXCEPT ![r] = t]
                            /\ t.at = NextNode["GENERATE_RECOMMENDATION"]
                            /\ t.missing = {} /\ t.evidence = task[r].evidence
      BY <1>1, <2>1, NodeReturns DEF Nodes
    <2>3. t.at = "PREPARE_NEXT_ACTION" /\ t.evidence # "none"
      BY <1>1, <2>1, <2>2 DEF NextNode, TaskOK
    <2> QED BY <2>1, <2>2, <2>3, TaskRead
  <1>8. CASE ProposeFollowUp(r)
    <2>1. /\ task[r].at = "PREPARE_NEXT_ACTION" /\ Advance(r, task[r])
          /\ UNCHANGED <<tables, txn, begun>>
      BY <1>1, <1>8 DEF ProposeFollowUp, InBody, tables
    <2>2. PICK t \in Task : /\ task' = [task EXCEPT ![r] = t]
                            /\ t.at = NextNode["PREPARE_NEXT_ACTION"]
                            /\ t.missing = {} /\ t.evidence = task[r].evidence
      BY <1>1, <2>1, NodeReturns DEF Nodes
    <2>3. t.at = "COMPLETE" /\ t.evidence # "none"
      BY <1>1, <2>1, <2>2 DEF NextNode, TaskOK
    <2> QED BY <2>1, <2>2, <2>3, TaskRead
  <1>9. CASE CompleteFetch(r) \/ FailFetch(r)
    <2> DEFINE seen == claims[runs[r].claim].status
               t == [task[r] EXCEPT !.seen = seen, !.entered = TRUE]
    <2>1. /\ task[r].at \in {"COMPLETE", "FAIL"} /\ task' = [task EXCEPT ![r] = t]
          /\ UNCHANGED <<tables, txn, begun>>
      BY <1>9 DEF CompleteFetch, FailFetch
    <2>2. seen \in ClaimStatuses \cup {"ABSENT"}
      BY <1>2, <2>1 DEF ClaimRow
    <2> HIDE DEF seen
    <2>3. t \in Task /\ t.at = task[r].at /\ t.missing = {} /\ t.evidence = task[r].evidence
      BY <1>1, <2>1, <2>2 DEF Task
    <2>4. t.at = "COMPLETE" => t.evidence # "none"
      BY <1>1, <2>3 DEF TaskOK
    <2> HIDE DEF t
    <2> QED BY <2>1, <2>3, <2>4, TaskRead
  <1>10. CASE Raise(r) \/ LoseTask(r)
    <2> SUFFICES ASSUME NEW at \in {"FAIL", "LOST"}, task' = [task EXCEPT ![r] = [NoTask EXCEPT !.at = at]]
                 PROVE  IndInv' /\ Frame
      BY <1>10 DEF Raise, LoseTask
    <2> DEFINE t == [NoTask EXCEPT !.at = at]
    <2>1. task[r].at \notin {"NONE", "DONE"} /\ UNCHANGED <<tables, txn, begun>>
      BY <1>10 DEF Raise, LoseTask, Nodes
    <2>2. t \in Task /\ t.at = at /\ t.missing = {}
      BY DEF Task, NoTask
    <2> HIDE DEF t
    <2> QED BY <2>1, <2>2, TaskRead DEF t
  <1> QED
    BY <1>3, <1>4, <1>5, <1>6, <1>7, <1>8, <1>9, <1>10

\* The steps of a review task that write its run: record_claim_review_progress,
\* complete_claim_review_run and fail_claim_review_run.
LEMMA TaskWrites ==
    ASSUME IndInv, NEW r \in RunIds, Progress(r) \/ CompleteWrite(r) \/ FailWrite(r)
    PROVE  IndInv' /\ Frame
  <1>1. /\ task[r] \in Task /\ TaskOK(r) /\ runs[r] \in RunRow
        /\ "NONE" \notin Nodes /\ "DONE" \notin Nodes
    BY DEF IndInv, TypeOK, TaskInv, TaskOK, Nodes
  <1> DEFINE done == [NoTask EXCEPT !.at = "DONE"]
  <1>2. done \in Task /\ done.at = "DONE" /\ done.missing = {}
    BY DEF Task, NoTask
  <1>3. CASE Progress(r)
    <2> DEFINE t == [task[r] EXCEPT !.entered = TRUE]
               row == [runs[r] EXCEPT !.status = "RUNNING", !.step = task[r].at]
    <2>1. /\ task[r].at \in Nodes
          /\ task' = [task EXCEPT ![r] = t] /\ runs' = [runs EXCEPT ![r] = row]
          /\ UNCHANGED <<claims, documents, followUps, trail, decided, txn, begun>>
      BY <1>1, <1>3 DEF Progress, IndInv, TypeOK
    <2>2. /\ t \in Task /\ t.at = task[r].at /\ t.missing = {}
          /\ t.documents = task[r].documents /\ t.evidence = task[r].evidence
      BY <1>1 DEF Task, TaskOK
    <2>3. /\ row \in RunRow /\ row.status = "RUNNING" /\ row.claim = runs[r].claim
          /\ row.missing = {}
      BY <1>1, <2>1 DEF RunRow, TaskOK
    <2> HIDE DEF t, row
    <2> SUFFICES ASSUME NEW to, to = "READY_FOR_REVIEW" PROVE IndInv' /\ Frame
      OBVIOUS
    <2>4. to \in ClaimStatuses
      BY DEF ClaimStatuses
    <2>5. /\ t.at \notin {"GENERATE_RECOMMENDATION", "PREPARE_NEXT_ACTION", "COMPLETE"}
                 \/ t.evidence # "none"
          /\ t.at = "DONE" <=> row.status \in {"SUCCEEDED", "FAILED"}
          /\ task[r].at \notin {"NONE", "DONE"} /\ t.at # "NONE"
      BY <1>1, <2>1, <2>2, <2>3 DEF TaskOK
    <2> QED BY <2>1, <2>2, <2>3, <2>4, <2>5, TaskWrite
  <1>4. CASE CompleteWrite(r)
    <2> DEFINE target == ReviewTarget(task[r].missing, task[r].evidence)
               row == [runs[r] EXCEPT !.status = "SUCCEEDED", !.step = "COMPLETED",
                                      !.missing = task[r].missing, !.evidence = task[r].evidence]
    <2>1. /\ task[r].at = "COMPLETE" /\ TransitionClaim(runs[r].claim, task[r].seen, target)
          /\ task' = [task EXCEPT ![r] = done] /\ runs' = [runs EXCEPT ![r] = row]
          /\ UNCHANGED <<documents, followUps, decided, txn, begun>>
      BY <1>1, <1>4 DEF CompleteWrite, InBody, IndInv, TypeOK
    <2>2. /\ row \in RunRow /\ row.status = "SUCCEEDED" /\ row.claim = runs[r].claim
          /\ row.missing = {} /\ row.evidence = task[r].evidence
      BY <1>1, <2>1 DEF RunRow, Task, TaskOK
    <2>3. target \in {"NEEDS_INFORMATION", "READY_FOR_DECISION"} /\ target \in ClaimStatuses
      BY DEF ReviewTarget, ClaimStatuses
    <2>4. target = "READY_FOR_DECISION" => row.evidence = "sufficient"
      <3>1. task[r].evidence \in {"none", "sufficient", "insufficient"} /\ task[r].evidence # "none"
        BY <1>1, <2>1 DEF Task, TaskOK
      <3> QED BY <2>2, <3>1 DEF ReviewTarget
    <2>5. task[r].seen \in ClaimStatuses \cup {"ABSENT"}
      BY <1>1 DEF Task
    <2> HIDE DEF row, target, done
    <2> SUFFICES ASSUME NEW to, to = target PROVE IndInv' /\ Frame
      OBVIOUS
    <2>6. \E seen \in ClaimStatuses \cup {"ABSENT"} : TransitionClaim(runs[r].claim, seen, to)
      BY <2>1, <2>5
    <2>7. /\ to \in {"READY_FOR_REVIEW", "NEEDS_INFORMATION", "READY_FOR_DECISION"}
          /\ to = "READY_FOR_DECISION" => row.status = "SUCCEEDED" /\ row.evidence = "sufficient"
          /\ to \in ClaimStatuses
      BY <2>2, <2>3, <2>4
    <2>8. task[r].at \notin {"NONE", "DONE"}
      BY <2>1
    <2> QED BY <1>2, <2>1, <2>2, <2>6, <2>7, <2>8, TaskWrite
  <1>5. CASE FailWrite(r)
    <2> DEFINE row == [runs[r] EXCEPT !.status = "FAILED", !.step = "FAILED"]
    <2>1. /\ task[r].at = "FAIL"
          /\ task' = [task EXCEPT ![r] = done] /\ runs' = [runs EXCEPT ![r] = row]
          /\ UNCHANGED <<documents, followUps, decided, txn, begun>>
      BY <1>1, <1>5 DEF FailWrite, InBody, IndInv, TypeOK
    <2>2. /\ row \in RunRow /\ row.status = "FAILED" /\ row.claim = runs[r].claim
          /\ row.missing = {}
      BY <1>1 DEF RunRow, TaskOK
    <2>3. task[r].seen \in ClaimStatuses \cup {"ABSENT"}
      BY <1>1 DEF Task
    <2> HIDE DEF row, done
    <2> SUFFICES ASSUME NEW to, to = "READY_FOR_REVIEW" PROVE IndInv' /\ Frame
      OBVIOUS
    <2>4. \/ \E seen \in ClaimStatuses \cup {"ABSENT"} : TransitionClaim(runs[r].claim, seen, to)
          \/ UNCHANGED <<claims, trail>>
      BY <1>5, <2>3 DEF FailWrite
    <2>5. to \in ClaimStatuses /\ task[r].at \notin {"NONE", "DONE"}
      BY <2>1 DEF ClaimStatuses
    <2> QED BY <1>2, <2>1, <2>2, <2>4, <2>5, TaskWrite
  <1> QED BY <1>3, <1>4, <1>5

-----------------------------------------------------------------------------
(***************************************************************************)
(* The invariant and the theorems.                                         *)
(***************************************************************************)

\* No claim, no run and no request: every part holds at the start (Init).
LEMMA InitIndInv == Init => IndInv
  <1> SUFFICES ASSUME Init PROVE IndInv
    OBVIOUS
  <1>1. TypeOK
    <2>1. NoClaim \in ClaimRow /\ NoRun \in RunRow /\ Idle \in Txn /\ NoTask \in Task
      BY DEF NoClaim, ClaimRow, ProductLines, NoRun, RunRow, RunClaim, Idle, Txn,
             RequestSteps, Choices, NoChoice, NoTask, Task
    <2>2. [from |-> "ABSENT", to |-> "DRAFT"] \in Change
      BY DEF Change, ClaimStatuses
    <2> QED BY <2>1, <2>2, ServiceAssumption DEF Init, TypeOK
  <1>2. TxnInv
    BY <1>1 DEF Init, TypeOK, TxnInv, SafeTxns, Idle
  <1>3. RunNumbers
    BY DEF Init, RunNumbers, Starting, Idle, NoTask
  <1>4. TaskInv
    BY DEF Init, TaskInv, TaskOK, NoTask, NoRun
  <1>5. ClaimsOK
    BY DEF Init, ClaimsOK, DocumentedBeforeReview, DecisionBackedByReview, TerminalWasDecided, NoClaim
  <1> QED
    BY <1>1, <1>2, <1>3, <1>4, <1>5 DEF Init, IndInv

\* Every request, task step and loss keeps the invariant and the frame.
LEMMA NextIndInv == IndInv /\ Next => IndInv' /\ Frame
  <1> SUFFICES ASSUME IndInv, Next PROVE IndInv' /\ Frame
    OBVIOUS
  <1>1. ASSUME NEW p \in Requests, NewRequest(p) PROVE IndInv' /\ Frame
    <2>1. PICK u \in Users, c \in Claims :
              \/ \E product \in Products, kind \in ClaimTypes : CreateClaim(p, u, c, product, kind)
              \/ \E document \in Uploads : CreateDocument(p, u, c, document)
              \/ SubmitFetch(p, u, c)
              \/ StartFetch(p, u, c)
              \/ \E choice \in {"REQUEST_INFORMATION", "ESCALATE_TO_EXPERT"} :
                     NextStepFetch(p, u, c, choice)
              \/ \E choice \in {"APPROVE", "REJECT"} : DecisionFetch(p, u, c, choice)
      BY <1>1 DEF NewRequest
    <2> QED BY <2>1, CreateClaimStep, CreateDocumentStep, RequestBegins
  <1>2. ASSUME NEW p \in Requests, RequestStep(p) \/ LoseRequest(p) PROVE IndInv' /\ Frame
    <2>1. CASE SubmitDocuments(p) \/ StartLatest(p) \/ LoseRequest(p)
      BY <2>1, RequestGoesOn
    <2>2. CASE SubmitWrite(p) \/ NextStepWrite(p) \/ DecisionWrite(p)
      BY <2>2, RequestWrites
    <2>3. CASE StartWrite(p)
      BY <2>3, StartWriteStep
    <2> QED BY <1>2, <2>1, <2>2, <2>3 DEF RequestStep
  <1>3. ASSUME NEW r \in RunIds, TaskStep(r) \/ LoseTask(r) PROVE IndInv' /\ Frame
    BY <1>3, TaskReads, TaskWrites DEF TaskStep
  <1> QED
    BY <1>1, <1>2, <1>3 DEF Next

\* So does a step that changes nothing.
LEMMA StutterIndInv == IndInv /\ UNCHANGED vars => IndInv' /\ Frame
  <1> SUFFICES ASSUME IndInv, UNCHANGED vars PROVE IndInv' /\ Frame
    OBVIOUS
  <1> USE DEF vars
  <1>1. Frame
    BY DEF Frame
  <1>2. TypeOK' /\ TxnInv' /\ RunNumbers'
    <2>1. TypeOK'
      BY DEF IndInv, TypeOK
    <2>2. begun' \in begun..MaxRuns
      BY ServiceAssumption DEF IndInv, TypeOK
    <2>3. TxnInv'
      BY <1>1, <2>2, TxnStable DEF IndInv, TxnInv
    <2> QED BY <2>1, <2>3 DEF IndInv, RunNumbers, Starting
  <1>3. TaskInv'
    <2> SUFFICES ASSUME NEW s \in RunIds PROVE TaskOK(s)'
      BY DEF TaskInv, RunIds
    <2> QED BY <1>1, TaskStable DEF IndInv, TaskInv
  <1>4. ClaimsOK'
    BY DEF IndInv, ClaimsOK, DocumentedBeforeReview, DecisionBackedByReview, TerminalWasDecided,
           Missing, RunsOf, CleanReview
  <1> QED BY <1>1, <1>2, <1>3, <1>4 DEF IndInv

\* The inductive invariant holds in every reachable state of the claim service.
THEOREM Inductive == Spec => []IndInv
  <1>1. IndInv /\ [Next]_vars => IndInv'
    BY NextIndInv, StutterIndInv
  <1> QED BY <1>1, InitIndInv, PTL DEF Spec

\* Every table, transaction and task of service.py stays well-formed.
THEOREM TypeCorrect == Spec => []TypeOK
  <1>1. IndInv => TypeOK
    BY DEF IndInv
  <1> QED BY <1>1, Inductive, PTL

\* However submissions, reviews and decisions race, a claim past
\* DOCUMENTS_PENDING has all its required documents.
THEOREM AlwaysDocumented == Spec => []DocumentedBeforeReview
  <1>1. IndInv => DocumentedBeforeReview
    BY DEF IndInv, ClaimsOK
  <1> QED BY <1>1, Inductive, PTL

\* No review started through start_claim_review_run reports a missing
\* document, and propose_jira_node never proposes a follow-up.
THEOREM ReviewsAreComplete == Spec => []ReviewFindsNothingMissing
  <1>1. IndInv => ReviewFindsNothingMissing
    BY DEF IndInv, ReviewFindsNothingMissing, TaskInv, TaskOK
  <1> QED BY <1>1, Inductive, PTL

\* However requests and background tasks race, a claim is ready for a
\* decision, escalated or decided only after a clean review of it.
THEOREM DecisionsAreBacked == Spec => []DecisionBackedByReview
  <1>1. IndInv => DecisionBackedByReview
    BY DEF IndInv, ClaimsOK
  <1> QED BY <1>1, Inductive, PTL

\* A claim is APPROVED or REJECTED only by a recorded human decision.
THEOREM HumansDecide == Spec => []TerminalWasDecided
  <1>1. IndInv => TerminalWasDecided
    BY DEF IndInv, ClaimsOK
  <1> QED BY <1>1, Inductive, PTL

\* A finished review run never changes: no step of record progress,
\* completion or failure of any task rewrites it.
THEOREM FinishedRunsStay == Spec => FinishedRunIsFinal
  <1>1. IndInv /\ [Next]_vars =>
            [\A r \in RunIds : runs[r].status \in {"SUCCEEDED", "FAILED"} => runs'[r] = runs[r]]_runs
    BY NextIndInv, StutterIndInv DEF Frame
  <1> QED BY <1>1, Inductive, PTL DEF Spec, FinishedRunIsFinal
-----------------------------------------------------------------------------
(***************************************************************************)
(* One request to a claim at a time.  Then a request writes the status it  *)
(* read, and only a review moves a claim that is UNDER_REVIEW.             *)
(***************************************************************************)

\* The review of a claim, its decision and its audit trail agree with its status.
ClaimOK(c) ==
    /\ \A r, s \in ActiveRuns(c) : r = s
    /\ claims[c].status = "UNDER_REVIEW" <=> ActiveRuns(c) # {}
    /\ \A r \in ActiveRuns(c) : IsLatestRun(c, r)
    /\ claims[c].status = "READY_FOR_DECISION" =>
           \E r \in RunIds : IsLatestRun(c, r) /\ CleanReview(r)
    /\ decided[c] # {} =>
           \/ decided[c] = {"APPROVE"} /\ claims[c].status = "APPROVED"
           \/ decided[c] = {"REJECT"} /\ claims[c].status = "REJECTED"
    /\ trail[c].to = IF claims[c].status = "ABSENT" THEN "DRAFT" ELSE claims[c].status

\* What a request read is still so, and the run it starts will be the newest.
CurrentTxns ==
    {t \in Txn : t.pc # "idle" =>
        /\ claims[t.claim].status = t.seen
        /\ t.pc \in {"submit.documents", "submit.write"} =>
               t.seen \in {"DRAFT", "DOCUMENTS_PENDING", "NEEDS_INFORMATION"}
        /\ t.pc \in {"start.latest", "start.write"} =>
               t.seen = "READY_FOR_REVIEW" /\ \A r \in RunsOf(t.claim) : r < t.run
        /\ t.pc \in {"nextStep.write", "decision.write"} => t.seen = "READY_FOR_DECISION"}

\* A review that is about to give its claim back read it UNDER_REVIEW.
ReturnOK(r) ==
    task[r].at \in {"COMPLETE", "FAIL"} /\ task[r].entered => task[r].seen = "UNDER_REVIEW"

SerialInv ==
    /\ \A c \in Claims : ClaimOK(c)
    /\ \A p \in Requests : txn[p] \in CurrentTxns
    /\ \A r \in RunIds : ReturnOK(r)

\* What a step does to a claim the invariant speaks of: nothing.
Untouched(c) ==
    /\ claims'[c].status = claims[c].status
    /\ trail'[c] = trail[c]
    /\ decided'[c] = decided[c]
    /\ RunsOf(c)' = RunsOf(c)
    /\ ActiveRuns(c)' = ActiveRuns(c)

\* What the step of a request or a task may do when the invariant holds: it
\* continues the audit trail and is a step of the lifecycle, or none.
SerialStep ==
    /\ \A c \in Claims : trail'[c] # trail[c] => trail'[c].from = trail[c].to
    /\ [Lifecycle!Next]_(Lifecycle!vars)

-----------------------------------------------------------------------------
\* A task that has begun and not ended belongs to an active run of a claim
\* (execute_claim_review_run: only its last write finishes the run).
LEMMA ActiveTask ==
    ASSUME IndInv, NEW r \in RunIds, task[r].at \notin {"NONE", "DONE"}
    PROVE  /\ runs[r].claim \in Claims
           /\ r \in ActiveRuns(runs[r].claim)
  <1>1. runs[r] \in RunRow /\ TaskOK(r)
    BY DEF IndInv, TypeOK, TaskInv
  <1>2. runs[r].claim \in Claims /\ runs[r].status \in {"QUEUED", "RUNNING"}
    BY <1>1 DEF TaskOK, RunRow, DocumentedClaims, CreatedClaims
  <1> QED BY <1>2 DEF ActiveRuns, RunsOf

\* A run of a claim was numbered by a start transaction that has begun, and
\* its claim exists (start_claim_review_run).
LEMMA RunsAreNumbered ==
    ASSUME IndInv, NEW c \in Claims, NEW r \in RunsOf(c)
    PROVE  r \in 1..begun /\ claims[c].status # "ABSENT"
  <1>1. r \in RunIds /\ runs[r].claim = c /\ runs[r] # NoRun
    BY ServiceAssumption DEF RunsOf, NoRun
  <1>2. task[r].at # "NONE" /\ c \in DocumentedClaims
    BY <1>1 DEF IndInv, TaskInv, TaskOK
  <1> QED
    BY <1>1, <1>2, ServiceAssumption
       DEF RunIds, IndInv, TypeOK, RunNumbers, DocumentedClaims, CreatedClaims

\* The invariant needs to be shown of the claims, requests and tasks a step
\* touches only.
LEMMA SerialFrame ==
    ASSUME IndInv, SerialInv, Frame,
           \A c \in Claims : Untouched(c) \/ ClaimOK(c)',
           \A p \in Requests :
               \/ txn'[p] \in CurrentTxns'
               \/ txn'[p] = txn[p] /\ (txn[p].pc # "idle" => Untouched(txn[p].claim)),
           \A r \in RunIds : task'[r] = task[r] \/ ReturnOK(r)'
    PROVE  SerialInv'
  <1>1. ASSUME NEW c \in Claims, Untouched(c) PROVE ClaimOK(c)'
    <2>1. ClaimOK(c)
      BY DEF SerialInv
    <2>2. \A r \in RunIds : CleanReview(r) => CleanReview(r)'
      BY DEF Frame, CleanReview
    <2>3. \A r \in RunIds : IsLatestRun(c, r) => IsLatestRun(c, r)'
      BY <1>1 DEF Untouched, IsLatestRun
    <2>4. \A r, s \in ActiveRuns(c)' : r = s
      BY <1>1, <2>1 DEF Untouched, ClaimOK
    <2>5. claims'[c].status = "READY_FOR_DECISION" =>
              \E r \in RunIds : IsLatestRun(c, r)' /\ CleanReview(r)'
      BY <1>1, <2>1, <2>2, <2>3 DEF Untouched, ClaimOK
    <2>6. \A r \in ActiveRuns(c)' : IsLatestRun(c, r)'
      BY <1>1, <2>1, <2>3 DEF Untouched, ClaimOK, ActiveRuns, RunsOf
    <2> QED
      BY <1>1, <2>1, <2>4, <2>5, <2>6 DEF Untouched, ClaimOK, RunIds
  <1>2. ASSUME NEW t \in CurrentTxns, t.pc # "idle" => Untouched(t.claim)
        PROVE  t \in CurrentTxns'
    <2>1. Txn' = Txn
      BY DEF Txn, RunIds, RunClaim, RequestSteps, Choices
    <2> QED BY <1>2, <2>1 DEF CurrentTxns, Untouched
  <1>3. \A p \in Requests : txn'[p] \in CurrentTxns'
    BY <1>2 DEF SerialInv
  <1>4. \A r \in RunIds : ReturnOK(r)'
    BY DEF SerialInv, ReturnOK
  <1> QED BY <1>1, <1>3, <1>4 DEF SerialInv, RunIds

\* A step that leaves the statuses, runs, decisions and audit events of all
\* claims alone is no step of the lifecycle.
LEMMA QuietStep ==
    ASSUME IndInv, SerialInv, Frame,
           \A c \in Claims : Untouched(c),
           \A p \in Requests : txn'[p] = txn[p] \/ txn'[p] \in CurrentTxns',
           \A r \in RunIds : task'[r] = task[r] \/ ReturnOK(r)'
    PROVE  SerialInv' /\ SerialStep
  <1>1. \A p \in Requests : txn[p].pc # "idle" => txn[p].claim \in Claims
    BY DEF IndInv, TxnInv, SafeTxns, CreatedClaims
  <1>2. SerialInv'
    BY <1>1, SerialFrame
  <1>3. UNCHANGED Lifecycle!vars
    BY DEF Untouched, Lifecycle!vars
  <1> QED BY <1>2, <1>3 DEF SerialStep, Untouched

\* In particular a step that writes neither claims nor runs.
LEMMA TablesKept ==
    ASSUME UNCHANGED <<claims, runs, trail, decided>>
    PROVE  /\ \A c \in Claims : Untouched(c)
           /\ CurrentTxns' = CurrentTxns
  BY DEF Untouched, RunsOf, ActiveRuns, RunIds, CurrentTxns, Txn, RunClaim, RequestSteps, Choices

-----------------------------------------------------------------------------
\* A request keeps what is still so, and touches nothing else.
LEMMA SerialKeep ==
    ASSUME IndInv, IndInv', SerialInv, Frame, NEW p \in Requests, NEW t,
           Keep(p, t), t \in Txn => t \in CurrentTxns, UNCHANGED <<tables, task>>
    PROVE  SerialInv' /\ SerialStep
  <1>1. txn'[p] = t /\ \A q \in Requests : q # p => txn'[q] = txn[q]
    BY DEF Keep, IndInv, TypeOK
  <1>2. (\A c \in Claims : Untouched(c)) /\ CurrentTxns' = CurrentTxns
    BY TablesKept DEF tables
  <1>3. t \in Txn
    BY <1>1 DEF IndInv, TypeOK, Txn, RunIds, RunClaim, RequestSteps, Choices
  <1> QED BY <1>1, <1>2, <1>3, QuietStep

\* A request reads its claim.
LEMMA SerialRequestBegins ==
    ASSUME IndInv, IndInv', SerialInv, Frame, NEW p \in Requests, NEW u \in Users, NEW c \in Claims,
           \/ SubmitFetch(p, u, c) \/ StartFetch(p, u, c)
           \/ \E choice \in {"REQUEST_INFORMATION", "ESCALATE_TO_EXPERT"} :
                  NextStepFetch(p, u, c, choice)
           \/ \E choice \in {"APPROVE", "REJECT"} : DecisionFetch(p, u, c, choice)
    PROVE  SerialInv' /\ SerialStep
  <1>1. CASE SubmitFetch(p, u, c)
    <2> DEFINE t == [Idle EXCEPT !.pc = "submit.documents", !.claim = c, !.seen = claims[c].status]
    <2>1. /\ claims[c].status \in {"DRAFT", "DOCUMENTS_PENDING", "NEEDS_INFORMATION"}
          /\ Keep(p, t) /\ UNCHANGED <<tables, task>>
      BY <1>1 DEF SubmitFetch
    <2>2. t.pc = "submit.documents" /\ t.claim = c /\ t.seen = claims[c].status
      BY DEF Idle
    <2> HIDE DEF t
    <2> QED BY <2>1, <2>2, SerialKeep DEF CurrentTxns
  <1>2. CASE StartFetch(p, u, c)
    <2> DEFINE t == [Idle EXCEPT !.pc = "start.latest", !.claim = c, !.seen = claims[c].status,
                                 !.to = "UNDER_REVIEW", !.run = begun + 1]
    <2>1. /\ claims[c].status = "READY_FOR_REVIEW"
          /\ Keep(p, t) /\ UNCHANGED <<tables, task>>
      BY <1>2 DEF StartFetch
    <2>2. t.pc = "start.latest" /\ t.claim = c /\ t.seen = claims[c].status /\ t.run = begun + 1
      BY DEF Idle
    <2>3. \A r \in RunsOf(c) : r < begun + 1
      BY RunsAreNumbered, ServiceAssumption DEF IndInv, TypeOK
    <2> HIDE DEF t
    <2> QED BY <2>1, <2>2, <2>3, SerialKeep DEF CurrentTxns
  <1>3. ASSUME NEW choice, NextStepFetch(p, u, c, choice) PROVE SerialInv' /\ SerialStep
    <2> DEFINE t == [Idle EXCEPT !.pc = "nextStep.write", !.claim = c, !.seen = claims[c].status,
                                 !.to = NextStepTarget(choice), !.choice = choice]
    <2>1. /\ claims[c].status = "READY_FOR_DECISION"
          /\ Keep(p, t) /\ UNCHANGED <<tables, task>>
      BY <1>3 DEF NextStepFetch
    <2>2. t.pc = "nextStep.write" /\ t.claim = c /\ t.seen = claims[c].status
      BY DEF Idle
    <2> HIDE DEF t
    <2> QED BY <2>1, <2>2, SerialKeep DEF CurrentTxns
  <1>4. ASSUME NEW choice, DecisionFetch(p, u, c, choice) PROVE SerialInv' /\ SerialStep
    <2> DEFINE t == [Idle EXCEPT !.pc = "decision.write", !.claim = c, !.seen = claims[c].status,
                                 !.to = DecisionTarget(choice), !.choice = choice]
    <2>1. /\ claims[c].status = "READY_FOR_DECISION"
          /\ Keep(p, t) /\ UNCHANGED <<tables, task>>
      BY <1>4 DEF DecisionFetch
    <2>2. t.pc = "decision.write" /\ t.claim = c /\ t.seen = claims[c].status
      BY DEF Idle
    <2> HIDE DEF t
    <2> QED BY <2>1, <2>2, SerialKeep DEF CurrentTxns
  <1> QED BY <1>1, <1>2, <1>3, <1>4

\* A second SELECT of a request, or its loss.
LEMMA SerialRequestGoesOn ==
    ASSUME IndInv, IndInv', SerialInv, Frame, NEW p \in Requests,
           SubmitDocuments(p) \/ StartLatest(p) \/ LoseRequest(p)
    PROVE  SerialInv' /\ SerialStep
  <1>1. txn[p] \in Txn /\ txn[p] \in CurrentTxns /\ Idle.pc = "idle"
    BY DEF IndInv, TypeOK, SerialInv, Idle
  <1>2. Idle \in Txn => Idle \in CurrentTxns
    BY <1>1 DEF CurrentTxns
  <1>3. CASE SubmitDocuments(p)
    <2> DEFINE target == SubmitTarget(Missing(txn[p].claim, documents[txn[p].claim]))
               t == [txn[p] EXCEPT !.pc = "submit.write", !.to = target]
    <2>1. txn[p].pc = "submit.documents" /\ Keep(p, t) /\ UNCHANGED <<tables, task>>
      BY <1>3 DEF SubmitDocuments
    <2> HIDE DEF target
    <2>2. t.pc = "submit.write" /\ t.claim = txn[p].claim /\ t.seen = txn[p].seen
      BY <1>1 DEF Txn
    <2> HIDE DEF t
    <2> QED BY <1>1, <2>1, <2>2, SerialKeep DEF CurrentTxns
  <1>4. CASE StartLatest(p)
    <2> DEFINE t == [txn[p] EXCEPT !.pc = "start.write"]
    <2>1. /\ txn[p].pc = "start.latest" /\ UNCHANGED <<tables, task>>
          /\ Done(p) \/ Keep(p, t)
      BY <1>4 DEF StartLatest
    <2>2. /\ t.pc = "start.write" /\ t.claim = txn[p].claim /\ t.seen = txn[p].seen
          /\ t.run = txn[p].run
      BY <1>1 DEF Txn
    <2> HIDE DEF t
    <2>3. t \in Txn => t \in CurrentTxns
      BY <1>1, <2>1, <2>2 DEF CurrentTxns
    <2> QED BY <1>2, <2>1, <2>3, SerialKeep DEF Done
  <1>5. CASE LoseRequest(p)
    BY <1>2, <1>5, SerialKeep DEF LoseRequest, Done
  <1> QED BY <1>3, <1>4, <1>5

\* Documents are no part of the lifecycle (create_claim_document).
LEMMA SerialDocument ==
    ASSUME IndInv, SerialInv, Frame, NEW p \in Requests, NEW u \in Users, NEW c \in Claims,
           NEW document \in Uploads, CreateDocument(p, u, c, document)
    PROVE  SerialInv' /\ SerialStep
  <1>1. UNCHANGED <<claims, runs, trail, decided, txn, task>>
    BY DEF CreateDocument
  <1> QED BY <1>1, TablesKept, QuietStep

\* A task moves on to a state in which it returns nothing it did not read.
LEMMA SerialTask ==
    ASSUME IndInv, SerialInv, Frame, NEW r \in RunIds, NEW t, task' = [task EXCEPT ![r] = t],
           t.at \in {"COMPLETE", "FAIL"} /\ t.entered => t.seen = "UNDER_REVIEW",
           UNCHANGED <<claims, runs, trail, decided, txn>>
    PROVE  SerialInv' /\ SerialStep
  <1>1. task'[r] = t /\ \A s \in RunIds : s # r => task'[s] = task[s]
    BY DEF IndInv, TypeOK
  <1>2. ReturnOK(r)'
    BY <1>1 DEF ReturnOK
  <1> QED BY <1>1, <1>2, TablesKept, QuietStep

\* The body of a node returns s: the next step has not been entered.
LEMMA SerialAdvance ==
    ASSUME IndInv, SerialInv, Frame, NEW r \in RunIds, NEW s, DOMAIN s = DOMAIN task[r],
           Advance(r, s), UNCHANGED <<claims, runs, trail, decided, txn>>
    PROVE  SerialInv' /\ SerialStep
  <1> DEFINE next == NextNode[s.at]
             t == [s EXCEPT !.at = next, !.entered = FALSE]
  <1>1. task' = [task EXCEPT ![r] = t]
    BY DEF Advance
  <1> HIDE DEF next
  <1>2. task[r] \in Task
    BY DEF IndInv, TypeOK
  <1>3. "entered" \in DOMAIN s
    BY <1>2 DEF Task
  <1>4. t.entered = FALSE
    BY <1>3
  <1> HIDE DEF t
  <1> QED BY <1>1, <1>4, SerialTask

\* A task reads, computes, raises or is lost.
LEMMA SerialTaskReads ==
    ASSUME IndInv, SerialInv, Frame, NEW r \in RunIds,
           \/ LoadClaim(r) \/ CheckDocuments(r) \/ RetrievePolicy(r) \/ VerifyEvidence(r)
           \/ Recommend(r) \/ ProposeFollowUp(r) \/ CompleteFetch(r) \/ Raise(r)
           \/ FailFetch(r) \/ LoseTask(r)
    PROVE  SerialInv' /\ SerialStep
  <1> USE DEF tables
  <1>1. CASE LoadClaim(r)
    BY <1>1, SerialAdvance DEF LoadClaim
  <1>2. CASE CheckDocuments(r)
    BY <1>2, SerialAdvance DEF CheckDocuments
  <1>3. CASE RetrievePolicy(r)
    BY <1>3, SerialAdvance DEF RetrievePolicy
  <1>4. CASE VerifyEvidence(r)
    <2> DEFINE verdict == IF claims[runs[r].claim].product # "unknown" /\ task[r].chunks
                          THEN "sufficient" ELSE "insufficient"
    <2>1. /\ Advance(r, [task[r] EXCEPT !.evidence = verdict])
          /\ UNCHANGED <<claims, runs, trail, decided, txn>>
      BY <1>4 DEF VerifyEvidence
    <2> HIDE DEF verdict
    <2> QED BY <2>1, SerialAdvance
  <1>5. CASE Recommend(r) \/ ProposeFollowUp(r)
    BY <1>5, SerialAdvance DEF Recommend, ProposeFollowUp
  <1>6. CASE CompleteFetch(r) \/ FailFetch(r)
    <2> DEFINE seen == claims[runs[r].claim].status
               t == [task[r] EXCEPT !.seen = seen, !.entered = TRUE]
    <2>1. /\ task[r].at \in {"COMPLETE", "FAIL"} /\ task' = [task EXCEPT ![r] = t]
          /\ UNCHANGED <<claims, runs, trail, decided, txn>>
      BY <1>6 DEF CompleteFetch, FailFetch
    <2>2. seen = "UNDER_REVIEW"
      BY <2>1, ActiveTask DEF SerialInv, ClaimOK
    <2> HIDE DEF seen
    <2>3. t.seen = seen
      BY DEF IndInv, TypeOK, Task
    <2> HIDE DEF t
    <2> QED BY <2>1, <2>2, <2>3, SerialTask
  <1>7. CASE Raise(r) \/ LoseTask(r)
    <2>1. \A at : [NoTask EXCEPT !.at = at].entered = FALSE
      BY DEF NoTask
    <2> QED BY <1>7, <2>1, SerialTask DEF Raise, LoseTask
  <1> QED BY <1>1, <1>2, <1>3, <1>4, <1>5, <1>6, <1>7

\* record_claim_review_progress writes RUNNING over an active run.
LEMMA SerialProgress ==
    ASSUME IndInv, IndInv', SerialInv, Frame, NEW r \in RunIds, Progress(r)
    PROVE  SerialInv' /\ SerialStep
  <1>1. /\ task[r].at \in Nodes /\ runs[r] \in RunRow /\ task[r] \in Task
        /\ runs' = [runs EXCEPT ![r].status = "RUNNING", ![r].step = task[r].at]
        /\ task' = [task EXCEPT ![r].entered = TRUE]
        /\ UNCHANGED <<claims, trail, decided, txn>>
    BY DEF Progress, IndInv, TypeOK
  <1>2. runs[r].status \in {"QUEUED", "RUNNING"}
    BY <1>1, ActiveTask DEF Nodes, ActiveRuns
  <1>3. /\ runs'[r].status = "RUNNING" /\ runs'[r].claim = runs[r].claim
        /\ \A s \in RunIds : s # r => runs'[s] = runs[s] /\ task'[s] = task[s]
        /\ task'[r].at = task[r].at
    BY <1>1 DEF IndInv, TypeOK, RunRow, Task
  <1>4. \A c \in Claims : Untouched(c)
    BY <1>1, <1>2, <1>3 DEF Untouched, RunsOf, ActiveRuns, RunIds
  <1>5. ReturnOK(r)'
    BY <1>1, <1>3 DEF ReturnOK, Nodes
  <1> QED BY <1>1, <1>3, <1>4, <1>5, QuietStep

-----------------------------------------------------------------------------
(***************************************************************************)
(* The steps of the lifecycle.                                             *)
(***************************************************************************)

\* What a step that moves one claim does to the lifecycle's variables.
LEMMA LifecycleMove ==
    ASSUME NEW c \in Claims, NEW to, NEW reviews,
           \A d \in Claims :
               /\ claims'[d].status = IF d = c THEN to ELSE claims[d].status
               /\ ActiveRuns(d)' = IF d = c THEN reviews ELSE ActiveRuns(d)
    PROVE  /\ [d \in Claims |-> claims[d].status]' =
                  [[d \in Claims |-> claims[d].status] EXCEPT ![c] = to]
           /\ [d \in Claims |-> ActiveRuns(d)]' =
                  [[d \in Claims |-> ActiveRuns(d)] EXCEPT ![c] = reviews]
  OBVIOUS

\* The transition table is the same seen from the lifecycle.
LEMMA SameTransitions ==
    ASSUME NEW current, NEW target
    PROVE  /\ Lifecycle!ValidClaimTransition(current, target) <=> ValidClaimTransition(current, target)
           /\ Lifecycle!ClaimStatuses = ClaimStatuses
  BY DEF ValidClaimTransition, CLAIM_TRANSITIONS, OUT_OF_SCOPE_STATES, ClaimStatuses,
         Lifecycle!ValidClaimTransition, Lifecycle!CLAIM_TRANSITIONS,
         Lifecycle!OUT_OF_SCOPE_STATES, Lifecycle!ClaimStatuses

\* create_claim is Create.
LEMMA SerialCreate ==
    ASSUME IndInv, SerialInv, Frame, NEW p \in Requests, NEW u \in Users, NEW c \in Claims,
           NEW product \in Products, NEW kind \in ClaimTypes,
           CreateClaim(p, u, c, product, kind)
    PROVE  SerialInv' /\ SerialStep
  <1>1. /\ claims[c].status = "ABSENT" /\ claims'[c].status = "DRAFT"
        /\ \A d \in Claims : d # c => claims'[d] = claims[d]
        /\ UNCHANGED <<runs, trail, decided, txn, task>>
    BY DEF CreateClaim, NoClaim, IndInv, TypeOK
  <1>2. /\ \A d \in Claims : RunsOf(d)' = RunsOf(d) /\ ActiveRuns(d)' = ActiveRuns(d)
        /\ \A d \in Claims : d # c => Untouched(d)
    BY <1>1 DEF Untouched, RunsOf, ActiveRuns, RunIds
  <1>3. ClaimOK(c)'
    BY <1>1, <1>2, RunsAreNumbered DEF SerialInv, ClaimOK, ActiveRuns
  <1>4. \A q \in Requests : txn[q].pc # "idle" => txn[q].claim # c /\ txn[q].claim \in Claims
    BY <1>1 DEF IndInv, TxnInv, SafeTxns, CreatedClaims
  <1>5. SerialInv'
    BY <1>1, <1>2, <1>3, <1>4, SerialFrame
  <1>6. Lifecycle!Create(c)
    BY <1>1, <1>2, LifecycleMove DEF Lifecycle!Create
  <1> QED BY <1>1, <1>5, <1>6 DEF SerialStep, Lifecycle!Next

\* A request commits the status it chose for its claim: Move.
LEMMA SerialWrite ==
    ASSUME IndInv, IndInv', SerialInv, Frame, OneRequestPerClaim, NEW p \in Requests,
           SubmitWrite(p) \/ NextStepWrite(p) \/ DecisionWrite(p)
    PROVE  SerialInv' /\ SerialStep
  <1> SUFFICES ASSUME NEW c, NEW seen, NEW to, NEW choice,
                      c = txn[p].claim, seen = txn[p].seen, to = txn[p].to, choice = txn[p].choice
               PROVE  SerialInv' /\ SerialStep
    OBVIOUS
  <1>1. /\ txn[p] \in Txn /\ txn[p] \in SafeTxns /\ txn[p] \in CurrentTxns /\ txn[p].pc # "idle"
        /\ claims \in [Claims -> ClaimRow] /\ trail \in [Claims -> Change]
        /\ decided \in [Claims -> SUBSET Choices]
    BY DEF IndInv, TypeOK, TxnInv, SerialInv, SubmitWrite, NextStepWrite, DecisionWrite
  <1>2. c \in Claims /\ claims[c].status = seen /\ ClaimOK(c)
    BY <1>1 DEF SafeTxns, CreatedClaims, CurrentTxns, SerialInv
  <1>3. /\ seen \notin {"ABSENT", "UNDER_REVIEW", "APPROVED", "REJECTED"}
        /\ to \in ClaimStatuses \ {"UNDER_REVIEW", "READY_FOR_DECISION"}
        /\ TransitionClaim(c, seen, to)
        /\ UNCHANGED <<runs, task>>
        /\ txn'[p] = Idle /\ \A q \in Requests : q # p => txn'[q] = txn[q]
    <2>1. CASE SubmitWrite(p)
      BY <1>1, <2>1 DEF SubmitWrite, SafeTxns, CurrentTxns, ClaimStatuses, Done, Keep, IndInv, TypeOK
    <2>2. CASE NextStepWrite(p)
      BY <1>1, <2>2 DEF NextStepWrite, SafeTxns, CurrentTxns, ClaimStatuses, Done, Keep, IndInv, TypeOK
    <2>3. CASE DecisionWrite(p)
      BY <1>1, <2>3 DEF DecisionWrite, SafeTxns, CurrentTxns, ClaimStatuses, Done, Keep, IndInv,
                        TypeOK, DecisionTarget
    <2> QED BY <2>1, <2>2, <2>3
  <1>4. /\ \A d \in Claims : claims'[d].status = IF d = c THEN to ELSE claims[d].status
        /\ \A d \in Claims : d # c => trail'[d] = trail[d]
        /\ IF seen = to THEN trail'[c] = trail[c] ELSE trail'[c] = [from |-> seen, to |-> to]
    <2>1. CASE seen = to
      BY <1>2, <1>3, <2>1 DEF TransitionClaim
    <2>2. CASE seen # to
      BY <1>1, <1>2, <1>3, <2>2 DEF TransitionClaim, ClaimRow
    <2> QED BY <2>1, <2>2
  <1>5. /\ decided[c] = {}
        /\ \A d \in Claims : d # c => decided'[d] = decided[d]
        /\ \/ decided'[c] = {}
           \/ decided'[c] = {"APPROVE"} /\ to = "APPROVED"
           \/ decided'[c] = {"REJECT"} /\ to = "REJECTED"
    <2>1. decided[c] = {}
      BY <1>2, <1>3 DEF ClaimOK
    <2>2. CASE SubmitWrite(p) \/ NextStepWrite(p)
      BY <2>1, <2>2 DEF SubmitWrite, NextStepWrite
    <2>3. CASE DecisionWrite(p)
      <3>1. /\ decided' = [decided EXCEPT ![c] = @ \cup {choice}]
            /\ choice \in {"APPROVE", "REJECT"} /\ to = DecisionTarget(choice)
        BY <1>1, <2>3 DEF DecisionWrite, SafeTxns
      <3>2. decided'[c] = {choice} /\ \A d \in Claims : d # c => decided'[d] = decided[d]
        BY <1>1, <1>2, <2>1, <3>1
      <3> QED BY <2>1, <3>1, <3>2 DEF DecisionTarget
    <2> QED BY <2>2, <2>3
  <1>6. /\ \A d \in Claims : RunsOf(d)' = RunsOf(d) /\ ActiveRuns(d)' = ActiveRuns(d)
        /\ \A d \in Claims : d # c => Untouched(d)
    BY <1>3, <1>4, <1>5 DEF Untouched, RunsOf, ActiveRuns, RunIds
  <1>7. ActiveRuns(c) = {}
    BY <1>2, <1>3 DEF ClaimOK
  <1>8. ClaimOK(c)'
    <2>1. claims'[c].status = to /\ to # "ABSENT"
      BY <1>2, <1>3, <1>4 DEF ClaimStatuses
    <2>2. trail'[c].to = to
      BY <1>2, <1>3, <1>4 DEF ClaimOK
    <2>3. ActiveRuns(c)' = {} /\ to \notin {"UNDER_REVIEW", "READY_FOR_DECISION"}
      BY <1>2, <1>3, <1>6, <1>7
    <2>4. decided'[c] # {} =>
              \/ decided'[c] = {"APPROVE"} /\ claims'[c].status = "APPROVED"
              \/ decided'[c] = {"REJECT"} /\ claims'[c].status = "REJECTED"
      BY <1>5, <2>1
    <2> QED BY <2>1, <2>2, <2>3, <2>4 DEF ClaimOK
  <1>9. \A q \in Requests : q # p /\ txn[q].pc # "idle" => txn[q].claim # c /\ txn[q].claim \in Claims
    BY <1>1 DEF OneRequestPerClaim, IndInv, TxnInv, SafeTxns, CreatedClaims
  <1>10. txn'[p] \in CurrentTxns'
    BY <1>3 DEF IndInv, TypeOK, CurrentTxns, Idle
  <1>11. SerialInv'
    BY <1>3, <1>6, <1>8, <1>9, <1>10, SerialFrame
  <1>12. \A d \in Claims : trail'[d] # trail[d] => trail'[d].from = trail[d].to
    BY <1>2, <1>3, <1>4 DEF ClaimOK
  <1>13. [Lifecycle!Next]_(Lifecycle!vars)
    <2>1. CASE seen = to
      BY <1>2, <1>4, <1>6, <2>1 DEF Lifecycle!vars
    <2>2. CASE seen # to
      <3>1. ValidClaimTransition(seen, to)
        BY <1>3, <2>2 DEF TransitionClaim, TransitionAllowed
      <3>2. Lifecycle!Move(c, to)
        <4>1. [d \in Claims |-> claims[d].status]' =
                  [[d \in Claims |-> claims[d].status] EXCEPT ![c] = to]
          BY <1>2, <1>4
        <4>2. [d \in Claims |-> ActiveRuns(d)]' = [d \in Claims |-> ActiveRuns(d)]
          BY <1>6
        <4> QED BY <1>2, <1>3, <3>1, <4>1, <4>2, SameTransitions DEF Lifecycle!Move
      <3> QED BY <1>2, <1>3, <3>2, SameTransitions DEF Lifecycle!Next
    <2> QED BY <2>1, <2>2
  <1> QED BY <1>11, <1>12, <1>13 DEF SerialStep

\* start_claim_review_run commits: OpenReview.
LEMMA SerialStart ==
    ASSUME IndInv, IndInv', SerialInv, Frame, OneRequestPerClaim, NEW p \in Requests, StartWrite(p)
    PROVE  SerialInv' /\ SerialStep
  <1> SUFFICES ASSUME NEW c, NEW n, c = txn[p].claim, n = txn[p].run
               PROVE  SerialInv' /\ SerialStep
    OBVIOUS
  <1> DEFINE row == [NoRun EXCEPT !.claim = c, !.status = "RUNNING", !.step = "LOAD_CLAIM"]
  <1>1. /\ txn[p] \in Txn /\ txn[p] \in SafeTxns /\ txn[p] \in CurrentTxns
        /\ txn[p].pc = "start.write" /\ p \in Starting
        /\ claims \in [Claims -> ClaimRow] /\ trail \in [Claims -> Change]
        /\ runs \in [RunIds -> RunRow] /\ task \in [RunIds -> Task]
        /\ txn \in [Requests -> Txn]
    BY DEF IndInv, TypeOK, TxnInv, SerialInv, StartWrite, Starting
  <1>2. /\ c \in Claims /\ c # "none" /\ ClaimOK(c)
        /\ claims[c].status = "READY_FOR_REVIEW" /\ txn[p].seen = "READY_FOR_REVIEW"
        /\ txn[p].to = "UNDER_REVIEW"
        /\ n \in RunIds /\ \A r \in RunsOf(c) : r < n
        /\ runs[n] = NoRun
    <2>1. c \in Claims /\ txn[p].to = "UNDER_REVIEW" /\ n \in 1..begun
      BY <1>1 DEF SafeTxns, CreatedClaims
    <2>2. n \in RunIds
      BY <2>1, ServiceAssumption DEF RunIds, IndInv, TypeOK
    <2>3. task[n].at = "NONE"
      BY <1>1 DEF IndInv, RunNumbers
    <2> QED BY <1>1, <2>1, <2>2, <2>3, ServiceAssumption
            DEF CurrentTxns, SerialInv, IndInv, TaskInv, TaskOK
  <1>3. /\ TransitionClaim(c, "READY_FOR_REVIEW", "UNDER_REVIEW")
        /\ runs' = [runs EXCEPT ![n] = row]
        /\ task' = [task EXCEPT ![n].at = "LOAD_CLAIM"]
        /\ txn'[p] = Idle /\ \A q \in Requests : q # p => txn'[q] = txn[q]
        /\ UNCHANGED decided
    BY <1>1, <1>2 DEF StartWrite, Done, Keep
  <1>4. row.claim = c /\ row.status = "RUNNING"
    BY DEF NoRun
  <1>5. /\ \A r \in RunIds : runs'[r] = IF r = n THEN row ELSE runs[r]
        /\ \A r \in RunIds : r # n => task'[r] = task[r]
        /\ task'[n].at = "LOAD_CLAIM"
    BY <1>1, <1>2, <1>3 DEF Task
  <1> HIDE DEF row
  <1>6. /\ \A d \in Claims : claims'[d].status = IF d = c THEN "UNDER_REVIEW" ELSE claims[d].status
        /\ \A d \in Claims : d # c => trail'[d] = trail[d]
        /\ trail'[c] = [from |-> "READY_FOR_REVIEW", to |-> "UNDER_REVIEW"]
    BY <1>1, <1>2, <1>3 DEF TransitionClaim, ClaimRow
  <1>7. ActiveRuns(c) = {} /\ decided[c] = {}
    BY <1>2 DEF ClaimOK
  <1>8. /\ RunsOf(c)' = RunsOf(c) \cup {n} /\ ActiveRuns(c)' = {n}
        /\ \A d \in Claims : d # c => RunsOf(d)' = RunsOf(d) /\ ActiveRuns(d)' = ActiveRuns(d)
    <2>1. RunIds' = RunIds /\ runs[n].claim = "none"
      BY <1>2 DEF RunIds, NoRun
    <2>2. RunsOf(c)' = RunsOf(c) \cup {n}
      BY <1>2, <1>4, <1>5, <2>1 DEF RunsOf
    <2>3. \A d \in Claims : d # c => RunsOf(d)' = RunsOf(d)
      BY <1>2, <1>4, <1>5, <2>1, ServiceAssumption DEF RunsOf
    <2>4. ActiveRuns(c)' = {n}
      BY <1>2, <1>4, <1>5, <1>7, <2>1, <2>2 DEF ActiveRuns, RunsOf
    <2>5. ASSUME NEW d \in Claims, d # c PROVE ActiveRuns(d)' = ActiveRuns(d)
      <3>1. n \notin RunsOf(d)
        BY <2>1, <2>5, ServiceAssumption DEF RunsOf
      <3>2. RunsOf(d)' = RunsOf(d) /\ \A r \in RunsOf(d) : runs'[r] = runs[r]
        BY <1>5, <2>3, <2>5, <3>1 DEF RunsOf
      <3> QED BY <3>2 DEF ActiveRuns
    <2> QED BY <2>2, <2>3, <2>4, <2>5
  <1>9. \A d \in Claims : d # c => Untouched(d)
    BY <1>3, <1>6, <1>8 DEF Untouched
  <1>10. ClaimOK(c)'
    <2>1. IsLatestRun(c, n)'
      BY <1>2, <1>8 DEF IsLatestRun, RunsOf, RunIds
    <2>2. claims'[c].status = "UNDER_REVIEW" /\ trail'[c].to = "UNDER_REVIEW" /\ decided'[c] = {}
      BY <1>2, <1>3, <1>6, <1>7
    <2> QED BY <1>8, <2>1, <2>2 DEF ClaimOK
  <1>11. \A q \in Requests : q # p /\ txn[q].pc # "idle" => txn[q].claim # c /\ txn[q].claim \in Claims
    BY <1>1 DEF OneRequestPerClaim, IndInv, TxnInv, SafeTxns, CreatedClaims
  <1>12. txn'[p] \in CurrentTxns'
    BY <1>3 DEF IndInv, TypeOK, CurrentTxns, Idle
  <1>13. \A r \in RunIds : task'[r] = task[r] \/ ReturnOK(r)'
    BY <1>5 DEF ReturnOK
  <1>14. SerialInv'
    BY <1>3, <1>9, <1>10, <1>11, <1>12, <1>13, SerialFrame
  <1>15. \A d \in Claims : trail'[d] # trail[d] => trail'[d].from = trail[d].to
    BY <1>2, <1>6 DEF ClaimOK
  <1>16. Lifecycle!OpenReview(c, n)
    <2>1. /\ \A d \in Claims :
                 /\ claims'[d].status = IF d = c THEN "UNDER_REVIEW" ELSE claims[d].status
                 /\ ActiveRuns(d)' = IF d = c THEN {n} ELSE ActiveRuns(d)
      BY <1>6, <1>8
    <2> QED BY <1>2, <1>7, <2>1, LifecycleMove DEF Lifecycle!OpenReview
  <1> QED BY <1>2, <1>14, <1>15, <1>16 DEF SerialStep, Lifecycle!Next

\* complete_claim_review_run and fail_claim_review_run commit: CloseReview.
LEMMA SerialClose ==
    ASSUME IndInv, IndInv', SerialInv, Frame, NEW r \in RunIds, CompleteWrite(r) \/ FailWrite(r)
    PROVE  SerialInv' /\ SerialStep
  <1> SUFFICES ASSUME NEW c, NEW to, c = runs[r].claim,
                      to = IF task[r].at = "FAIL" THEN "READY_FOR_REVIEW"
                           ELSE ReviewTarget(task[r].missing, task[r].evidence)
               PROVE  SerialInv' /\ SerialStep
    OBVIOUS
  <1>1. /\ task[r].at \in {"COMPLETE", "FAIL"} /\ task[r].entered
        /\ task[r] \in Task /\ runs[r] \in RunRow /\ TaskOK(r)
        /\ claims \in [Claims -> ClaimRow] /\ trail \in [Claims -> Change]
        /\ runs \in [RunIds -> RunRow] /\ task \in [RunIds -> Task]
    BY DEF IndInv, TypeOK, TaskInv, CompleteWrite, FailWrite, InBody
  <1>2. /\ c \in Claims /\ r \in ActiveRuns(c) /\ ClaimOK(c)
        /\ task[r].seen = "UNDER_REVIEW" /\ claims[c].status = "UNDER_REVIEW"
    BY <1>1, ActiveTask DEF SerialInv, ReturnOK, ClaimOK
  <1>3. /\ TransitionClaim(c, "UNDER_REVIEW", to)
        /\ to \in {"READY_FOR_REVIEW", "NEEDS_INFORMATION", "READY_FOR_DECISION"}
        /\ UNCHANGED <<decided, txn>>
    <2>1. CASE CompleteWrite(r)
      BY <1>2, <2>1 DEF CompleteWrite, InBody, ReviewTarget
    <2>2. CASE FailWrite(r)
      BY <1>2, <2>2 DEF FailWrite, InBody
    <2> QED BY <2>1, <2>2
  <1>4. /\ runs'[r].status \in {"SUCCEEDED", "FAILED"} /\ runs'[r].claim = c
        /\ to = "READY_FOR_DECISION" => CleanReview(r)'
        /\ \A s \in RunIds : s # r => runs'[s] = runs[s] /\ task'[s] = task[s]
        /\ task'[r].at = "DONE"
    <2>1. CASE CompleteWrite(r)
      <3>1. /\ runs' = [runs EXCEPT ![r].status = "SUCCEEDED", ![r].step = "COMPLETED",
                                    ![r].missing = task[r].missing, ![r].evidence = task[r].evidence]
            /\ task' = [task EXCEPT ![r] = [NoTask EXCEPT !.at = "DONE"]]
            /\ task[r].at = "COMPLETE"
        BY <2>1 DEF CompleteWrite, InBody
      <3>2. /\ runs'[r].status = "SUCCEEDED" /\ runs'[r].claim = c /\ runs'[r].missing = {}
            /\ runs'[r].evidence = task[r].evidence
        BY <1>1, <3>1 DEF RunRow, TaskOK
      <3>3. to = "READY_FOR_DECISION" => task[r].evidence = "sufficient"
        BY <1>1, <3>1 DEF ReviewTarget, Task, TaskOK
      <3>4. task'[r].at = "DONE" /\ \A s \in RunIds : s # r => runs'[s] = runs[s] /\ task'[s] = task[s]
        BY <1>1, <3>1 DEF NoTask
      <3> QED BY <3>2, <3>3, <3>4 DEF CleanReview
    <2>2. CASE FailWrite(r)
      <3>1. /\ runs' = [runs EXCEPT ![r].status = "FAILED", ![r].step = "FAILED"]
            /\ task' = [task EXCEPT ![r] = [NoTask EXCEPT !.at = "DONE"]]
            /\ task[r].at = "FAIL"
        BY <2>2 DEF FailWrite, InBody
      <3>2. runs'[r].status = "FAILED" /\ runs'[r].claim = c
        BY <1>1, <3>1 DEF RunRow
      <3>3. task'[r].at = "DONE" /\ \A s \in RunIds : s # r => runs'[s] = runs[s] /\ task'[s] = task[s]
        BY <1>1, <3>1 DEF NoTask
      <3> QED BY <3>1, <3>2, <3>3
    <2> QED BY <2>1, <2>2
  <1>5. /\ \A d \in Claims : claims'[d].status = IF d = c THEN to ELSE claims[d].status
        /\ \A d \in Claims : d # c => trail'[d] = trail[d]
        /\ trail'[c] = [from |-> "UNDER_REVIEW", to |-> to]
    BY <1>1, <1>2, <1>3 DEF TransitionClaim, ClaimRow
  <1>6. \A d \in Claims : RunsOf(d)' = RunsOf(d)
    BY <1>4 DEF RunsOf, RunIds
  <1>7. ActiveRuns(c)' = {}
    <2>1. ActiveRuns(c) = {r}
      BY <1>2 DEF ClaimOK
    <2> QED BY <1>2, <1>4, <1>6, <2>1 DEF ActiveRuns, RunsOf
  <1>8. ASSUME NEW d \in Claims, d # c PROVE ActiveRuns(d)' = ActiveRuns(d)
    <2>1. r \notin RunsOf(d)
      BY <1>8 DEF RunsOf
    <2> QED BY <1>4, <1>6, <1>8, <2>1 DEF ActiveRuns, RunsOf
  <1>9. \A d \in Claims : d # c => Untouched(d)
    BY <1>3, <1>5, <1>6, <1>8 DEF Untouched
  <1>10. ClaimOK(c)'
    <2>1. /\ claims'[c].status = to /\ trail'[c].to = to /\ decided'[c] = {}
          /\ to \notin {"ABSENT", "UNDER_REVIEW"}
      BY <1>2, <1>3, <1>5 DEF ClaimOK
    <2>2. IsLatestRun(c, r)'
      BY <1>2, <1>6 DEF ClaimOK, IsLatestRun
    <2>3. to = "READY_FOR_DECISION" => \E s \in RunIds : IsLatestRun(c, s)' /\ CleanReview(s)'
      BY <1>4, <2>2
    <2> QED BY <1>7, <2>1, <2>3 DEF ClaimOK, RunIds
  <1>11. \A q \in Requests : txn'[q] = txn[q] /\ (txn[q].pc # "idle" => Untouched(txn[q].claim))
    <2> SUFFICES ASSUME NEW q \in Requests, txn[q].pc # "idle" PROVE Untouched(txn[q].claim)
      BY <1>3
    <2>1. txn[q] \in SafeTxns /\ txn[q] \in CurrentTxns
      BY DEF IndInv, TxnInv, SerialInv
    <2>2. txn[q].claim \in Claims /\ claims[txn[q].claim].status # "UNDER_REVIEW"
      BY <2>1 DEF SafeTxns, CurrentTxns, CreatedClaims, Txn, RequestSteps
    <2> QED BY <1>2, <1>9, <2>2
  <1>12. \A s \in RunIds : task'[s] = task[s] \/ ReturnOK(s)'
    BY <1>4 DEF ReturnOK
  <1>13. SerialInv'
    BY <1>9, <1>10, <1>11, <1>12, SerialFrame
  <1>14. \A d \in Claims : trail'[d] # trail[d] => trail'[d].from = trail[d].to
    BY <1>2, <1>5 DEF ClaimOK
  <1>15. Lifecycle!CloseReview(c, to) /\ to \in ClaimStatuses
    <2>1. /\ \A d \in Claims :
                 /\ claims'[d].status = IF d = c THEN to ELSE claims[d].status
                 /\ ActiveRuns(d)' = IF d = c THEN {} ELSE ActiveRuns(d)
      BY <1>5, <1>7, <1>8
    <2>2. ValidClaimTransition("UNDER_REVIEW", to) /\ to \in ClaimStatuses
      BY <1>3 DEF TransitionClaim, TransitionAllowed, ClaimStatuses
    <2> QED BY <1>2, <2>1, <2>2, LifecycleMove, SameTransitions DEF Lifecycle!CloseReview
  <1> QED BY <1>2, <1>13, <1>14, <1>15, SameTransitions DEF SerialStep, Lifecycle!Next
-----------------------------------------------------------------------------
\* Initially no claim exists, and none has a review.
LEMMA InitSerial == Init => SerialInv /\ Lifecycle!Init
  <1> SUFFICES ASSUME Init PROVE SerialInv /\ Lifecycle!Init
    OBVIOUS
  <1>1. \A c \in Claims : RunsOf(c) = {} /\ ActiveRuns(c) = {}
    BY ServiceAssumption DEF Init, RunsOf, ActiveRuns, NoRun
  <1>2. \A c \in Claims : ClaimOK(c)
    BY <1>1 DEF Init, ClaimOK, NoClaim
  <1>3. \A p \in Requests : txn[p] \in CurrentTxns
    <2>1. \A p \in Requests : txn[p] \in Txn
      BY InitIndInv DEF IndInv, TypeOK
    <2> QED BY <2>1 DEF Init, CurrentTxns, Idle
  <1>4. \A r \in RunIds : ReturnOK(r)
    BY DEF Init, ReturnOK, NoTask
  <1>5. Lifecycle!Init
    BY <1>1 DEF Init, Lifecycle!Init, NoClaim
  <1> QED BY <1>2, <1>3, <1>4, <1>5 DEF SerialInv

\* While no two requests are open on one claim, every step keeps the
\* invariant, continues the audit trails and is a step of the lifecycle.
LEMMA NextSerial ==
    ASSUME IndInv, SerialInv, OneRequestPerClaim, [Next]_vars
    PROVE  SerialInv' /\ SerialStep
  <1>1. IndInv' /\ Frame
    BY NextIndInv, StutterIndInv
  <1>2. ASSUME NEW p \in Requests, NewRequest(p) PROVE SerialInv' /\ SerialStep
    <2>1. PICK u \in Users, c \in Claims :
              \/ \E product \in Products, kind \in ClaimTypes : CreateClaim(p, u, c, product, kind)
              \/ \E document \in Uploads : CreateDocument(p, u, c, document)
              \/ SubmitFetch(p, u, c)
              \/ StartFetch(p, u, c)
              \/ \E choice \in {"REQUEST_INFORMATION", "ESCALATE_TO_EXPERT"} :
                     NextStepFetch(p, u, c, choice)
              \/ \E choice \in {"APPROVE", "REJECT"} : DecisionFetch(p, u, c, choice)
      BY <1>2 DEF NewRequest
    <2> QED BY <1>1, <2>1, SerialCreate, SerialDocument, SerialRequestBegins
  <1>3. ASSUME NEW p \in Requests, RequestStep(p) \/ LoseRequest(p)
        PROVE  SerialInv' /\ SerialStep
    <2>1. CASE SubmitDocuments(p) \/ StartLatest(p) \/ LoseRequest(p)
      BY <1>1, <2>1, SerialRequestGoesOn
    <2>2. CASE SubmitWrite(p) \/ NextStepWrite(p) \/ DecisionWrite(p)
      BY <1>1, <2>2, SerialWrite
    <2>3. CASE StartWrite(p)
      BY <1>1, <2>3, SerialStart
    <2> QED BY <1>3, <2>1, <2>2, <2>3 DEF RequestStep
  <1>4. ASSUME NEW r \in RunIds, TaskStep(r) \/ LoseTask(r) PROVE SerialInv' /\ SerialStep
    BY <1>1, <1>4, SerialTaskReads, SerialProgress, SerialClose DEF TaskStep
  <1>5. CASE UNCHANGED vars
    BY <1>1, <1>5, TablesKept, QuietStep DEF vars
  <1> QED BY <1>2, <1>3, <1>4, <1>5 DEF Next

\* The invariant of the claims that get one request at a time is inductive.
THEOREM SerialInductive == Spec /\ []OneRequestPerClaim => [](IndInv /\ SerialInv)
  <1>1. Init => SerialInv
    BY InitSerial
  <1>2. IndInv /\ SerialInv /\ OneRequestPerClaim /\ [Next]_vars => SerialInv'
    BY NextSerial
  <1> QED BY <1>1, <1>2, Inductive, PTL DEF Spec

\* While no two requests are open on one claim, it never has two reviews in
\* progress, and start_claim_review_run, complete_claim_review_run and
\* fail_claim_review_run keep it UNDER_REVIEW exactly as long as one is.
THEOREM ReviewsDoNotOverlap == Spec /\ []OneRequestPerClaim => []OneReviewAtATime
  <1>1. SerialInv => OneReviewAtATime
    <2> SUFFICES ASSUME SerialInv, NEW c \in Claims
                 PROVE  /\ Cardinality(ActiveRuns(c)) <= 1
                        /\ claims[c].status = "UNDER_REVIEW" <=> ActiveRuns(c) # {}
      BY DEF OneReviewAtATime
    <2>1. ClaimOK(c)
      BY DEF SerialInv
    <2>2. ActiveRuns(c) = {} \/ \E r : ActiveRuns(c) = {r}
      BY <2>1 DEF ClaimOK
    <2>3. CASE ActiveRuns(c) = {}
      <3>1. Cardinality(ActiveRuns(c)) = 0
        BY <2>3, FS_EmptySet
      <3> QED BY <2>1, <3>1 DEF ClaimOK
    <2>4. CASE \E r : ActiveRuns(c) = {r}
      <3>1. Cardinality(ActiveRuns(c)) = 1
        BY <2>4, FS_Singleton
      <3> QED BY <2>1, <3>1 DEF ClaimOK
    <2> QED BY <2>2, <2>3, <2>4
  <1> QED BY <1>1, SerialInductive, PTL

\* While no two requests are open on one claim, the latest run that
\* fetch_latest_review_run shows for a decision is the clean review behind it.
THEOREM DecisionsSeeTheirReview == Spec /\ []OneRequestPerClaim => []DecisionShowsItsReview
  <1>1. SerialInv => DecisionShowsItsReview
    BY DEF SerialInv, ClaimOK, DecisionShowsItsReview
  <1> QED BY <1>1, SerialInductive, PTL

\* While no two requests are open on one claim, apply_human_claim_decision
\* records one decision of it at most, and nothing overrules it.
THEOREM DecisionsAreFinal == Spec /\ []OneRequestPerClaim => []OneHumanDecision
  <1>1. SerialInv => OneHumanDecision
    BY DEF SerialInv, ClaimOK, OneHumanDecision
  <1> QED BY <1>1, SerialInductive, PTL

\* While no two requests are open on one claim, each CLAIM_STATUS_CHANGED
\* event of _transition_claim starts where the previous one ended.
THEOREM AuditTrailConnects == Spec /\ []OneRequestPerClaim => AuditTrailIsAPath
  <1>1. IndInv /\ SerialInv /\ OneRequestPerClaim /\ [Next]_vars =>
            [\A c \in Claims : trail'[c] # trail[c] => trail'[c].from = trail[c].to]_trail
    BY NextSerial DEF SerialStep
  <1> QED BY <1>1, SerialInductive, PTL DEF Spec, AuditTrailIsAPath

\* While no two requests are open on one claim, every step of the requests,
\* reviews and losses of the service is a step of ClaimLifecycle or none.
THEOREM ServiceImplementsLifecycle == Spec /\ []OneRequestPerClaim => ImplementsLifecycle
  <1>1. Init => Lifecycle!Init
    BY InitSerial
  <1>2. IndInv /\ SerialInv /\ OneRequestPerClaim /\ [Next]_vars =>
            [Lifecycle!Next]_(Lifecycle!vars)
    BY NextSerial DEF SerialStep
  <1> QED BY <1>1, <1>2, SerialInductive, PTL DEF Spec, ImplementsLifecycle, Lifecycle!Spec
=============================================================================
