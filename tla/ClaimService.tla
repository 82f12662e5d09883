---------------------------- MODULE ClaimService ----------------------------
(***************************************************************************)
(* The claim desk of SupportAgent: supportagent/claims/service.py over     *)
(* claims/store.py, the review workflow of claims/review_workflow.py, and  *)
(* the routes of api/claims.py that start it.                              *)
(*                                                                         *)
(* FastAPI runs every route below in a thread pool, and every service      *)
(* function is one PostgreSQL transaction at READ COMMITTED.  fetch_claim  *)
(* takes no row lock, and update_claim_status writes the row whatever its  *)
(* status has become.  So a request is a sequence of steps: one for each   *)
(* SELECT whose result it keeps, and one for its writes, which become      *)
(* visible together at COMMIT (an UPDATE waits for the row lock of another *)
(* transaction and then overwrites: the order of the write steps is the    *)
(* order of the commits).  A transaction that raises or is lost writes     *)
(* nothing.                                                                *)
(*                                                                         *)
(* A review is started by a request, and executed afterwards by an         *)
(* in-process background task, one per run, that moves through the nodes   *)
(* of the review graph; every node first commits its progress in a         *)
(* transaction of its own.  A crash or a deployment loses the task.        *)
(*                                                                         *)
(* An operator right before the definition it resembles, with a qualified  *)
(* name (SubmitTargetUnchecked, RaiseSwallowed, ...), is a defect the      *)
(* properties must notice; no action uses it.                              *)
(***************************************************************************)
EXTENDS Integers, FiniteSets, ClaimStateMachine, DocumentRules

CONSTANTS
    Claims,       \* ids of claims
    Users,        \* user ids
    Products,     \* product lines of the claims that are created
    ClaimTypes,   \* claim types, up to normalize_document_type
    Uploads,      \* the document rows users register
    Requests,     \* request threads in flight at the same time
    MaxRuns       \* bound: start transactions that get past their guard

ASSUME ServiceAssumption ==
    /\ Products \subseteq ProductLines
    /\ Uploads \subseteq DocumentRows
    /\ "none" \notin Claims
    /\ MaxRuns \in Nat

VARIABLES
    claims,       \* table claims: id -> row, or NoClaim
    documents,    \* table claim_documents: claim -> set of rows
    runs,         \* table claim_review_runs: run -> row
    followUps,    \* runs whose CREATE_JIRA_ISSUE proposal is in proposed_actions
    trail,        \* newest CLAIM_STATUS_CHANGED of claim_audit_events, per claim
    decided,      \* decisions of CLAIM_HUMAN_DECISION_RECORDED events, per claim
    txn,          \* what each request thread has read so far
    task,         \* the background task of each run
    begun         \* start transactions begun so far; orders created_at

vars == <<claims, documents, runs, followUps, trail, decided, txn, task, begun>>

-----------------------------------------------------------------------------
\* The tables.

\* Run ids.  created_at is now(), the time a transaction begins, so a run is
\* numbered when its start transaction begins and not when it commits.
RunIds == 1..MaxRuns

Nobody == "nobody"
NoClaim == [status |-> "ABSENT", owner |-> Nobody, product |-> "unknown", kind |-> "none"]

ClaimRow == [status : ClaimStatuses \cup {"ABSENT"}, owner : Users \cup {Nobody},
             product : ProductLines, kind : ClaimTypes \cup {"none"}]

Nodes == {"LOAD_CLAIM", "CHECK_DOCUMENTS", "RETRIEVE_POLICY_EVIDENCE",
          "VERIFY_EVIDENCE", "GENERATE_RECOMMENDATION", "PREPARE_NEXT_ACTION"}

\* The claim a run belongs to, or none.
RunClaim == Claims \cup {"none"}

RunRow == [claim : RunClaim,
           status : {"ABSENT", "QUEUED", "RUNNING", "SUCCEEDED", "FAILED"},
           step : Nodes \cup {"NONE", "COMPLETED", "FAILED"},
           missing : SUBSET DocumentTypes,
           evidence : {"none", "sufficient", "insufficient"}]
NoRun == [claim |-> "none", status |-> "ABSENT", step |-> "NONE",
          missing |-> {}, evidence |-> "none"]

Change == [from : ClaimStatuses \cup {"ABSENT"}, to : ClaimStatuses \cup {"ABSENT"}]

Missing(c, docs) == MissingDocuments(claims[c].product, claims[c].kind, docs)

OwnedBy(c, u) == claims[c].status # "ABSENT" /\ claims[c].owner = u

RunsOf(c) == {r \in RunIds : runs[r].claim = c}

IsLatestRunAscending(c, r) == r \in RunsOf(c) /\ \A s \in RunsOf(c) : r <= s

\* fetch_latest_review_run: the run of the claim with the newest created_at.
IsLatestRun(c, r) == r \in RunsOf(c) /\ \A s \in RunsOf(c) : s <= r

\* _transition_claim, for a caller that read status seen: nothing is written
\* when the target was read already, else the row is overwritten and audited.
TransitionAllowed(seen, to) == seen = to \/ ValidClaimTransition(seen, to)

TransitionClaim(c, seen, to) ==
    /\ TransitionAllowed(seen, to)
    /\ IF seen = to
       THEN UNCHANGED <<claims, trail>>
       ELSE /\ claims' = [claims EXCEPT ![c].status = to]
            /\ trail' = [trail EXCEPT ![c] = [from |-> seen, to |-> to]]

-----------------------------------------------------------------------------
\* Request threads.

RequestSteps == {"idle", "submit.documents", "submit.write", "start.latest",
                 "start.write", "nextStep.write", "decision.write"}

NoChoice == "none"
Choices == {"REQUEST_INFORMATION", "ESCALATE_TO_EXPERT", "APPROVE", "REJECT", NoChoice}

Txn == [pc : RequestSteps, claim : RunClaim, seen : ClaimStatuses \cup {"ABSENT"},
        to : ClaimStatuses \cup {"ABSENT"}, run : RunIds \cup {0}, choice : Choices]
Idle == [pc |-> "idle", claim |-> "none", seen |-> "ABSENT", to |-> "ABSENT",
         run |-> 0, choice |-> NoChoice]

\* The first SELECT of a request: fetch_claim found the caller's claim.
Fetched(p, u, c) == txn[p].pc = "idle" /\ OwnedBy(c, u)

Keep(p, record) == txn' = [txn EXCEPT ![p] = record]
Done(p) == Keep(p, Idle)

tables == <<claims, documents, runs, followUps, trail, decided>>

\* create_claim: one INSERT and its audit event.
CreateClaim(p, u, c, product, kind) ==
    /\ txn[p].pc = "idle"
    /\ claims[c] = NoClaim
    /\ claims' = [claims EXCEPT ![c] = [status |-> "DRAFT", owner |-> u,
                                        product |-> product, kind |-> kind]]
    /\ UNCHANGED <<documents, runs, followUps, trail, decided, txn, task, begun>>

\* create_claim_document.  Claims are never deleted, so its ownership check
\* stays true and the transaction is one step.
CreateDocument(p, u, c, document) ==
    /\ Fetched(p, u, c)
    /\ documents' = [documents EXCEPT ![c] = @ \cup {document}]
    /\ UNCHANGED <<claims, runs, followUps, trail, decided, txn, task, begun>>

\* submit_claim_for_review: SELECT the claim, check its status ...
SubmitFetch(p, u, c) ==
    /\ Fetched(p, u, c)
    /\ claims[c].status \in {"DRAFT", "DOCUMENTS_PENDING", "NEEDS_INFORMATION"}
    /\ Keep(p, [Idle EXCEPT !.pc = "submit.documents", !.claim = c,
                            !.seen = claims[c].status])
    /\ UNCHANGED <<tables, task, begun>>

SubmitTargetUnchecked(missing) == "READY_FOR_REVIEW"

SubmitTarget(missing) ==
    IF missing # {} THEN "DOCUMENTS_PENDING" ELSE "READY_FOR_REVIEW"

\* ... SELECT its documents and choose the target ...
SubmitDocuments(p) ==
    LET c == txn[p].claim IN
    /\ txn[p].pc = "submit.documents"
    /\ Keep(p, [txn[p] EXCEPT
                    !.pc = "submit.write",
                    !.to = SubmitTarget(Missing(c, documents[c]))])
    /\ UNCHANGED <<tables, task, begun>>

\* ... and UPDATE.
SubmitWrite(p) ==
    /\ txn[p].pc = "submit.write"
    /\ TransitionClaim(txn[p].claim, txn[p].seen, txn[p].to)
    /\ Done(p)
    /\ UNCHANGED <<documents, runs, followUps, decided, task, begun>>

StartFetchAfterEscalation(p, u, c) ==
    /\ Fetched(p, u, c)
    /\ claims[c].status \in {"READY_FOR_REVIEW", "EXPERT_REVIEW_REQUIRED"}
    /\ begun < MaxRuns
    /\ begun' = begun + 1
    /\ Keep(p, [Idle EXCEPT !.pc = "start.latest", !.claim = c,
                            !.seen = claims[c].status, !.to = "UNDER_REVIEW",
                            !.run = begun + 1])
    /\ UNCHANGED <<tables, task>>

\* start_claim_review_run: BEGIN, SELECT the claim, check its status ...
StartFetch(p, u, c) ==
    /\ Fetched(p, u, c)
    /\ claims[c].status = "READY_FOR_REVIEW"
    /\ begun < MaxRuns
    /\ begun' = begun + 1
    /\ Keep(p, [Idle EXCEPT !.pc = "start.latest", !.claim = c,
                            !.seen = claims[c].status, !.to = "UNDER_REVIEW",
                            !.run = begun + 1])
    /\ UNCHANGED <<tables, task>>

\* ... SELECT the latest run and refuse while it is active ...
StartLatest(p) ==
    /\ txn[p].pc = "start.latest"
    /\ IF \E r \in RunIds : /\ IsLatestRun(txn[p].claim, r)
                            /\ runs[r].status \in {"QUEUED", "RUNNING"}
       THEN Done(p)
       ELSE Keep(p, [txn[p] EXCEPT !.pc = "start.write"])
    /\ UNCHANGED <<tables, task, begun>>

StartWriteUnmarked(p) ==
    /\ txn[p].pc = "start.write"
    /\ runs' = [runs EXCEPT ![txn[p].run] = [NoRun EXCEPT !.claim = txn[p].claim,
                                !.status = "RUNNING", !.step = "LOAD_CLAIM"]]
    /\ task' = [task EXCEPT ![txn[p].run].at = "LOAD_CLAIM"]
    /\ Done(p)
    /\ UNCHANGED <<claims, trail, documents, followUps, decided, begun>>

StartWriteUnaudited(p) ==
    /\ txn[p].pc = "start.write"
    /\ claims' = [claims EXCEPT ![txn[p].claim].status = txn[p].to]
    /\ runs' = [runs EXCEPT ![txn[p].run] = [NoRun EXCEPT !.claim = txn[p].claim,
                                !.status = "RUNNING", !.step = "LOAD_CLAIM"]]
    /\ task' = [task EXCEPT ![txn[p].run].at = "LOAD_CLAIM"]
    /\ Done(p)
    /\ UNCHANGED <<trail, documents, followUps, decided, begun>>

\* ... UPDATE the claim and INSERT the run; after the commit the route hands
\* the run to a background task.
StartWrite(p) ==
    LET c == txn[p].claim
        r == txn[p].run IN
    /\ txn[p].pc = "start.write"
    /\ TransitionClaim(c, txn[p].seen, txn[p].to)
    /\ runs' = [runs EXCEPT ![r] = [NoRun EXCEPT !.claim = c, !.status = "RUNNING",
                                                 !.step = "LOAD_CLAIM"]]
    /\ task' = [task EXCEPT ![r].at = "LOAD_CLAIM"]
    /\ Done(p)
    /\ UNCHANGED <<documents, followUps, decided, begun>>

NextStepTargetVerbatim(choice) == choice

\* apply_claim_next_step.
NextStepTarget(choice) ==
    IF choice = "REQUEST_INFORMATION" THEN "NEEDS_INFORMATION" ELSE "EXPERT_REVIEW_REQUIRED"

NextStepFetch(p, u, c, choice) ==
    /\ Fetched(p, u, c)
    /\ claims[c].status = "READY_FOR_DECISION"
    /\ Keep(p, [Idle EXCEPT !.pc = "nextStep.write", !.claim = c,
                            !.seen = claims[c].status,
                            !.to = NextStepTarget(choice), !.choice = choice])
    /\ UNCHANGED <<tables, task, begun>>

NextStepWrite(p) ==
    /\ txn[p].pc = "nextStep.write"
    /\ TransitionClaim(txn[p].claim, txn[p].seen, txn[p].to)
    /\ Done(p)
    /\ UNCHANGED <<documents, runs, followUps, decided, task, begun>>

\* apply_human_claim_decision.
DecisionTarget(choice) == IF choice = "APPROVE" THEN "APPROVED" ELSE "REJECTED"

DecisionFetch(p, u, c, choice) ==
    /\ Fetched(p, u, c)
    /\ claims[c].status = "READY_FOR_DECISION"
    /\ Keep(p, [Idle EXCEPT !.pc = "decision.write", !.claim = c,
                            !.seen = claims[c].status,
                            !.to = DecisionTarget(choice), !.choice = choice])
    /\ UNCHANGED <<tables, task, begun>>

DecisionWriteUnapplied(p) ==
    /\ txn[p].pc = "decision.write"
    /\ decided' = [decided EXCEPT ![txn[p].claim] = @ \cup {txn[p].choice}]
    /\ Done(p)
    /\ UNCHANGED <<claims, trail, documents, runs, followUps, task, begun>>

DecisionWrite(p) ==
    /\ txn[p].pc = "decision.write"
    /\ TransitionClaim(txn[p].claim, txn[p].seen, txn[p].to)
    /\ decided' = [decided EXCEPT ![txn[p].claim] = @ \cup {txn[p].choice}]
    /\ Done(p)
    /\ UNCHANGED <<documents, runs, followUps, task, begun>>

\* The request raises a database error, or its process dies: rolled back.
LoseRequest(p) ==
    /\ txn[p].pc # "idle"
    /\ Done(p)
    /\ UNCHANGED <<tables, task, begun>>

-----------------------------------------------------------------------------
\* The background task of a run: execute_claim_review_run.

Task == [at : Nodes \cup {"NONE", "COMPLETE", "FAIL", "DONE", "LOST"},
         entered : BOOLEAN,                        \* first transaction of the step committed
         documents : SUBSET Uploads,               \* state["documents"]
         missing : SUBSET DocumentTypes,           \* state["missing_documents"]
         chunks : BOOLEAN,                         \* an approved chunk was retrieved
         evidence : {"none", "sufficient", "insufficient"},
         seen : ClaimStatuses \cup {"ABSENT"}]
NoTask == [at |-> "NONE", entered |-> FALSE, documents |-> {}, missing |-> {},
           chunks |-> FALSE, evidence |-> "none", seen |-> "ABSENT"]

\* The edges of build_claim_review_graph; both recommendation nodes report
\* the same step, and END returns to execute_claim_review_run.
NextNode == [LOAD_CLAIM               |-> "CHECK_DOCUMENTS",
             CHECK_DOCUMENTS          |-> "RETRIEVE_POLICY_EVIDENCE",
             RETRIEVE_POLICY_EVIDENCE |-> "VERIFY_EVIDENCE",
             VERIFY_EVIDENCE          |-> "GENERATE_RECOMMENDATION",
             GENERATE_RECOMMENDATION  |-> "PREPARE_NEXT_ACTION",
             PREPARE_NEXT_ACTION      |-> "COMPLETE"]

InBody(r, node) == task[r].at = node /\ task[r].entered

\* The body of a node returns: the graph follows its edge with the new state.
Advance(r, state) ==
    task' = [task EXCEPT ![r] = [state EXCEPT !.at = NextNode[@], !.entered = FALSE]]

\* _progress / record_claim_review_progress: its own transaction, no guard.
Progress(r) ==
    /\ task[r].at \in Nodes
    /\ ~task[r].entered
    /\ runs' = [runs EXCEPT ![r].status = "RUNNING", ![r].step = task[r].at]
    /\ task' = [task EXCEPT ![r].entered = TRUE]
    /\ UNCHANGED <<claims, documents, followUps, trail, decided, txn, begun>>

LoadClaimWithoutDocuments(r) ==
    /\ InBody(r, "LOAD_CLAIM")
    /\ Advance(r, task[r])
    /\ UNCHANGED <<tables, txn, begun>>

\* load_claim_node: the task works on this snapshot from here on.
LoadClaim(r) ==
    /\ InBody(r, "LOAD_CLAIM")
    /\ Advance(r, [task[r] EXCEPT !.documents = documents[runs[r].claim]])
    /\ UNCHANGED <<tables, txn, begun>>

CheckDocuments(r) ==
    /\ InBody(r, "CHECK_DOCUMENTS")
    /\ Advance(r, [task[r] EXCEPT !.missing = Missing(runs[r].claim, task[r].documents)])
    /\ UNCHANGED <<tables, txn, begun>>

\* retrieve_policy_node: no query for an unknown product line.
RetrievePolicy(r) ==
    /\ InBody(r, "RETRIEVE_POLICY_EVIDENCE")
    /\ \E found \in BOOLEAN :
          /\ found => claims[runs[r].claim].product # "unknown"
          /\ Advance(r, [task[r] EXCEPT !.chunks = found])
    /\ UNCHANGED <<tables, txn, begun>>

\* verify_evidence_node with verify_claim_evidence.
VerifyEvidence(r) ==
    /\ InBody(r, "VERIFY_EVIDENCE")
    /\ Advance(r, [task[r] EXCEPT !.evidence =
                       IF claims[runs[r].claim].product # "unknown" /\ task[r].chunks
                       THEN "sufficient" ELSE "insufficient"])
    /\ UNCHANGED <<tables, txn, begun>>

\* generate_recommendation_node or refuse_recommendation_node: text only.
Recommend(r) ==
    /\ InBody(r, "GENERATE_RECOMMENDATION")
    /\ Advance(r, task[r])
    /\ UNCHANGED <<tables, txn, begun>>

\* propose_jira_node: create_proposed_action commits on its own when
\* documents are missing.
ProposeFollowUp(r) ==
    /\ InBody(r, "PREPARE_NEXT_ACTION")
    /\ followUps' = followUps \cup {s \in {r} : task[s].missing # {}}
    /\ Advance(r, task[r])
    /\ UNCHANGED <<claims, documents, runs, trail, decided, txn, begun>>

\* complete_claim_review_run: SELECT the claim ...
CompleteFetch(r) ==
    /\ task[r].at = "COMPLETE" /\ ~task[r].entered
    /\ task' = [task EXCEPT ![r].seen = claims[runs[r].claim].status, ![r].entered = TRUE]
    /\ UNCHANGED <<tables, txn, begun>>

ReviewTargetByDocuments(missing, evidence) ==
    IF missing # {} THEN "NEEDS_INFORMATION" ELSE "READY_FOR_DECISION"

ReviewTarget(missing, evidence) ==
    IF missing # {} \/ evidence = "insufficient" THEN "NEEDS_INFORMATION"
                                                 ELSE "READY_FOR_DECISION"

\* ... and UPDATE claim and run.  Not enabled when _transition_claim raises:
\* then Raise is the only step.
CompleteWrite(r) ==
    /\ InBody(r, "COMPLETE")
    /\ TransitionClaim(runs[r].claim, task[r].seen,
                       ReviewTarget(task[r].missing, task[r].evidence))
    /\ runs' = [runs EXCEPT ![r].status = "SUCCEEDED", ![r].step = "COMPLETED",
                            ![r].missing = task[r].missing,
                            ![r].evidence = task[r].evidence]
    /\ task' = [task EXCEPT ![r] = [NoTask EXCEPT !.at = "DONE"]]
    /\ UNCHANGED <<documents, followUps, decided, txn, begun>>

RaiseAfterCompletion(r) ==
    /\ task[r].at \in Nodes \cup {"COMPLETE", "DONE"}
    /\ task' = [task EXCEPT ![r] = [NoTask EXCEPT !.at = "FAIL"]]
    /\ UNCHANGED <<tables, txn, begun>>

RaiseSwallowed(r) ==
    /\ task[r].at \in Nodes \cup {"COMPLETE"}
    /\ task' = [task EXCEPT ![r] = [NoTask EXCEPT !.at = "DONE"]]
    /\ UNCHANGED <<tables, txn, begun>>

\* Anything inside the try of execute_claim_review_run may raise: a database
\* error, retrieval, the model, a refused transition.
Raise(r) ==
    /\ task[r].at \in Nodes \cup {"COMPLETE"}
    /\ task' = [task EXCEPT ![r] = [NoTask EXCEPT !.at = "FAIL"]]
    /\ UNCHANGED <<tables, txn, begun>>

\* fail_claim_review_run: SELECT the claim ...
FailFetch(r) ==
    /\ task[r].at = "FAIL" /\ ~task[r].entered
    /\ task' = [task EXCEPT ![r].seen = claims[runs[r].claim].status, ![r].entered = TRUE]
    /\ UNCHANGED <<tables, txn, begun>>

\* ... and UPDATE: the claim only if it was read UNDER_REVIEW, the run always.
FailWrite(r) ==
    /\ InBody(r, "FAIL")
    /\ IF task[r].seen = "UNDER_REVIEW"
       THEN TransitionClaim(runs[r].claim, task[r].seen, "READY_FOR_REVIEW")
       ELSE UNCHANGED <<claims, trail>>
    /\ runs' = [runs EXCEPT ![r].status = "FAILED", ![r].step = "FAILED"]
    /\ task' = [task EXCEPT ![r] = [NoTask EXCEPT !.at = "DONE"]]
    /\ UNCHANGED <<documents, followUps, decided, txn, begun>>

\* The process dies, or fail_claim_review_run itself raises: nothing resumes
\* the run.
LoseTask(r) ==
    /\ task[r].at \notin {"NONE", "DONE", "LOST"}
    /\ task' = [task EXCEPT ![r] = [NoTask EXCEPT !.at = "LOST"]]
    /\ UNCHANGED <<tables, txn, begun>>

-----------------------------------------------------------------------------
Init ==
    /\ claims = [c \in Claims |-> NoClaim]
    /\ documents = [c \in Claims |-> {}]
    /\ runs = [r \in RunIds |-> NoRun]
    /\ followUps = {}
    /\ trail = [c \in Claims |-> [from |-> "ABSENT", to |-> "DRAFT"]]
    /\ decided = [c \in Claims |-> {}]
    /\ txn = [p \in Requests |-> Idle]
    /\ task = [r \in RunIds |-> NoTask]
    /\ begun = 0

RequestStep(p) ==
    \/ SubmitDocuments(p) \/ SubmitWrite(p)
    \/ StartLatest(p) \/ StartWrite(p)
    \/ NextStepWrite(p) \/ DecisionWrite(p)

\* A user sends a request; it is never an obligation.
NewRequest(p) ==
    \E u \in Users, c \in Claims :
        \/ \E product \in Products, kind \in ClaimTypes : CreateClaim(p, u, c, product, kind)
        \/ \E document \in Uploads : CreateDocument(p, u, c, document)
        \/ SubmitFetch(p, u, c)
        \/ StartFetch(p, u, c)
        \/ \E choice \in {"REQUEST_INFORMATION", "ESCALATE_TO_EXPERT"} :
               NextStepFetch(p, u, c, choice)
        \/ \E choice \in {"APPROVE", "REJECT"} : DecisionFetch(p, u, c, choice)

TaskStep(r) ==
    \/ Progress(r) \/ LoadClaim(r) \/ CheckDocuments(r) \/ RetrievePolicy(r)
    \/ VerifyEvidence(r) \/ Recommend(r) \/ ProposeFollowUp(r)
    \/ CompleteFetch(r) \/ CompleteWrite(r) \/ Raise(r)
    \/ FailFetch(r) \/ FailWrite(r)

Next ==
    \/ \E p \in Requests : NewRequest(p) \/ RequestStep(p) \/ LoseRequest(p)
    \/ \E r \in RunIds : TaskStep(r) \/ LoseTask(r)

Spec == Init /\ [][Next]_vars

\* The thread pool keeps running the requests and tasks it holds.
FairSpec ==
    /\ Spec
    /\ \A p \in Requests : WF_vars(RequestStep(p))
    /\ \A r \in RunIds : WF_vars(TaskStep(r))

-----------------------------------------------------------------------------
\* Type invariant: every table, transaction and task holds well-formed rows.
TypeOK ==
    /\ claims \in [Claims -> ClaimRow]
    /\ documents \in [Claims -> SUBSET Uploads]
    /\ runs \in [RunIds -> RunRow]
    /\ followUps \in SUBSET RunIds
    /\ trail \in [Claims -> Change]
    /\ decided \in [Claims -> SUBSET Choices]
    /\ txn \in [Requests -> Txn]
    /\ task \in [RunIds -> Task]
    /\ begun \in 0..MaxRuns

(***************************************************************************)
(* Properties that hold whatever requests and tasks race.                  *)
(***************************************************************************)

\* Every required document is COMPLETED for a claim that ever got past
\* DOCUMENTS_PENDING, although each request writes a status it computed from
\* documents and a status it read earlier (submit_claim_for_review).
DocumentedBeforeReview ==
    \A c \in Claims :
        claims[c].status \notin {"ABSENT", "DRAFT", "DOCUMENTS_PENDING"} =>
            Missing(c, documents[c]) = {}

\* A review started through the API never finds a document missing: its
\* result lists none and propose_jira_node proposes no follow-up.
ReviewFindsNothingMissing ==
    /\ followUps = {}
    /\ \A r \in RunIds : runs[r].missing = {}

CleanReview(r) ==
    runs[r].status = "SUCCEEDED" /\ runs[r].missing = {} /\ runs[r].evidence = "sufficient"

\* No claim is offered for a decision, escalated or decided unless a review
\* of it succeeded with sufficient evidence and nothing missing
\* (complete_claim_review_run is the only way in).
DecisionBackedByReview ==
    \A c \in Claims :
        claims[c].status \in {"READY_FOR_DECISION", "EXPERT_REVIEW_REQUIRED",
                              "APPROVED", "REJECTED"} =>
            \E r \in RunsOf(c) : CleanReview(r)

\* A claim is APPROVED or REJECTED only by a human decision that the audit
\* trail records, never by a review or a next step.
TerminalWasDecided ==
    \A c \in Claims :
        /\ claims[c].status = "APPROVED" => "APPROVE" \in decided[c]
        /\ claims[c].status = "REJECTED" => "REJECT" \in decided[c]

\* A run that SUCCEEDED or FAILED never changes again, although progress and
\* failure are written without looking at the run's status.
FinishedRunIsFinal ==
    [][\A r \in RunIds :
          runs[r].status \in {"SUCCEEDED", "FAILED"} => runs'[r] = runs[r]]_runs

\* Unless a background task is lost, a run ends SUCCEEDED or FAILED and its
\* claim leaves UNDER_REVIEW, whichever node of the review raises
\* (execute_claim_review_run).
ReviewSettles ==
    /\ \A r \in RunIds :
           runs[r].status = "RUNNING" ~>
               runs[r].status \in {"SUCCEEDED", "FAILED"} \/ task[r].at = "LOST"
    /\ \A c \in Claims :
           claims[c].status = "UNDER_REVIEW" ~>
               \/ claims[c].status # "UNDER_REVIEW"
               \/ \E r \in RunsOf(c) : task[r].at = "LOST"

(***************************************************************************)
(* Properties that hold when users send one request to a claim at a time;  *)
(* reviews still run in the background, and requests and tasks can still   *)
(* be lost.                                                                *)
(***************************************************************************)

\* No two transactions are open on one claim.
OneRequestPerClaim ==
    \A p, q \in Requests :
        txn[p].pc # "idle" /\ txn[q].pc # "idle" /\ txn[p].claim = txn[q].claim => p = q

ActiveRuns(c) == {r \in RunsOf(c) : runs[r].status \in {"QUEUED", "RUNNING"}}

\* A claim has at most one active review, and has one exactly while it is
\* UNDER_REVIEW (start_claim_review_run and its two ways to finish agree).
OneReviewAtATime ==
    \A c \in Claims :
        /\ Cardinality(ActiveRuns(c)) <= 1
        /\ claims[c].status = "UNDER_REVIEW" <=> ActiveRuns(c) # {}

\* The review a handler sees when asked to decide, the claim's latest run, is
\* the clean one that made the claim ready.
DecisionShowsItsReview ==
    \A c \in Claims :
        claims[c].status = "READY_FOR_DECISION" =>
            \E r \in RunIds : IsLatestRun(c, r) /\ CleanReview(r)

\* A recorded human decision is the only one of its claim and stays in force.
OneHumanDecision ==
    \A c \in Claims :
        /\ "APPROVE" \in decided[c] => claims[c].status = "APPROVED" /\ decided[c] = {"APPROVE"}
        /\ "REJECT" \in decided[c] => claims[c].status = "REJECTED" /\ decided[c] = {"REJECT"}

\* Read in order, the CLAIM_STATUS_CHANGED events of a claim form a path:
\* every event starts where the previous one ended.
AuditTrailIsAPath ==
    [][\A c \in Claims : trail'[c] # trail[c] => trail'[c].from = trail[c].to]_trail

\* The service implements the abstract lifecycle.
Lifecycle == INSTANCE ClaimLifecycle
                WITH Reviews <- RunIds,
                     status <- [c \in Claims |-> claims[c].status],
                     open <- [c \in Claims |-> ActiveRuns(c)]

\* Every step of the service is a step of the lifecycle or leaves it alone.
ImplementsLifecycle == Lifecycle!Spec
=============================================================================
