# SupportAgent in TLA+

SupportAgent is an insurance support agent: a FastAPI backend over PostgreSQL,
a LangGraph answering workflow, a claims desk with human approval, MCP tools
that reach Microsoft calendars, and a Next.js frontend. This directory holds
TLA+ models of its backend, the TLC runs that check them on small instances,
and TLAPS proofs of the safety properties that matter most.

`PROJECT.json` lists the components, the runs, the hazards, the theorems, and
for every definition of a model the source lines it translates.

1. [The system](#1-the-system)
2. [Modules and their correspondence to the code](#2-modules-and-their-correspondence-to-the-code)
3. [The runs](#3-the-runs)
4. [Fairness](#4-fairness)
5. [The proofs](#5-the-proofs)
6. [What the code does not keep](#6-what-the-code-does-not-keep)
7. [What is not modelled](#7-what-is-not-modelled)

Paths below are relative to `src/src/backend/supportagent/` unless they begin
with `src/`.

## 1. The system

**How it runs.** Synchronous route handlers run in a thread pool, asynchronous
ones (`/mcp/call`) on the event loop. A store function or service function
opens a transaction with `SessionLocal.begin()`: PostgreSQL at READ COMMITTED,
so every statement sees what was committed when it began. `BackgroundTasks`
run in the same process after the response; nothing persists them. Several
processes may serve one database. So concurrency is between transactions, the
only cross-process state is the tables, and a process can die between any two
transactions.

| Component | State it keeps | Operations | Hard behaviour | What makes it correct |
|---|---|---|---|---|
| **Claims** (`claims/`, `api/claims.py`) | claims, documents, review runs, audit events, background tasks | create, add document, submit, start review, the six review nodes, complete, fail, next step, decide | unlocked read-check-write; reviews finishing in any order over one claim row; a lost task; stale document snapshots | no claim is decided without required documents and a clean review; finished runs stay finished; a review always gives the claim back |
| **Action approval** (`claims/`) | proposed actions, approval records, row locks | propose, approve, reject | racing decisions; two-row locking and deadlock; no unique constraint | one decision per action, by the owner, recorded atomically |
| **MCP calendar actions** (`api/mcp.py`, `mcp_client/`) | idempotency records, tool audit, calendar | claim key, call tool, complete, abandon, audit, record turn | lost and late answers, refusals, retries, crash between transactions, two processes | one event per key; a reported success is real; a key does not stay in progress |
| **MCP configuration and tool agent** (`mcp_client/tool_agent.py`, `config.py`, `auth/microsoft.py`) | OAuth states, user credentials, tool policies | connect, callback, refresh, discover, tool loop | concurrent refresh of one token; a callback repeated or late; an agent that runs twice | a state is used once; credentials belong to one user; a call that took effect is audited |
| **Conversation memory** (`memory/`, `api/threads.py`) | conversations, messages, long-term memories | load context, save turn, edit, delete | a turn paired with its answer only by message order; row locks in opposite orders | a thread is its owner's; an answer stands by its question |
| **Accounts** (`auth/`) | users, sessions, reset tokens | register, login, reset, log out | check-then-use of tokens; login racing a reset | one account per email; a reset revokes the sessions there are |
| **Ask workflow** (`agent/`, `core/answer.py`, `api/ask.py`) | the state of one question | route, rewrite, retrieve, verify, answer or refuse, tools | each stage may fail; fallbacks | an answer rests on what was found or on the images of the question, or is a refusal |
| **Model routing** (`llm/`, `runtime/models.py`) | configuration | resolve, call, map errors | overrides and defaults in all combinations | the model resolved can do its task and is the user's choice where there is one |
| **Uploads** (`uploads/`, `storage/`, `vision/`) | objects, file rows | store, analyse, preview, use in a question | object and row are two systems; the configuration changes between deployments | every row has its object, and shows it to its user only |
| **Retrieval index** (`rag/`, `integrations/atlassian_client.py`) | chunks with embeddings | list, collect, cut, embed, upsert | overlapping runs; documents that change while they are read; listings that repeat documents or cursors | a chunk is embedded by its own text; a document is whole; a run ends |
| **MCP servers** (`mcp_servers/`) | none | adapters over HTTP services | timeouts | external to the models |
| API shell, evaluation, prompts, utilities, frontend, migrations | none that the service shares | | | |

**How they interact.** The claims desk asks the retrieval index for policy
evidence inside a review. `/ask` loads and saves conversation memory, routes a
model, reads the contexts of uploaded images and may call the MCP tools a
policy allows, with the credentials of its user. A confirmed calendar action
goes through `/mcp/call`, which writes the idempotency record, calls an MCP
server, writes the tool audit and adds a turn to conversation memory. An
approval decision and every update of a claim compete for the claim's row.
Everything asks Accounts who the caller is; the other models take users as
given.

The hazards this leaves, each at the line where it bites and with the
properties that would notice, are in `PROJECT.json` under `hazards`; where no
property covers one, its note says why.

## 2. Modules and their correspondence to the code

| Module | Models | Kind |
|---|---|---|
| `ClaimStateMachine` | `claims/state_machine.py`: `CLAIM_TRANSITIONS`, the approval rule | rules |
| `DocumentRules` | `claims/document_rules.py`: required and missing documents | rules |
| `ClaimLifecycle` | what the claim desk promises, one step per operation | abstract specification |
| `ClaimService` | `claims/service.py` over `claims/store.py`, `claims/review_workflow.py`, the routes of `api/claims.py` | detailed |
| `ApprovalContract` | one atomic decision per proposed action | abstract specification |
| `ActionApproval` | `create_proposed_action`, `approve_action`, `reject_action` and the row locks | detailed |
| `IdempotencyContract` | one action per key, with one final result that every caller is told | abstract specification |
| `McpIdempotency` | `mcp_call` over the idempotency records, the tool call and the calendar | detailed |
| `ConversationMemory` | `memory/service.py` over `memory/store.py` | detailed |
| `AskWorkflow` | the graph of `agent/workflow.py` with `core/answer.py` and the tool agent of `mcp_client/tool_agent.py` | detailed |
| `Accounts` | `auth/service.py` over `auth/store.py` | detailed |
| `OAuthCredentials` | `auth/microsoft.py` and the credentials of `mcp_client/store.py` | detailed |
| `RetrievalIndex` | `rag/index.py` with `rag/ingest.py`, `chunking.py`, `embeddings.py`, `vector_store.py`, and the listings of `integrations/atlassian_client.py` | detailed |
| `ModelRouting` | `llm/registry.py` | rules |
| `Uploads` | `uploads/service.py`, `storage/service.py`, `vision/service.py`, `api/uploads.py` | detailed |
| `MC*` | definitions the configurations need | TLC |
| `*Proofs` | theorems about the module they are named after; `AskWorkflowProofs` also about `Uploads` and `ModelRouting` | TLAPS |

`ClaimService` extends the two rule modules and implements `ClaimLifecycle`;
`ActionApproval` extends `ClaimStateMachine` and implements
`ApprovalContract`; `McpIdempotency` implements `IdempotencyContract`;
`Uploads` extends `ModelRouting`. `ClaimService` and
`ActionApproval` share the claim row: from the approval's side an update of the
claim by the desk is `UpdateClaim` and `CommitClaim`, a holder of that row's
lock. `AskWorkflow` sees the memory as a load that never fails and a save that
may (`ConversationMemory` is what both do), the index as any chunks of the
sources asked for, and the credentials as a read that may fail.

### ClaimService

*State.* `claims`, `documents`, `runs` are the tables; `followUps` are the
`CREATE_JIRA_ISSUE` proposals a review makes; `trail` is the newest
`CLAIM_STATUS_CHANGED` event of a claim and `decided` the decisions its audit
events record; `txn` is what each request thread has read in its open
transaction; `task` is the local state of each run's background task. `begun`
counts start transactions: `created_at` is `now()`, the time a transaction
begins, so the order of runs is the order in which their transactions began,
not the order in which they committed.

*Steps.* A service function is split where its interleaving can be seen: one
step for each SELECT whose result it keeps, one for its writes, which become
visible together at COMMIT.

| Code | Actions |
|---|---|
| `create_claim` | `CreateClaim` |
| `create_claim_document` | `CreateDocument` (claims are never deleted, so its check cannot go stale) |
| `submit_claim_for_review` | `SubmitFetch`, `SubmitDocuments`, `SubmitWrite` |
| `start_claim_review_run`, and the route's `add_task` | `StartFetch`, `StartLatest`, `StartWrite` |
| `apply_claim_next_step` | `NextStepFetch`, `NextStepWrite` |
| `apply_human_claim_decision` | `DecisionFetch`, `DecisionWrite` |
| `record_claim_review_progress` (each node's first transaction) | `Progress` |
| nodes of `build_claim_review_graph` | `LoadClaim`, `CheckDocuments`, `RetrievePolicy`, `VerifyEvidence`, `Recommend`, `ProposeFollowUp` |
| `complete_claim_review_run` | `CompleteFetch`, `CompleteWrite` |
| the `except` of `execute_claim_review_run`, `fail_claim_review_run` | `Raise`, `FailFetch`, `FailWrite` |
| a database error or the end of the process | `LoseRequest`, `LoseTask` |

`TransitionClaim(c, seen, to)` is `_transition_claim` with
`update_claim_status`: it validates the target against the status that was
*read* and then overwrites the row, whatever its status is by then. Two
consequences of the code show in the model. `EXPERT_REVIEW_REQUIRED` is a dead
end: the table allows leaving it, no route does. And the follow-up branch of
`propose_jira_node` is unreachable through the API, because documents are only
added and the requirements of a claim never change; `ReviewFindsNothingMissing`
states it and a theorem proves it.

*Abstractions.* A document is its normalised type and whether its extraction
is COMPLETED. Retrieval either finds an approved chunk or does not. The texts
of recommendations are left out: no guard reads them.

### ActionApproval

*State.* `actions` and `approvals` are the tables `proposed_actions` and
`claim_action_approvals`, `lock` the row locks of actions and claims, `txn` the
requests. `fetch_action_for_owner` is `SELECT ... JOIN claims ... FOR UPDATE`
without an `OF` clause, which locks both rows: `LockAction`, then `LockClaim`.
The wait for a row lock ends with the newest committed version, so the status
is read at the moment the lock is granted. `Decide` is
`record_action_decision` and the commit. `Propose` respects that the foreign
key check of an INSERT takes a key-share lock on the claim's row, which waits
for a `FOR UPDATE` and not for an UPDATE of a non-key column.

No code executes an approved action: `EXECUTING` and the statuses after it
never occur, and the model does not invent them.

### McpIdempotency

*State.* `records` is `mcp_idempotency_records`, `audit` the
`mcp_tool_audit_log` row of each call, `turns` the calls remembered in
conversation memory, `call` the local state of `mcp_call`, `posts` what was
sent to the calendar and what it answered, `calendar` the events there are. A
key stands for user, server, tool and idempotency key, everything
`_idempotency_key_matches` compares.

| Code | Actions |
|---|---|
| `mcp_call` up to its confirmation guard | `Begin` |
| `claim_idempotency_key`: INSERT ... ON CONFLICT DO NOTHING, then SELECT | `ClaimInsert`, `ClaimSelect` |
| `inject_user_credentials`, `local_mcp_configs` | `Inject` |
| `call_tool`, `mcp_result_to_text` | `CallTool`, `Answer`, `CallFails` |
| `abandon_idempotency_key`, `complete_idempotency_key` | `Abandon`, `Complete` |
| `add_audit_log` | `AuditError`, `AuditSuccess` |
| `record_mcp_action_turn` | `RecordTurn` |
| an exception outside the `try`, or the end of the process | `Lose` |
| the calendar (external) | `Serve` |

`TextOf` is `request_json` of `mcp_servers/http.py`: an HTTP status of 400 or
more is not an exception but the result of the tool, so `mcp_call` completes
the key with it. What `OneEventPerKey` and `SuccessIsReal` say of results
therefore allows a refusal, and section 6 shows what follows from it.

*External assumption.* Microsoft Graph treats a repeated `transactionId` as
the same request: the second is answered with the event of the first or with an
error, and makes no event. The adapter under `mcp_servers/teams_mcp` sends the
key as that id. `OneEventPerKey` rests on this assumption and on nothing else
outside the repository. The calendar may serve an action long after the
caller gave up, and may never serve it.

Tools that are not calendar actions carry no key; their calls keep no state but
an audit row and are left out.

### ConversationMemory

*State.* `owner` is `conversations`, `messages` and `memories` are the other
two tables, `lastId` is the sequence that numbers messages, `work` the open
transaction of each worker with the rows it holds (`holds`).

*Steps.* Every function of the service is one transaction, split at each
statement, because statements take row locks and sequence numbers are drawn
before the commit: `Ensure`, `Recall`, `Search`, `Commit` for
`load_memory_context`; `Ensure`, `Question`, `Answer`, `Commit` for
`save_memory_turn` and `record_mcp_action_turn`; `Find`, `Update`, `Select`,
`Drop`, `Touch` for an edit; `Find`, `Select`, `Drop`, `Remove`, `Touch` for a
deletion. The writes of a transaction appear at its last step. `Ensure` locks
the conversation's row even when it refuses (PostgreSQL locks the conflicting
row before it evaluates the WHERE of DO UPDATE). That lock is what
keeps two turns of a thread apart: the defect `EnsureDoNothing`, the same
statement with DO NOTHING, breaks `TurnsStayTogether`.

*Abstractions.* A message is its id, thread, role, author, turn and whether it
was edited; similarity search returns any set of the user's memories of the
size of the limit.

### AskWorkflow

*State.* `asked` is what a request decides, `auto` the tools a policy lets the
agent call, `pc` the node or the step within the tool agent. `effects` are the
tool calls that reached a server, `audit` the log, `shown` the trace of the
answer; `chunks`, `evidence`, `answer` and `saved` are fields of `AgentState`;
`told` is the status of a failed question.

Each action is a node of the graph, or a call inside the tool agent that can
fail on its own. The point of the model is the failure paths: which exception
is caught where (`ChooseTools`, `FinishTools`, `Rerun`, `FailWith`). A model
that fails raises an `LLMError`, which is a `RuntimeError`, and
`run_dynamic_mcp_agent_sync` answers a `RuntimeError` with a second run of the
whole agent; hence `attempt`. The policies are evaluated by `LocalTools` from
any server row and any policy rows, missing rows included. The model is
assumed to call only tools it was offered.

### Accounts, OAuthCredentials

In `Accounts` a call is a read (`Begin...`) and its writes: between the two lie
the password hash or the mail. A password is the number of resets before it, so
that a session remembers which password its login verified. Sessions that a
reset overtook are marked `late`; `OldSessionsWereOvertaken` says there are no
others.

In `OAuthCredentials` every statement is a transaction of its own with
Microsoft asked in between. `grants` are the consents Microsoft knows, each
with the number of its newest token; a refresh token that was replaced may be
accepted or refused. `begun` and `exchanged` only observe. `Replace` is the
credentials panel: what is typed there belongs to no grant.

### RetrievalIndex

`documents` is Atlassian, `chunks` the table, `runs` the progress of each index
process. `Write` is an author, at any time. The text of a chunk is its
document, its place and the version of the document it was cut from.

| Code | Actions |
|---|---|
| `fetch_confluence_pages`, `fetch_jira_issues` | `Fetch` |
| the loops of `collect_documents`, with `fetch_confluence_labels` | `Take` |
| `iter_confluence_pages`, `iter_jira_issues` | `NextRequest`, `EndListing` |
| `embed_texts`, one request of a batch | `Embed` |
| the transaction of `upsert_chunk` calls in `main` | `Store` |
| a request or the database that fails, the end of the process | `Fail`; in `Take` a page that is gone when its labels are asked for; in `NextRequest` too many requests |

What a listing yields is Atlassian's: `Fetch` is answered with any documents of
the source that are there, in their versions of that moment, in any order,
repeated or left out, and with a cursor that is new, was seen before or is
missing. A run may therefore collect a document several times and in several
versions, as the client's own tests do with a repeated cursor. Such texts meet
at the same rows: `Upsert` keeps the last one of each place, and
`UpsertIsSequential` in `MCRetrievalIndex` checks that this is what upserts one
after another do.

Chunks are never removed: the code has no statement that would. Pages and
issues are stored under the ids their systems give them; the model takes these
as apart.

### ModelRouting, Uploads

`ModelRouting` is a set of operators over an environment: the keys and URLs
set, `CHAT_MODELS`, the pinned models, `VISION_PROVIDER`. Its operators follow
`llm/registry.py` name by name. `Uploads` runs over it: `CheckImage`,
`PutObject`, `AnalyzeImage`, `CreateUploadedFile` are the stages of
`save_uploaded_image`, `Fail` loses an upload between any two of them,
`Restart` deploys the server with another environment, `PreviewImage` and
`GetImageContexts` read. `previews` and `contexts` only observe.

*Abstractions.* `CHAT_MODELS` that holds nothing but commas, or a `CHAT_MODEL`
that is set and empty, is taken as unset, from which the code differs a little.
A storage is reachable in an environment or not: that a reachable one fails a
single read, so that one preview is an error and the next is not, is left out.

## 3. The runs

An operator placed right before the definition it resembles and with a
qualified name (`StartFetchAfterEscalation`, `AbandonNothing`, ...) is a
*defect*: what the definition would be after a plausible mistake. No action
uses it. Every property of a passing run is paired in `PROJECT.json`
(`mutants`) with a defect that breaks it, so each property is known to notice
something.

Passing runs:

| Run (configuration) | Question | Properties |
|---|---|---|
| `claim-race` (`ClaimServiceRace`) | What stays true whatever two requests and two background reviews do to each other, with requests and tasks lost at any step? Does every run end, and every claim leave `UNDER_REVIEW`, unless a task is lost? | `TypeOK`, `DocumentedBeforeReview`, `ReviewFindsNothingMissing`, `DecisionBackedByReview`, `FinishedRunIsFinal`, `ReviewSettles` |
| `claim-serial` (`ClaimServiceSerial`) | If a claim gets one request at a time, do the unlocked guards suffice while reviews run in the background and tasks are lost? | `OneReviewAtATime`, `DecisionShowsItsReview`, `OneHumanDecision`, `AuditTrailIsAPath`, `ImplementsLifecycle` |
| `approval` (`ActionApproval`) | Do row locks make decisions atomic, and do the two locks of a decision ever deadlock? | `DecidedOnce`, `ImplementsContract`, `RequestsEnd` |
| `mcp-idempotency` (`McpIdempotency`) | Is a calendar action run and made at most once, are reported successes true and the same for all callers, and is a key in progress settled unless a call was lost? | `OneRunPerKey`, `OneEventPerKey`, `SuccessIsReal`, `AuditedSuccessReplays`, `KeySettles`, `ImplementsContract` |
| `memory` (`ConversationMemory`) | Do the row locks keep threads private, turns together and answers with their questions, and does every call end although edits and deletions can deadlock? | `ThreadsArePrivate`, `TurnsStayTogether`, `AnswersFitQuestions`, `CallsEnd` |
| `ask` (`AskWorkflow`) | Whatever fails inside a question, is its answer grounded, are its tool calls audited, does it degrade to the retrieval, and does it end? | `AnswersAreGrounded`, `CallsAreAudited`, `ToolsDegradeToRetrieval`, `QuestionsEnd` |
| `accounts` (`Accounts`) | What do the unique constraint, a reset and a used token keep in a race? | `OneAccountPerEmail`, `OldSessionsWereOvertaken`, `UsedTokensAreNotFound` |
| `oauth` (`OAuthCredentials`) | Can flows, repeated callbacks and refreshes mix up users, or use a state twice? | `CredentialsAreOwn`, `StatesAreUsedOnce` |
| `index` (`RetrievalIndex`) | Does a reader find documents whole and by their own text while index runs overlap, fail, and read changing documents more than once, and does every run end? | `EmbeddingsAreOfTheirText`, `DocumentsAreWhole`, `RunsEnd` |
| `uploads` (`Uploads`) | Does every row have its object and every preview its image after failures and deployments; does routing honour the user's choice and the task's need? | `RowsHaveObjects`, `PreviewsAreRight`, `ImagesAreSeen`, `OptionsAreHonoured` |

Two more runs show where the repository says more than the code keeps
(section 6).

**Bounds.**

- `ClaimService`: one claim, because no operation reads or writes two claims,
  so claims interact only through the run numbers, which the proofs cover. One
  user, because ownership never changes. Products `household` (a policy query
  can be made) and `unknown` (it cannot); both require a form and a photo, and
  the uploads add an unfinished photo, so a claim can be undocumented,
  apparently documented and documented. Two requests make every race of two
  writes, beside two runs (`MaxRuns = 2`), which is what two racing starts
  create; a third run adds no new pair. `claim-serial` has three runs, so that
  a failed and a repeated review precede a current one. `MaxRuns` bounds the
  start transactions that pass their guard, and is the only cap on behaviour.
- `ActionApproval`: three requests, so that two wait for a lock while one holds
  it; two actions of one claim, so that two decisions share the claim's row
  and not the action's; two users, one of them not the owner.
- `McpIdempotency`: each element of `Requests` is one call and is used once, so
  the model really stops when every call has ended: its configurations do
  not check deadlock. Three calls are a first call, a retry after its failure
  and a concurrent duplicate; two keys show that keys do not disturb each other.
- `ConversationMemory`: two workers, because row locks and message pairs are
  about two transactions; two turns (`MaxTurns`), so that an answer has a
  neighbour it could be taken for, and either may be edited or deleted again;
  two users who both want the one thread. The limits are as small as makes them
  bite: the history of two messages leaves some out, one memory is the nearest
  of two.
- `AskWorkflow`: one question, since questions share nothing but the tables of
  the other models; every question, server row and pair of policies; up to two
  tool calls (`MaxCalls`), so that one can fail after another succeeded, in
  both runs of the agent. A question that has ended stops: no deadlock check.
- `Accounts`: two calls at once over two emails, two users, tokens and
  sessions and three resets (all ever made), which is a race of two resets with
  one token and one more. When the bounds are used up and nobody is logged in
  the model stops: no deadlock check; the same holds for `OAuthCredentials`, with
  two flows, two consents and three tokens of each, so that two refreshes race
  over one token and a third follows.
- `RetrievalIndex`: one page, because documents meet in no row, which shrinks
  from three sections to two when it is edited; two runs that overlap; listings
  of two requests (`MAX_PAGES`) with one result each, so that one run collects
  both versions, in either order or one of them twice, while the other stores;
  batches of two, so that a run makes several with the last one partly filled.
  An issue is cut into one chunk and needs no label, which makes it the simpler
  case: no run has one, the proofs do.
- `Uploads`: two images of two users; 72 configurations that miss a key or a
  URL, list nothing, list a model nobody can use or a doubled one, pin chat or
  vision, and six that are moved between storages, unreachable ones and one
  nobody knows among them. Every image is uploaded once.

Symmetry of workers, runs, users, images or calls is used where a run checks
invariants only; beside liveness properties it would be unsound.

## 4. Fairness

Users owe nothing: beginning a request, and losing a request, a task or a
call, is never fair, and neither is the calendar.

- `ClaimService`: weak fairness of the steps of a request that has begun and of
  every background task. The thread pool keeps running what it holds, and no
  step of either waits for another one: the row lock an UPDATE may wait for
  ends with the other transaction's commit.
- `ActionApproval`: strong fairness for taking a row lock, because PostgreSQL
  queues the waiters of a row and serves them in turn, while the lock may be
  taken and released by others in between; weak fairness for the steps of a
  transaction that holds its locks.
- `McpIdempotency`: weak fairness of the steps of a call. The wait for the
  calendar is ended by the 15 second timeout of `mcp_servers/http.py`,
  which `CallFails` models.
- `ConversationMemory`: strong fairness of the steps of each call, for the same
  queue of waiters; the breaking of a deadlock is one of these steps
  (`BreakDeadlock`), as PostgreSQL's `deadlock_timeout` guarantees. Failures
  are not fair: a call ends without them.
- `AskWorkflow`: weak fairness of the next step. One thread runs the question,
  and everything it waits for has a timeout. `QuestionsEnd` then says that the
  graph and the rerun of the tool agent have no cycle.
- `RetrievalIndex`: weak fairness of the steps of each run (`FairSpec`). A run
  is one process that waits for nobody but Atlassian, the embedding service and
  the database, which are assumed to answer or to fail; the client of Atlassian
  sets no timeout of its own. Nobody owes that a run is started.
- `Accounts`, `OAuthCredentials` and `Uploads` state safety only: their calls
  are straight lines, and nobody promises that a user finishes a flow.

## 5. The proofs

All theorems hold for every value of the constants that satisfies the named
assumptions. TLC evaluates those assumptions in the passing runs. Each module
has an inductive invariant (`IndInv`, `UploadInv`), proved by one lemma for each
action, and its theorems follow from the fact that it always holds.

**`ClaimServiceProofs`, the race** (from `ServiceAssumption`): `TypeCorrect`,
`AlwaysDocumented`, `ReviewsAreComplete`, `DecisionsAreBacked`, `HumansDecide`,
`FinishedRunsStay`: the safety properties of `claim-race`, and that a terminal
status was decided by a human. None is inductive alone: a write step writes what an earlier read justified. The strengthening
`IndInv` says what a transaction still knows when it writes. Statuses it read
may be stale, but three facts are stable (`FactsStable`): a created claim keeps
existing with its product and type, a documented claim stays documented
(`MissingShrinks`: documents are only added), and a claim with a clean review
keeps it (finished runs are never rewritten). `TxnInv` ties each open
transaction to the stable fact its target status needs, `TaskInv` ties each
task position to the state of its run, and `RunNumbers` makes sure a run number
is used by one start only. The last property, `FinishedRunIsFinal`, is an
action property that follows from `Frame`, which every step satisfies:
`task.at = "DONE"` exactly when the run is finished, and a finished task has no
step left.

**`ClaimServiceProofs`, one request at a time.** What the unlocked guards
suffice for is proved under `[]OneRequestPerClaim`: at no moment do two request
threads work on the same claim. Any number of threads may work on different
claims, background reviews run beside them, and requests and tasks may be lost
at every step. Under that hypothesis `SerialInductive` adds `SerialInv` to
`IndInv`, and from it follow `ReviewsDoNotOverlap`, `DecisionsSeeTheirReview`,
`DecisionsAreFinal`, `AuditTrailConnects` and `ServiceImplementsLifecycle`, that
the service implements `ClaimLifecycle`. `SerialInv` has three parts. `ClaimOK`
relates a claim to its runs: it has at most one active run and is
`UNDER_REVIEW` exactly while it has one, a claim that waits for a decision has a
clean review as its newest run, a recorded decision is the status.
`CurrentTxns` says that what an open transaction has read is still so, which is
what a race destroys; the delicate case is a task that completes its run between
the two reads of a request. `ReturnOK` says that a task about to end its run
read the claim `UNDER_REVIEW`. The refinement maps each step to one step of
`ClaimLifecycle` or to a stutter, and the status a step validates is the one it
overwrites because of `CurrentTxns`. The hypothesis is what `claim-serial`
has by its one request thread; the theorems say more, because threads on other
claims are allowed.

**`ActionApprovalProofs`** (from `ApprovalAssumption`): `TypeCorrect`,
`OneDecisionPerAction`, `OnlyOwnersDecide`, and `Refinement`, that the module
implements `ApprovalContract`. `LockInv` carries the argument: a request past
`LockAction` holds the action's lock, and therefore the status it read is the
status the action still has.

**`McpIdempotencyProofs`** (from `IdempotencyAssumption`): `TypeCorrect`,
`AtMostOneRun`, `AtMostOneEvent`, `SuccessesAreReal`, `AuditedSuccessesReplay`,
`SuccessesAreFinal`, and `CallsImplementAction`, that the module implements
`IdempotencyContract`. The key of a running call is `in_progress`, which makes
runs exclusive. That alone does not give one event: a call may end while its
action is still on its way, and the next call then sends another one.
`EventInv` closes that gap: each event was made by a post that carries the
key, so the calendar recognises the next one. The refinement needs one more
fact, `AnswerInv`: whoever is answered, the first caller with what its call
returned or a later one with what the record holds, has the recorded result.
It says more than `SuccessIsReal`, under which one caller might be told of an
event and another of a refusal. The contract lets the event appear at any
time after a run sent the action, because the calendar may serve it when the
key was released long ago.

**`ConversationMemoryProofs`** (from `MemoryAssumption`): `TypeCorrect`,
`ThreadsStayPrivate`, `TurnsAreNeighbours`, `AnswersStayWithQuestions`,
`OwnersAreKept`. `TurnsStayTogether` is not inductive: a turn that drew the id
of its question and not yet that of its answer must be known to be alone in
its thread. `CallFacts` says that it holds the conversation's row, `ApartInv`
that no two transactions hold one row, and `TurnFacts` that drawn ids are new
and greater than all committed ones of the thread. An answer is the first
message after its question (`MessageInv`), so `_delete_answer_after` removes
the answer of its own turn whenever there is one, which gives
`AnswersFitQuestions` (that it removes another answer when there is none is
section 6).

**`AskWorkflowProofs`** (from `AskAssumption`): `TypeCorrect`,
`AnswersStayGrounded`, `CallsStayAudited`, `ToolsStayExtra`. `StageInv` says
what each node may rely on (what was retrieved, what was shown, which source
was asked for), `AuditInv` that the only call missing in the log is the one
being made.

**`AskWorkflowProofs`, the images of a question** (from `UploadAssumption`):
`UploadsTyped`, `RowsKeepObjects`, `PreviewsStayRight`, `ImagesStaySeen`,
`OptionsStayHonoured`, for any images, users and environments. `UploadInv` says
that a key names the image it was made for, that an image has at most one row,
made when its upload ended and naming a place where its object lies, and that
previews and contexts went to the owner of the image. The routing
lemmas underneath say what `ResolveModel` returns: `FirstOfIsFirst` that a
list with an element in a set has a first one, `ChoiceIsFirst` that the model a
user chose precedes the defaults, `ResolvedFits` that whatever is resolved can
do the task, `OptionsResolve` that each model offered to the user is the one
resolved when it is chosen. The existence of a first element is the
well-foundedness of the naturals, cited in its form for sets (`Least`), since
the form for predicates takes an operator as a parameter. The specification of
`Uploads` is named `UploadsSpec` so that its theorems and those of `AskWorkflow`
can stand in one module.

**`AccountsProofs`** (from `AccountsAssumption`): `TypeCorrect`,
`EmailsAreUnique`, `ResetsRevokeSessions`, `UsedTokensStaySpent`. `TokenInv`
says that a token which has reset a password is marked used and stays so,
whatever the calls that found it before do; section 6 shows that these may use
it once more.

**`OAuthCredentialsProofs`** (from `OAuthAssumption`): `TypeCorrect`,
`CredentialsStayOwn`, `FlowsConnectOnce`. The state a callback consumed is dead
and was never exchanged while the callback is at work, and only one callback
works on it (`AloneInv`).

**`RetrievalIndexProofs`** (from `IndexAssumption`): `TypeCorrect`,
`ChunksAreFoundByTheirText`, `DocumentsStayWhole`, for any answers of the two
systems, any size of a batch and any number of sections. `EmbeddingFacts` ties
the number of embeddings to the position of the loop, and each to the text at
its place. `DocumentFacts` says that of every document a run collected some
version is whole among the texts no later one takes the place of (`LastIn`).
It survives a document that is collected once more, in whatever version, by
`CollectedLast`: the new pieces take the places of earlier pieces of that
document and of nothing else, so the newest version is whole and every other
document is as before. The upsert then lays those last texts over whatever is
there.

**Only model-checked.** Every invariant, every action property and the
three refinements of the passing runs are proved. TLC alone checks the liveness
properties (`ReviewSettles`, `RequestsEnd`, `KeySettles`, `CallsEnd`,
`QuestionsEnd`, `RunsEnd`): under fairness they need `ENABLED`, which this prover cannot
expand. The two counterexample runs are TLC's by nature. Induction over data and
`RECURSIVE` operators are out of the prover's reach too; the modules declare no
such operator, and the lists of `ModelRouting` are searched by position instead
of folded. In the other direction, `TerminalWasDecided`, `OwnerDecides`,
`SucceededIsFinal`, `OwnersStay` and the types of most modules are proved and in
no run.

## 6. What the code does not keep

Each of these runs checks a sentence of the repository and ends with a
counterexample; `PROJECT.json` quotes the sentence under `findings`.

| Run | Statement | What happens |
|---|---|---|
| `mcp-refused` (`McpIdempotencyRefused`) | a retry is answered with the "earlier successful result" of its action | an HTTP error of the calendar is an ordinary result: the key is completed with a refusal, and every later attempt gets it back as a success |
| `memory-own-answer` (`ConversationMemoryOwnAnswer`) | editing a question removes its answer | edited twice, a question removes the answer of the next turn, whose question stays |

More such statements are known from the models; where a passing run shows what
holds instead, it is named:

- Two racing starts both pass the guard that refuses a second review, and the
  status written is validated against the one read, not the one overwritten
  (`claims/service.py`). `claim-race` shows what survives (documents and a clean
  review still precede every decision), `claim-serial` that the guards do
  suffice without the race.
- A background review whose process stops leaves its run RUNNING and its claim
  `UNDER_REVIEW`; a calendar call lost after claiming its key leaves the key in
  progress. `ReviewSettles` and `KeySettles` show that a loss is the only way.
- `src/docs/claim-agent-v0.1.md` excludes terminal decisions;
  `POST /claims/{id}/decision` makes them.
- The event, the completion of its key and its audit row are three commits, so
  an event can miss in the audit table; the idempotency key leaves out
  attendees, body and location, so a changed action replays the old result.
- The reset mail says that its link "can be used once" (`auth/email.py:28`). Two
  resets that both found the token before either marked it used both set a
  password; `accounts` shows that nobody who asks later finds it. The other
  reset tokens of the user stay valid after a reset, and a login that verified
  the old password survives it; `accounts` shows that only a login that raced
  with the reset does.
- "If no chunks are retrieved, the workflow returns the controlled refusal text
  without calling the chat model" (`src/README.md:417`). The code refuses only
  without images (`agent/workflow.py:229`): a question with images is answered
  from them, which a unit test expects
  (`test_generate_answer_uses_image_context_without_chunks`). `ask` shows that
  without images it is refused.
- A refresh that ends after the user connected anew writes the credentials of
  the older consent back (`oauth` shows that they are still the user's).
- "Only Confluence pages carrying this label belong to the insurance knowledge
  base" (`rag/ingest.py:12`). A page that was indexed and lost the label is
  passed over by every later run and its chunks stay, as those of deleted pages
  and of longer earlier versions do; `index` shows that some version of each
  document is whole beside them.
- A tool agent that runs twice calls its tools twice and shows the second
  calls only; the audit log has them all (`ask`).

## 7. What is not modelled

- *MCP servers* (`mcp_servers/`): stateless adapters over external HTTP
  services. What the calendar adapter makes of an answer is in
  `McpIdempotency`; the lost update of `append_calendar_event_attendee` is
  between the calendar and itself.
- *Administration of MCP servers and policies*: single upserts by an
  administrator. `AskWorkflow` starts from any rows they can make.
- *Model providers*: their HTTP, the counting of tokens and of costs. They
  appear as a choice of outcomes.
- *Similarity search*: a choice of the database.
- *Evaluation* (`evaluation/`): offline, sequential scoring scripts that share
  no state with the service.
- *API shell, prompts, format conversion, frontend, migrations, deployment*: no
  state of their own. The frontend's requests, repeated and racing, are the
  inputs of the models; the schema is read for its constraints.
- `src/book/` and the documentation are not part of the program.

Assumed throughout: a transaction that raised or was lost wrote nothing. A
commit that succeeds while its acknowledgement is lost is not modelled
separately.
