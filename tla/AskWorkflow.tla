----------------------------- MODULE AskWorkflow -----------------------------
(***************************************************************************)
(* One question: api/ask.py, the graph of agent/workflow.py and the tool   *)
(* agent of mcp_client/tool_agent.py that runs inside it, with the steps   *)
(* of core/answer.py that decide what may be answered.                     *)
(*                                                                         *)
(* The models, the tool servers, the retrieval and the databases are       *)
(* outside: they answer, refuse or fail.  A failure is a "RuntimeError"    *)
(* where it comes from a model (LLMError and ModelConfigurationError are   *)
(* RuntimeErrors) and an "Exception" where it comes from a database.  The  *)
(* models call only tools they were offered.                               *)
(*                                                                         *)
(* An operator right before the definition it resembles, with a qualified  *)
(* name (AuditOnSuccess, ...), is a defect the properties must notice.     *)
(***************************************************************************)
EXTENDS Integers, Sequences, FiniteSets

CONSTANTS
    Tools,          \* the tools the servers list
    ReadOnlyTools,  \* READ_ONLY_TOOL_NAMES
    MaxCalls        \* bound: the tool calls a model chooses at once

ASSUME AskAssumption == MaxCalls \in Nat \ {0} /\ ReadOnlyTools \subseteq Tools

VARIABLES
    asked,      \* the question, as its request decides
    auto,       \* tools of configured servers whose policy lets the agent call them
    pc,         \* the next step of the question
    attempt,    \* the run of the tool agent
    todo,       \* tool calls chosen and not yet made
    effects,    \* tool calls that reached a server, with how often
    audit,      \* table mcp_tool_audit_logs
    shown,      \* tool calls in the trace of the result
    effective,  \* the sources to search: effective_source_filter
    chunks,     \* sources of the chunks retrieved
    evidence,   \* EvidenceDecision.status
    answer,     \* what kind of answer there is
    saved,      \* the turn is in the conversation memory
    told        \* what the client hears of a question that failed

vars == <<asked, auto, pc, attempt, todo, effects, audit, shown, effective, chunks, evidence,
          answer, saved, told>>

agent == <<attempt, todo, effects, audit, shown>>
rag == <<effective, chunks, evidence>>

-----------------------------------------------------------------------------
Sources == {"confluence", "jira"}
\* A question: with tool servers enabled, with images of its user, and with a
\* source of its own (AskRequest).
Question == [servers : BOOLEAN, images : BOOLEAN, filter : Sources \cup {"none"}]

Call == [attempt : 1..2, left : 1..MaxCalls, tool : Tools]
\* LLM_ERROR_STATUS: what map_provider_error can make of a provider's failure.
ModelStatus == {429, 502, 503, 504}
Ends == {"done", "failed"}
Steps == {"resolve", "memory", "list", "choose", "call", "audit", "final", "route",
          "retrieve", "evidence", "refuse", "generate", "save"} \cup Ends

FailWith(status) == pc' = "failed" /\ told' = status
Proceed(step) == pc' = step /\ UNCHANGED told

\* complete_chat: any failure of a provider becomes an LLMError, which the
\* exception handler answers with its status.
ModelFails == \E status \in ModelStatus : FailWith(status)

\* resolve_model may find no model (ModelConfigurationError);
\* load_memory_context never fails.
ChooseModel ==
    /\ pc = "resolve"
    /\ Proceed("memory") \/ FailWith(400)
    /\ UNCHANGED <<asked, auto, agent, rag, answer, saved>>

LoadMemory ==
    /\ pc = "memory"
    /\ Proceed("list")
    /\ UNCHANGED <<asked, auto, agent, rag, answer, saved>>

-----------------------------------------------------------------------------
(* run_dynamic_mcp_agent: its way out without a tool call leads to the     *)
(* retrieval, whether it failed or has an answer of its own.               *)

Offered == IF asked.servers THEN auto ELSE {}

\* The configured servers list their tools (a failure is an mcp_error), and the
\* schemas of those the policy allows are offered.  Reading the configuration and
\* the policies may fail the question.
ListTools ==
    /\ pc = "list"
    /\ shown' = {}
    /\ \/ Proceed("route")
       \/ Offered # {} /\ Proceed("choose")
       \/ asked.servers /\ FailWith(500)
    /\ UNCHANGED <<asked, auto, attempt, todo, effects, audit, rag, answer, saved>>

Again == Proceed("list") /\ attempt' = 2
GiveUp == ModelFails /\ UNCHANGED attempt

RerunForever == Again

\* run_dynamic_mcp_agent_sync runs the whole agent again on a RuntimeError, which
\* is what a failing model raises; the second one fails the question.
Rerun == IF attempt = 1 THEN Again ELSE GiveUp

Calls == UNION {[1..n -> Offered] : n \in 1..MaxCalls}

ChooseToolsUncaught ==
    /\ pc = "choose"
    /\ \/ Proceed("route") /\ UNCHANGED <<todo, attempt>>
       \/ Proceed("call") /\ todo' \in Calls /\ UNCHANGED attempt
       \/ Rerun /\ UNCHANGED todo
    /\ UNCHANGED <<asked, auto, effects, audit, shown, rag, answer, saved>>

\* The first model call: no tool, a failure (which is caught), or calls to make.
ChooseTools ==
    /\ pc = "choose"
    /\ \/ Proceed("route") /\ UNCHANGED todo
       \/ Proceed("call") /\ todo' \in Calls
    /\ UNCHANGED <<asked, auto, attempt, effects, audit, shown, rag, answer, saved>>

\* The call being made, and what follows it.
Made == [attempt |-> attempt, left |-> Len(todo), tool |-> Head(todo)]
AfterCall == IF Len(todo) = 1 THEN "final" ELSE "call"

\* inject_user_credentials and call_tool.  The credentials are read outside the
\* try: their failure fails the question.  A call that fails may have reached
\* its server.
CallTool ==
    /\ pc = "call"
    /\ \/ FailWith(500) /\ UNCHANGED effects
       \/ /\ Proceed("audit")
          /\ effects' \in {effects, effects \cup {Made}}
    /\ UNCHANGED <<asked, auto, attempt, todo, audit, shown, rag, answer, saved>>

AuditOnSuccess ==
    /\ pc = "audit"
    /\ \E status \in {"success", "error"} :
          /\ status = "success" => Made \in effects
          /\ audit' = IF status = "error" THEN audit
                      ELSE audit \cup {[call |-> Made, status |-> status]}
    /\ shown' = shown \cup {Made}
    /\ todo' = Tail(todo)
    /\ Proceed(AfterCall)
    /\ UNCHANGED <<asked, auto, attempt, effects, rag, answer, saved>>

\* add_audit_log: a success, or an error when the call or the log of its success
\* failed.  When that fails too the question fails.
Audit ==
    /\ pc = "audit"
    /\ \/ /\ \E status \in {"success", "error"} :
                /\ status = "success" => Made \in effects
                /\ audit' = audit \cup {[call |-> Made, status |-> status]}
          /\ shown' = shown \cup {Made}
          /\ todo' = Tail(todo)
          /\ Proceed(AfterCall)
       \/ FailWith(500) /\ UNCHANGED <<audit, shown, todo>>
    /\ UNCHANGED <<asked, auto, attempt, effects, rag, answer, saved>>

\* The second model call.  Only an answer with words ends the question here
\* (route_after_mcp); otherwise it goes on to the retrieval.
FinishTools ==
    /\ pc = "final"
    /\ \/ /\ Proceed("save") /\ answer' = "tools" /\ evidence' = "sufficient"
          /\ UNCHANGED attempt
       \/ Proceed("route") /\ UNCHANGED <<answer, evidence, attempt>>
       \/ Rerun /\ UNCHANGED <<answer, evidence>>
    /\ UNCHANGED <<asked, auto, todo, effects, audit, shown, effective, chunks, saved>>

-----------------------------------------------------------------------------
\* What route_question reads in the words of a question.
Topics == Sources \cup {"both"}
\* route_node: the request's own source filter goes before the router's.
EffectiveSources(topic) ==
    IF asked.filter \in Sources THEN {asked.filter}
    ELSE IF topic = "both" THEN Sources ELSE {topic}

\* route_node and rewrite_node, which only compute.
Route ==
    /\ pc = "route"
    /\ effective' \in {EffectiveSources(topic) : topic \in Topics}
    /\ Proceed("retrieve")
    /\ UNCHANGED <<asked, auto, agent, chunks, evidence, answer, saved>>

\* retrieve: the embedding or the search may fail.
Retrieve ==
    /\ pc = "retrieve"
    /\ \/ Proceed("evidence") /\ chunks' \in SUBSET effective
       \/ FailWith(500) /\ UNCHANGED chunks
    /\ UNCHANGED <<asked, auto, agent, effective, evidence, answer, saved>>

RefuseNever == "generate"

\* route_after_evidence
AfterEvidence == IF chunks = {} /\ ~asked.images THEN "refuse" ELSE "generate"

CheckEvidence ==
    /\ pc = "evidence"
    /\ evidence' = IF chunks = {} THEN "insufficient" ELSE "sufficient"
    /\ Proceed(AfterEvidence)
    /\ UNCHANGED <<asked, auto, agent, effective, chunks, answer, saved>>

RefuseAnswer ==
    /\ pc = "refuse"
    /\ answer' = "refusal" /\ Proceed("save")
    /\ UNCHANGED <<asked, auto, agent, rag, saved>>

\* generate_answer: with images and no chunks, or a question whose words are about
\* the images, the model sees only the images; otherwise the chunks are its sources.
Grounds(imageFocused) ==
    IF asked.images /\ (chunks = {} \/ imageFocused) THEN "images" ELSE "chunks"
Answers == {"refusal", "undefined"} \cup {Grounds(focused) : focused \in BOOLEAN}

GenerateUnchecked ==
    /\ pc = "generate"
    /\ answer' \in Answers /\ Proceed("save")
    /\ UNCHANGED <<asked, auto, agent, rag, saved>>

\* enforce_answer_contract replaces an answer with a marker by the fixed refusal,
\* or begins it with the fixed words for an undefined term: both are reported as
\* insufficient evidence (answer_reports_insufficient_evidence).
Generate ==
    /\ pc = "generate"
    /\ \/ /\ answer' \in Answers /\ Proceed("save")
          /\ evidence' = IF answer' \in {"refusal", "undefined"} THEN "insufficient"
                         ELSE evidence
       \/ ModelFails /\ UNCHANGED <<answer, evidence>>
    /\ UNCHANGED <<asked, auto, agent, effective, chunks, saved>>

\* save_memory_turn swallows its failure.
SaveTurn ==
    /\ pc = "save"
    /\ saved' \in BOOLEAN /\ Proceed("done")
    /\ UNCHANGED <<asked, auto, agent, rag, answer>>

-----------------------------------------------------------------------------
(* What the agent may call on its own: the row of the server, the row an    *)
(* administrator may have made for each tool, and the default without one. *)

Transports == {"stdio", "sse", "streamable_http"}
ServerRow == [enabled : BOOLEAN, transport : Transports \cup {"other"}]
Policy == [enabled : BOOLEAN, auto_allowed : BOOLEAN, requires_confirmation : BOOLEAN]

\* _config_from_row: the agent connects only to a server it has a configuration of.
ConfigFromRow(server) == server.enabled /\ server.transport \in Transports

\* get_tool_policy; no row is the empty set.
GetToolPolicy(rows, t) ==
    LET readOnly == t \in ReadOnlyTools IN
    IF rows # {} THEN CHOOSE row \in rows : TRUE
    ELSE [enabled |-> TRUE, auto_allowed |-> readOnly, requires_confirmation |-> ~readOnly]

ToolAutoAllowed(policy) ==
    policy.enabled /\ policy.auto_allowed /\ ~policy.requires_confirmation

Rows == {{}} \cup {{policy} : policy \in Policy}
LocalTools(server, rows) ==
    {t \in Tools : ConfigFromRow(server) /\ ToolAutoAllowed(GetToolPolicy(rows[t], t))}

-----------------------------------------------------------------------------
Init ==
    /\ asked \in Question
    /\ auto \in {LocalTools(server, rows) : server \in ServerRow, rows \in [Tools -> Rows]}
    /\ pc = "resolve" /\ attempt = 1 /\ todo = <<>>
    /\ effects = {} /\ audit = {} /\ shown = {}
    /\ effective = {} /\ chunks = {} /\ evidence = "none" /\ answer = "none" /\ saved = FALSE
    /\ told = 0

Next ==
    \/ ChooseModel \/ LoadMemory
    \/ ListTools \/ ChooseTools \/ CallTool \/ Audit \/ FinishTools
    \/ Route \/ Retrieve \/ CheckEvidence \/ RefuseAnswer \/ Generate \/ SaveTurn

Spec == Init /\ [][Next]_vars

\* The request's thread runs on; what it calls has a timeout.
FairSpec == Spec /\ WF_vars(Next)

-----------------------------------------------------------------------------
\* Type invariant: the question, the tool agent and the result.
TypeOK ==
    /\ asked \in Question
    /\ auto \subseteq Tools
    /\ pc \in Steps /\ attempt \in 1..2
    /\ todo \in Seq(Tools) /\ Len(todo) <= MaxCalls
    /\ effects \subseteq Call /\ shown \subseteq Call
    /\ audit \subseteq [call : Call, status : {"success", "error"}]
    /\ effective \subseteq Sources /\ chunks \subseteq effective
    /\ evidence \in {"none", "sufficient", "insufficient"}
    /\ answer \in {"none", "tools", "chunks", "images", "refusal", "undefined"}
    /\ saved \in BOOLEAN /\ told \in {0, 400, 500} \cup ModelStatus
    /\ pc # "failed" => (pc \in {"call", "audit"} <=> todo # <<>>)

\* An answer that claims something rests on tool calls the reader is shown, on
\* chunks from the sources asked for, or on the question's images, whatever
\* failed on the way; with none of them a question is refused; and the evidence
\* reported is that of the answer (generate_answer, enforce_answer_contract).
AnswersAreGrounded ==
    pc \in {"save", "done"} =>
        /\ answer = "tools" => shown # {}
        /\ answer = "chunks" => chunks # {}
        /\ answer = "images" => asked.images
        /\ answer \notin {"tools", "refusal"} => chunks # {} \/ asked.images
        /\ asked.filter \in Sources => chunks \subseteq {asked.filter}
        /\ evidence = "sufficient" => answer \in {"tools", "chunks", "images"}
        /\ answer \in {"tools", "chunks"} => evidence = "sufficient"

\* At most the call a question failed in misses in the audit log, and none of a
\* question that was answered; a success is never claimed of a call that did not
\* reach its server (mcp_client/tool_agent.py, add_audit_log).
CallsAreAudited ==
    LET logged == {a.call : a \in audit} IN
    /\ pc \notin {"audit", "failed"} => effects \subseteq logged
    /\ Cardinality(effects \ logged) <= 1
    /\ \A a \in audit : a.status = "success" => a.call \in effects

\* The tools are an extra: a server that cannot be reached or a model that cannot
\* choose leaves the question to the retrieval.  A failing model fails a question
\* only at its answer, or when it has failed twice with results of tools in hand.
ToolsDegradeToRetrieval ==
    told \in ModelStatus => evidence # "none" \/ (attempt = 2 /\ shown # {})

\* Every question ends, although the tool agent runs again when a model fails.
QuestionsEnd == <>(pc \in Ends)
=============================================================================
