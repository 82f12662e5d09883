-------------------------- MODULE AskWorkflowProofs --------------------------
(***************************************************************************)
(* Proofs, for any tools, any policies and any number of calls at once,    *)
(* that answers are grounded, that tool calls are audited, and that the    *)
(* tools degrade to the retrieval.  And of the images that questions are   *)
(* about, for any images, users and settings of servers: rows, previews    *)
(* and contexts of the uploads agree, and the models that are found for    *)
(* images and for chats are the right ones (Uploads, ModelRouting).        *)
(***************************************************************************)
EXTENDS AskWorkflow, Uploads, FiniteSetTheorems, SequenceTheorems, WellFoundedInduction, TLAPS

Logged == {a.call : a \in audit}
ToolSteps == {"resolve", "memory", "list", "choose", "call", "audit", "final"}

\* What a step may rely on: nothing was retrieved while the tools are tried, a
\* tool was shown before the final words, the evidence is of the chunks before
\* an answer, and the chunks are of the source asked for.
StageInv ==
    /\ pc \in ToolSteps \cup {"route"} => chunks = {} /\ evidence = "none"
    /\ pc = "retrieve" => chunks = {}
    /\ pc = "final" => shown # {}
    /\ pc \in {"refuse", "generate"} =>
          evidence = (IF chunks = {} THEN "insufficient" ELSE "sufficient")
    /\ pc = "refuse" => chunks = {}
    /\ pc = "generate" => chunks # {} \/ asked.images
    /\ asked.filter \in Sources => effective \subseteq {asked.filter}
    /\ pc # "failed" => told = 0

\* The call being made may miss in the log, no other.
AuditInv ==
    /\ pc # "failed" => effects \ Logged \subseteq (IF pc = "audit" THEN {Made} ELSE {})
    /\ \E c : effects \ Logged \subseteq {c}
    /\ \A a \in audit : a.status = "success" => a.call \in effects

\* The inductive invariant.
IndInv == TypeOK /\ StageInv /\ AuditInv /\ AnswersAreGrounded /\ ToolsDegradeToRetrieval

-----------------------------------------------------------------------------
\* What a model chooses is a list of calls, of tools it was offered.
LEMMA CallsTyped ==
    ASSUME TypeOK, NEW s \in Calls
    PROVE  s \in Seq(Tools) /\ Len(s) <= MaxCalls /\ s # <<>>
  <1>1. PICK n \in 1..MaxCalls : s \in [1..n -> Offered]
    BY DEF Calls
  <1>2. n \in Nat /\ n <= MaxCalls /\ n >= 1 /\ Offered \subseteq Tools
    BY AskAssumption DEF TypeOK, Offered
  <1>3. s \in [1..n -> Tools]
    BY <1>1, <1>2
  <1>4. s \in Seq(Tools)
    BY <1>2, <1>3, SeqDef
  <1>5. Len(s) = n
    BY <1>2, <1>3, <1>4, LenProperties
  <1> QED BY <1>2, <1>4, <1>5

\* The call being made is a call.
LEMMA MadeTyped ==
    ASSUME TypeOK, pc \in {"call", "audit"}
    PROVE  /\ Made \in Call
           /\ Tail(todo) \in Seq(Tools) /\ Len(Tail(todo)) <= MaxCalls
           /\ AfterCall = "final" <=> Tail(todo) = <<>>
           /\ AfterCall \in {"final", "call"}
  <1>1. todo \in Seq(Tools) /\ todo # <<>> /\ Len(todo) <= MaxCalls /\ attempt \in 1..2
    BY DEF TypeOK
  <1>2. Len(todo) \in 1..MaxCalls /\ Head(todo) \in Tools
    BY <1>1, AskAssumption
  <1>3. Tail(todo) \in Seq(Tools) /\ Len(Tail(todo)) = Len(todo) - 1
    BY <1>1
  <1>4. Tail(todo) = <<>> <=> Len(todo) = 1
    <2>1. Len(Tail(todo)) = 0 => Tail(todo) = <<>>
      BY <1>3, EmptySeq
    <2>2. Tail(todo) = <<>> => Len(Tail(todo)) = 0
      BY EmptySeq
    <2> QED BY <1>2, <1>3, <2>1, <2>2
  <1> QED BY <1>1, <1>2, <1>3, <1>4, AskAssumption DEF Made, Call, AfterCall

LEMMA LoggedTyped ==
    ASSUME TypeOK PROVE Logged \subseteq Call
  BY DEF TypeOK, Logged

-----------------------------------------------------------------------------
\* A question begins: only its policies decide anything.
LEMMA InitIndInv == Init => IndInv
  <1> SUFFICES ASSUME Init PROVE IndInv
    OBVIOUS
  <1>1. auto \subseteq Tools
    BY DEF Init, LocalTools
  <1>2. TypeOK
    <2>1. todo \in Seq(Tools) /\ Len(todo) <= MaxCalls /\ todo = <<>>
      BY AskAssumption DEF Init
    <2>2. effects \subseteq Call /\ shown \subseteq Call
          /\ audit \subseteq [call : Call, status : {"success", "error"}]
          /\ effective \subseteq Sources /\ chunks \subseteq effective
      BY DEF Init
    <2>3. pc \in Steps /\ pc \notin {"call", "audit"} /\ told = 0 /\ attempt \in 1..2
      BY DEF Init, Steps
    <2>4. asked \in Question
      BY DEF Init
    <2>5. evidence = "none" /\ answer = "none"
      BY DEF Init
    <2>6. saved \in BOOLEAN
      BY DEF Init
    <2> QED BY <1>1, <2>1, <2>2, <2>3, <2>4, <2>5, <2>6 DEF TypeOK
  <1>3. StageInv
    BY DEF Init, StageInv
  <1>4. AuditInv
    BY DEF Init, AuditInv
  <1>5. AnswersAreGrounded /\ ToolsDegradeToRetrieval
    BY DEF Init, AnswersAreGrounded, ToolsDegradeToRetrieval, ModelStatus
  <1> QED BY <1>2, <1>3, <1>4, <1>5 DEF IndInv

\* A step that calls no tool leaves the log as complete as it is.
LEMMA AuditKept ==
    ASSUME IndInv, UNCHANGED <<effects, audit>>, pc \notin {"audit", "failed"}, pc' # "audit"
    PROVE  AuditInv'
  BY DEF IndInv, AuditInv, Logged

\* The model is found, or the question is refused (resolve_model).
LEMMA ChooseModelStep ==
    ASSUME IndInv, ChooseModel
    PROVE  IndInv'
  <1>1. TypeOK'
    BY DEF IndInv, TypeOK, Steps, Ends, agent, rag, ChooseModel, Proceed, FailWith
  <1>2. StageInv'
    BY DEF IndInv, TypeOK, StageInv, ToolSteps, agent, rag, ChooseModel, Proceed, FailWith
  <1>3. AuditInv'
    BY AuditKept DEF agent, ChooseModel, Proceed, FailWith
  <1>4. AnswersAreGrounded' /\ ToolsDegradeToRetrieval'
    BY DEF IndInv, TypeOK, StageInv, ToolSteps, AnswersAreGrounded, ToolsDegradeToRetrieval,
           ModelStatus, agent, rag, ChooseModel, Proceed, FailWith
  <1> QED BY <1>1, <1>2, <1>3, <1>4 DEF IndInv

\* The memory never fails a question (load_memory_context).
LEMMA LoadMemoryStep ==
    ASSUME IndInv, LoadMemory
    PROVE  IndInv'
  <1>1. TypeOK'
    BY DEF IndInv, TypeOK, Steps, Ends, agent, rag, LoadMemory, Proceed
  <1>2. StageInv'
    BY DEF IndInv, TypeOK, StageInv, ToolSteps, agent, rag, LoadMemory, Proceed
  <1>3. AuditInv'
    BY AuditKept DEF agent, LoadMemory, Proceed
  <1>4. AnswersAreGrounded' /\ ToolsDegradeToRetrieval'
    BY DEF IndInv, TypeOK, StageInv, ToolSteps, AnswersAreGrounded, ToolsDegradeToRetrieval,
           ModelStatus, agent, rag, LoadMemory, Proceed
  <1> QED BY <1>1, <1>2, <1>3, <1>4 DEF IndInv

\* The tools are listed (run_dynamic_mcp_agent).
LEMMA ListToolsStep ==
    ASSUME IndInv, ListTools
    PROVE  IndInv'
  <1>1. TypeOK'
    BY DEF IndInv, TypeOK, Steps, Ends, agent, rag, ListTools, Proceed, FailWith
  <1>2. StageInv'
    BY DEF IndInv, TypeOK, StageInv, ToolSteps, agent, rag, ListTools, Proceed, FailWith
  <1>3. AuditInv'
    BY AuditKept DEF agent, ListTools, Proceed, FailWith
  <1>4. AnswersAreGrounded' /\ ToolsDegradeToRetrieval'
    BY DEF IndInv, TypeOK, StageInv, ToolSteps, AnswersAreGrounded, ToolsDegradeToRetrieval,
           ModelStatus, agent, rag, ListTools, Proceed, FailWith
  <1> QED BY <1>1, <1>2, <1>3, <1>4 DEF IndInv

\* The model chooses calls, or none (run_dynamic_mcp_agent).
LEMMA ChooseToolsStep ==
    ASSUME IndInv, ChooseTools
    PROVE  IndInv'
  <1>1. TypeOK'
    <2>1. \/ pc' = "route" /\ todo' = todo
          \/ pc' = "call" /\ todo' \in Calls
      BY DEF ChooseTools, Proceed
    <2>2. TypeOK /\ pc = "choose"
      BY DEF IndInv, ChooseTools
    <2>3. todo' \in Seq(Tools) /\ Len(todo') <= MaxCalls /\ (pc' = "call" <=> todo' # <<>>)
      BY <2>1, <2>2, CallsTyped DEF TypeOK
    <2>4. /\ UNCHANGED <<asked, auto, attempt, effects, audit, shown, rag, answer, saved, told>>
          /\ pc' \in {"route", "call"}
      BY DEF ChooseTools, Proceed
    <2> QED BY <2>2, <2>3, <2>4 DEF TypeOK, Steps, rag
  <1>2. StageInv'
    BY DEF IndInv, TypeOK, StageInv, ToolSteps, agent, rag, ChooseTools, Proceed
  <1>3. AuditInv'
    BY AuditKept DEF agent, ChooseTools, Proceed
  <1>4. AnswersAreGrounded' /\ ToolsDegradeToRetrieval'
    BY DEF IndInv, TypeOK, StageInv, ToolSteps, AnswersAreGrounded, ToolsDegradeToRetrieval,
           ModelStatus, agent, rag, ChooseTools, Proceed
  <1> QED BY <1>1, <1>2, <1>3, <1>4 DEF IndInv

\* The model words what the tools gave, or fails (route_after_mcp).
LEMMA FinishToolsStep ==
    ASSUME IndInv, FinishTools
    PROVE  IndInv'
  <1>1. TypeOK'
    BY DEF IndInv, TypeOK, Steps, Ends, agent, rag, FinishTools, Rerun, Again, GiveUp, ModelFails, Proceed, FailWith
  <1>2. StageInv'
    BY DEF IndInv, TypeOK, StageInv, ToolSteps, agent, rag, FinishTools, Rerun, Again, GiveUp, ModelFails, Proceed, FailWith
  <1>3. AuditInv'
    BY AuditKept DEF agent, FinishTools, Rerun, Again, GiveUp, ModelFails, Proceed, FailWith
  <1>4. AnswersAreGrounded' /\ ToolsDegradeToRetrieval'
    BY DEF IndInv, TypeOK, StageInv, ToolSteps, AnswersAreGrounded, ToolsDegradeToRetrieval,
           ModelStatus, agent, rag, FinishTools, Rerun, Again, GiveUp, ModelFails, Proceed, FailWith
  <1> QED BY <1>1, <1>2, <1>3, <1>4 DEF IndInv

\* The sources are those of the request or of the router (route_node).
LEMMA RouteStep ==
    ASSUME IndInv, Route
    PROVE  IndInv'
  <1>1. TypeOK'
    <2>1. effective' \subseteq Sources
      BY DEF Route, EffectiveSources, Topics, Sources
    <2>2. chunks' = {}
      BY DEF IndInv, StageInv, Route
    <2> QED BY <2>1, <2>2 DEF IndInv, TypeOK, Steps, agent, Route, Proceed
  <1>2. StageInv'
    BY DEF IndInv, TypeOK, StageInv, ToolSteps, agent, rag, Route, Proceed, EffectiveSources, Topics
  <1>3. AuditInv'
    BY AuditKept DEF agent, Route, Proceed, EffectiveSources, Topics
  <1>4. AnswersAreGrounded' /\ ToolsDegradeToRetrieval'
    BY DEF IndInv, TypeOK, StageInv, ToolSteps, AnswersAreGrounded, ToolsDegradeToRetrieval,
           ModelStatus, agent, rag, Route, Proceed, EffectiveSources, Topics
  <1> QED BY <1>1, <1>2, <1>3, <1>4 DEF IndInv

\* The chunks are of the sources asked for (retrieve).
LEMMA RetrieveStep ==
    ASSUME IndInv, Retrieve
    PROVE  IndInv'
  <1>1. TypeOK'
    BY DEF IndInv, TypeOK, Steps, Ends, agent, rag, Retrieve, Proceed, FailWith
  <1>2. StageInv'
    BY DEF IndInv, TypeOK, StageInv, ToolSteps, agent, rag, Retrieve, Proceed, FailWith
  <1>3. AuditInv'
    BY AuditKept DEF agent, Retrieve, Proceed, FailWith
  <1>4. AnswersAreGrounded' /\ ToolsDegradeToRetrieval'
    BY DEF IndInv, TypeOK, StageInv, ToolSteps, AnswersAreGrounded, ToolsDegradeToRetrieval,
           ModelStatus, agent, rag, Retrieve, Proceed, FailWith
  <1> QED BY <1>1, <1>2, <1>3, <1>4 DEF IndInv

\* The evidence is of the chunks (route_after_evidence).
LEMMA CheckEvidenceStep ==
    ASSUME IndInv, CheckEvidence
    PROVE  IndInv'
  <1>1. TypeOK'
    BY DEF IndInv, TypeOK, Steps, Ends, agent, rag, CheckEvidence, Proceed, AfterEvidence
  <1>2. StageInv'
    BY DEF IndInv, TypeOK, StageInv, ToolSteps, agent, rag, CheckEvidence, Proceed, AfterEvidence
  <1>3. AuditInv'
    BY AuditKept DEF agent, CheckEvidence, Proceed, AfterEvidence
  <1>4. AnswersAreGrounded' /\ ToolsDegradeToRetrieval'
    BY DEF IndInv, TypeOK, StageInv, ToolSteps, AnswersAreGrounded, ToolsDegradeToRetrieval,
           ModelStatus, agent, rag, CheckEvidence, Proceed, AfterEvidence
  <1> QED BY <1>1, <1>2, <1>3, <1>4 DEF IndInv

\* What has no evidence is refused (no_evidence_node).
LEMMA RefuseAnswerStep ==
    ASSUME IndInv, RefuseAnswer
    PROVE  IndInv'
  <1>1. TypeOK'
    BY DEF IndInv, TypeOK, Steps, Ends, agent, rag, RefuseAnswer, Proceed
  <1>2. StageInv'
    BY DEF IndInv, TypeOK, StageInv, ToolSteps, agent, rag, RefuseAnswer, Proceed
  <1>3. AuditInv'
    BY AuditKept DEF agent, RefuseAnswer, Proceed
  <1>4. AnswersAreGrounded' /\ ToolsDegradeToRetrieval'
    BY DEF IndInv, TypeOK, StageInv, ToolSteps, AnswersAreGrounded, ToolsDegradeToRetrieval,
           ModelStatus, agent, rag, RefuseAnswer, Proceed
  <1> QED BY <1>1, <1>2, <1>3, <1>4 DEF IndInv

\* The answer is of the chunks or of the images (generate_answer).
LEMMA GenerateStep ==
    ASSUME IndInv, Generate
    PROVE  IndInv'
  <1>1. TypeOK'
    BY DEF IndInv, TypeOK, Steps, Ends, agent, rag, Generate, Answers, Grounds, ModelFails, Proceed, FailWith
  <1>2. StageInv'
    BY DEF IndInv, TypeOK, StageInv, ToolSteps, agent, rag, Generate, Answers, Grounds, ModelFails, Proceed, FailWith
  <1>3. AuditInv'
    BY AuditKept DEF agent, Generate, Answers, Grounds, ModelFails, Proceed, FailWith
  <1>4. AnswersAreGrounded' /\ ToolsDegradeToRetrieval'
    BY DEF IndInv, TypeOK, StageInv, ToolSteps, AnswersAreGrounded, ToolsDegradeToRetrieval,
           ModelStatus, agent, rag, Generate, Answers, Grounds, ModelFails, Proceed, FailWith
  <1> QED BY <1>1, <1>2, <1>3, <1>4 DEF IndInv

\* The turn is saved, or not (save_memory_turn).
LEMMA SaveTurnStep ==
    ASSUME IndInv, SaveTurn
    PROVE  IndInv'
  <1>1. TypeOK'
    BY DEF IndInv, TypeOK, Steps, Ends, agent, rag, SaveTurn, Proceed
  <1>2. StageInv'
    BY DEF IndInv, TypeOK, StageInv, ToolSteps, agent, rag, SaveTurn, Proceed
  <1>3. AuditInv'
    BY AuditKept DEF agent, SaveTurn, Proceed
  <1>4. AnswersAreGrounded' /\ ToolsDegradeToRetrieval'
    BY DEF IndInv, TypeOK, StageInv, ToolSteps, AnswersAreGrounded, ToolsDegradeToRetrieval,
           ModelStatus, agent, rag, SaveTurn, Proceed
  <1> QED BY <1>1, <1>2, <1>3, <1>4 DEF IndInv

\* A call reaches its server or does not, before anything is logged (call_tool).
LEMMA CallToolStep ==
    ASSUME IndInv, CallTool
    PROVE  IndInv'
  <1>1. /\ pc = "call" /\ TypeOK /\ Made \in Call /\ Made' = Made
        /\ UNCHANGED <<asked, auto, attempt, todo, audit, shown, rag, answer, saved>>
    BY MadeTyped DEF CallTool, IndInv, Made
  <1>2. \/ effects' = effects /\ pc' = "failed" /\ told' = 500
        \/ effects' \subseteq effects \cup {Made} /\ effects \subseteq effects'
           /\ pc' = "audit" /\ told' = told
    BY DEF CallTool, FailWith, Proceed
  <1>3. TypeOK'
    BY <1>1, <1>2 DEF TypeOK, Steps, Ends, rag
  <1>4. StageInv'
    BY <1>1, <1>2 DEF IndInv, StageInv, ToolSteps, rag
  <1>5. AuditInv'
    <2>1. Logged' = Logged /\ effects \ Logged = {}
      BY <1>1 DEF Logged, IndInv, AuditInv
    <2>2. effects' \ Logged' \subseteq {Made'} /\ (pc' # "audit" => effects' \ Logged' = {})
      BY <1>1, <1>2, <2>1
    <2>3. \A a \in audit' : a.status = "success" => a.call \in effects'
      BY <1>1, <1>2 DEF IndInv, AuditInv
    <2> QED BY <1>2, <2>2, <2>3 DEF AuditInv
  <1>6. AnswersAreGrounded' /\ ToolsDegradeToRetrieval'
    BY <1>1, <1>2 DEF IndInv, StageInv, AnswersAreGrounded, ToolsDegradeToRetrieval, ModelStatus
  <1> QED BY <1>3, <1>4, <1>5, <1>6 DEF IndInv

\* The call is logged, or the question fails with it (add_audit_log).
LEMMA AuditStep ==
    ASSUME IndInv, Audit
    PROVE  IndInv'
  <1>1. /\ pc = "audit" /\ TypeOK /\ Made \in Call
        /\ UNCHANGED <<asked, auto, attempt, effects, rag, answer, saved>>
    BY MadeTyped DEF Audit, IndInv
  <1>2. CASE pc' = "failed" /\ told' = 500 /\ UNCHANGED <<audit, shown, todo>>
    <2>1. TypeOK' /\ StageInv'
      BY <1>1, <1>2 DEF IndInv, TypeOK, Steps, Ends, StageInv, ToolSteps, rag
    <2>2. AuditInv'
      BY <1>1, <1>2 DEF IndInv, AuditInv, Logged
    <2>3. AnswersAreGrounded' /\ ToolsDegradeToRetrieval'
      BY <1>1, <1>2 DEF IndInv, StageInv, AnswersAreGrounded, ToolsDegradeToRetrieval, ModelStatus
    <2> QED BY <2>1, <2>2, <2>3 DEF IndInv
  <1>3. ASSUME NEW status \in {"success", "error"},
               status = "success" => Made \in effects,
               audit' = audit \cup {[call |-> Made, status |-> status]},
               shown' = shown \cup {Made}, todo' = Tail(todo), pc' = AfterCall, told' = told
        PROVE  IndInv'
    <2>1. /\ todo' \in Seq(Tools) /\ Len(todo') <= MaxCalls /\ pc' \in {"final", "call"}
          /\ pc' = "final" <=> todo' = <<>>
      BY <1>1, <1>3, MadeTyped
    <2>2. audit' \subseteq [call : Call, status : {"success", "error"}] /\ shown' \subseteq Call
      BY <1>1, <1>3 DEF TypeOK
    <2>3. TypeOK'
      BY <1>1, <1>3, <2>1, <2>2 DEF TypeOK, Steps, rag
    <2>4. StageInv'
      BY <1>1, <1>3, <2>1 DEF IndInv, StageInv, ToolSteps, rag
    <2>5. AuditInv'
      <3>1. Logged' = Logged \cup {Made}
        <4> DEFINE entry == [call |-> Made, status |-> status]
        <4>1. entry.call = Made /\ audit' = audit \cup {entry}
          BY <1>3
        <4> HIDE DEF entry
        <4> QED BY <4>1 DEF Logged
      <3>2. effects \ Logged \subseteq {Made}
        BY <1>1 DEF IndInv, AuditInv
      <3>3. effects' \ Logged' = {}
        BY <1>1, <3>1, <3>2
      <3>4. \A a \in audit' : a.status = "success" => a.call \in effects'
        BY <1>1, <1>3 DEF IndInv, AuditInv
      <3> QED BY <3>3, <3>4 DEF AuditInv
    <2>6. AnswersAreGrounded' /\ ToolsDegradeToRetrieval'
      BY <1>1, <1>3, <2>1 DEF IndInv, StageInv, AnswersAreGrounded, ToolsDegradeToRetrieval,
                              ModelStatus
    <2> QED BY <2>3, <2>4, <2>5, <2>6 DEF IndInv
  <1> QED BY <1>2, <1>3 DEF Audit, FailWith, Proceed

-----------------------------------------------------------------------------
\* Nothing changes at all.
LEMMA StutterStep ==
    ASSUME IndInv, UNCHANGED vars
    PROVE  IndInv'
  <1>1. TypeOK' /\ StageInv'
    BY DEF vars, agent, rag, IndInv, TypeOK, StageInv
  <1>2. AuditInv'
    BY DEF vars, IndInv, AuditInv, Logged, Made
  <1>3. AnswersAreGrounded' /\ ToolsDegradeToRetrieval'
    BY DEF vars, IndInv, AnswersAreGrounded, ToolsDegradeToRetrieval
  <1> QED BY <1>1, <1>2, <1>3 DEF IndInv

\* Every step keeps the invariant.
LEMMA NextIndInv == IndInv /\ [Next]_vars => IndInv'
  BY StutterStep, ChooseModelStep, LoadMemoryStep, ListToolsStep, ChooseToolsStep, CallToolStep,
     AuditStep, FinishToolsStep, RouteStep, RetrieveStep, CheckEvidenceStep, RefuseAnswerStep,
     GenerateStep, SaveTurnStep DEF Next

\* The tool agent, the retrieval and the log stay consistent with each other.
THEOREM Inductive == Spec => []IndInv
  BY InitIndInv, NextIndInv, PTL DEF Spec

\* The question, the tool agent and the result stay well formed (agent/workflow.py).
THEOREM TypeCorrect == Spec => []TypeOK
  <1>1. IndInv => TypeOK
    BY DEF IndInv
  <1> QED BY <1>1, Inductive, PTL

\* An answer that claims something shows what it rests on (enforce_answer_contract,
\* route_after_evidence, route_after_mcp).
THEOREM AnswersStayGrounded == Spec => []AnswersAreGrounded
  <1>1. IndInv => AnswersAreGrounded
    BY DEF IndInv
  <1> QED BY <1>1, Inductive, PTL

\* At most one call misses in the log, of a question that failed in it
\* (add_audit_log).
THEOREM CallsStayAudited == Spec => []CallsAreAudited
  <1>1. IndInv => CallsAreAudited
    <2> SUFFICES ASSUME IndInv PROVE CallsAreAudited
      OBVIOUS
    <2>1. PICK c : effects \ Logged \subseteq {c}
      BY DEF IndInv, AuditInv
    <2>2. Cardinality({c}) = 1 /\ IsFiniteSet({c})
      BY FS_Singleton
    <2>3. Cardinality(effects \ Logged) <= 1
      BY <2>1, <2>2, FS_Subset
    <2> QED BY <2>3 DEF IndInv, AuditInv, Logged, CallsAreAudited
  <1> QED BY <1>1, Inductive, PTL

\* A failing model fails a question only where the retrieval cannot answer it any
\* more (run_dynamic_mcp_agent_sync).
THEOREM ToolsStayExtra == Spec => []ToolsDegradeToRetrieval
  <1>1. IndInv => ToolsDegradeToRetrieval
    BY DEF IndInv
  <1> QED BY <1>1, Inductive, PTL
-----------------------------------------------------------------------------
(***************************************************************************)
(* The images of questions: uploads, previews and the models that see.     *)
(***************************************************************************)
\* What an upload under way has: its user, the place of its object, and the
\* model that read it with the server it runs on.
UploadOK(i) ==
    LET u == uploads[i] IN
    /\ u.pc \in {"new", "ended"} => u = [NewUpload EXCEPT !.pc = u.pc]
    /\ u.pc \in {"checked", "stored", "analysed"} => u.user \in Users
    /\ u.pc \in {"stored", "analysed"} =>
           u.place \in DOMAIN objects /\ u.place.key = <<u.user, i>>
    /\ u.model # None =>
           /\ u.pc = "analysed" /\ u.model \in Models
           /\ "vision" \in ProfileOf(environment, u.model).capabilities

\* A key names the image it is of.
ObjectOK(place) ==
    /\ place \in Place
    /\ objects[place] \in Images
    /\ objects[place] = place.key[2]

\* An image has one row, made when its upload ended, and the row its object.
RowOK(r) ==
    /\ r.place \in DOMAIN objects
    /\ r.place.key = <<r.user_id, r.id>>
    /\ uploads[r.id].pc = "ended"

Owns(user, i) == \E r \in rows : r.id = i /\ r.user_id = user

UploadRecord == [pc : UploadSteps, user : Users \cup {None}, place : Place \cup {None},
                 model : Models \cup {None}]

\* The inductive invariant of the uploads.
UploadInv ==
    /\ environment \in Environments
    /\ uploads \in [Images -> UploadRecord]
    /\ rows \subseteq Row /\ previews \subseteq Preview
    /\ contexts \subseteq Users \X Images
    /\ \A i \in Images : UploadOK(i)
    /\ \A place \in DOMAIN objects : ObjectOK(place)
    /\ \A r \in rows : RowOK(r)
    /\ \A r, s \in rows : r.id = s.id => r = s
    /\ \A p \in previews : /\ Owns(p.user, p.image)
                           /\ p.content = IF p.reachable THEN p.image ELSE None
    /\ \A c \in contexts : Owns(c[1], c[2])

-----------------------------------------------------------------------------
(***************************************************************************)
(* Which model answers.                                                    *)
(***************************************************************************)

LessThan == {pair \in Nat \X Nat : pair[1] < pair[2]}

\* A set of positions has a first one.
LEMMA Least ==
    ASSUME NEW I \in SUBSET Nat, I # {}
    PROVE  \E k \in I : \A i \in I : k <= i
  <1>1. IsWellFoundedOn(LessThan, Nat)
    BY NatLessThanWellFounded DEF OpToRel, LessThan
  <1>2. PICK k \in I : \A i \in I : <<i, k>> \notin LessThan
    BY <1>1, WFMin
  <1>3. ASSUME NEW i \in I PROVE k <= i
    <2>1. i \in Nat /\ k \in Nat
      OBVIOUS
    <2>2. i < k => <<i, k>> \in LessThan
      BY <2>1 DEF LessThan
    <2> QED BY <1>2, <2>1, <2>2
  <1> QED BY <1>3

\* The loop of resolve_model ends at the first candidate in the set, if it has one.
LEMMA FirstOfIsFirst ==
    ASSUME NEW s, Len(s) \in Nat, NEW S, NEW k \in 1..Len(s), s[k] \in S
    PROVE  \E j \in 1..Len(s) : /\ FirstOf(s, S) = s[j] /\ s[j] \in S
                                /\ \A i \in 1..Len(s) : s[i] \in S => j <= i
  <1> DEFINE I == {i \in 1..Len(s) : s[i] \in S}
  <1>1. I \in SUBSET Nat /\ I # {}
    OBVIOUS
  <1>2. \E j \in I : \A i \in I : j <= i
    BY <1>1, Least
  <1> QED BY <1>2 DEF FirstOf, SelectInSeq, Min

\* _base_profiles lists eight models.
LEMMA EightModels ==
    /\ BuiltIn \in Seq(ToSet(BuiltIn))
    /\ Len(BuiltIn) = 8 /\ DOMAIN BuiltIn = 1..8
  <1>1. ASSUME NEW a, NEW b, NEW c, NEW d, NEW e, NEW f, NEW g, NEW h
        PROVE  LET s == <<a, b, c, d, e, f, g, h>> IN
               s \in Seq(ToSet(s)) /\ Len(s) = 8 /\ DOMAIN s = 1..8
    BY DEF ToSet
  <1> QED BY <1>1 DEF BuiltIn

LEMMA AppendedSet ==
    ASSUME NEW T, NEW s \in Seq(T), NEW x
    PROVE  ToSet(Append(s, x)) = ToSet(s) \cup {x}
  <1> DEFINE t == Append(s, x)
  <1>1. s \in Seq(T \cup {x}) /\ DOMAIN s = 1..Len(s) /\ Len(s) \in Nat
    OBVIOUS
  <1>2. /\ DOMAIN t = 1..Len(s) + 1
        /\ \A i \in 1..Len(s) : t[i] = s[i]
        /\ t[Len(s) + 1] = x
    BY <1>1, AppendProperties
  <1> HIDE DEF t
  <1> QED BY <1>1, <1>2 DEF ToSet

LEMMA BaseProfilesAre ==
    ASSUME NEW env
    PROVE  ToSet(BaseProfiles(env)) =
               ToSet(BuiltIn) \cup
                   (IF HasVisionProfile(env)
                    THEN {[id |-> env.pinned["vision"], provider |-> env.visionProvider,
                           capabilities |-> {"text", "vision"}]}
                    ELSE {})
  BY EightModels, AppendedSet DEF BaseProfiles

\* Every one of them can write.
LEMMA BuiltInAreTextual ==
    ASSUME NEW i \in 1..8
    PROVE  "text" \in BuiltIn[i].capabilities
  <1>1. \A id, provider :
            /\ "text" \in Profile(id, provider, Text).capabilities
            /\ "text" \in Profile(id, provider, Text \cup {"vision"}).capabilities
    BY DEF Profile, Text
  <1>2. i = 1 \/ i = 2 \/ i = 3 \/ i = 4 \/ i = 5 \/ i = 6 \/ i = 7 \/ i = 8
    OBVIOUS
  <1> QED BY <1>1, <1>2 DEF BuiltIn

\* The profiles are those and the one of VISION_MODEL, which can write as well.
LEMMA KnownProfiles ==
    ASSUME NEW env, NEW id \in Ids(BaseProfiles(env))
    PROVE  /\ id \in Ids(BuiltIn) \cup {env.pinned["vision"]}
           /\ "text" \in ProfileOf(env, id).capabilities
  <1> DEFINE P == ToSet(BaseProfiles(env))
             p == [id |-> env.pinned["vision"], provider |-> env.visionProvider,
                   capabilities |-> {"text", "vision"}]
  <1>1. \A q \in ToSet(BuiltIn) : "text" \in q.capabilities
    BY EightModels, BuiltInAreTextual DEF ToSet
  <1>2. P \subseteq ToSet(BuiltIn) \cup {p}
    BY BaseProfilesAre
  <1>3. p.id = env.pinned["vision"] /\ "text" \in p.capabilities
    OBVIOUS
  <1> HIDE DEF p
  <1>4. \E q \in P : q.id = id
    BY DEF Ids
  <1>5. ProfileOf(env, id) \in P /\ ProfileOf(env, id).id = id
    BY <1>4 DEF ProfileOf
  <1> QED BY <1>1, <1>2, <1>3, <1>5 DEF Ids

\* What is listed is a list of names.
LEMMA ListedNames ==
    ASSUME NEW env, env.chatModels \in Seq(STRING)
    PROVE  \E T : Listed(env) \in Seq(T)
  <1>1. CASE env.chatModels = <<>>
    <2> DEFINE ids == [i \in 1..8 |-> BuiltIn[i].id]
               T == {ids[i] : i \in 1..8}
    <2>1. ids \in Seq(T)
      OBVIOUS
    <2> QED BY <1>1, <2>1, EightModels DEF Listed
  <1> QED BY <1>1 DEF Listed

\* resolve_model looks at the user's choice first, in a chat.
LEMMA ChoiceIsFirst ==
    ASSUME NEW env, env.chatModels \in Seq(STRING), NEW requested, NEW task
    PROVE  LET candidates == Candidates(env, requested, task) IN
           /\ Len(candidates) \in Nat \ {0}
           /\ DOMAIN candidates = 1..Len(candidates)
           /\ candidates[1] = IF task = "chat" THEN requested ELSE None
  <1> SUFFICES ASSUME NEW a, NEW b, NEW c, NEW R, NEW rest \in Seq(R)
               PROVE  /\ Len(<<a, b, c>> \o rest) \in Nat \ {0}
                      /\ DOMAIN (<<a, b, c>> \o rest) = 1..Len(<<a, b, c>> \o rest)
                      /\ (<<a, b, c>> \o rest)[1] = a
    BY ListedNames DEF Candidates
  <1> DEFINE T == R \cup {a, b, c}
  <1>1. <<a, b, c>> \in Seq(T) /\ rest \in Seq(T) /\ Len(<<a, b, c>>) = 3
    OBVIOUS
  <1> HIDE DEF T
  <1>2. (<<a, b, c>> \o rest) \in Seq(T) /\ Len(<<a, b, c>> \o rest) = 3 + Len(rest)
        /\ (<<a, b, c>> \o rest)[1] = a
    BY <1>1, ConcatProperties
  <1> QED BY <1>1, <1>2, LenProperties

\* What resolve_model returns is a model that can do the task and can be called.
LEMMA ResolvedFits ==
    ASSUME NEW env, env.chatModels \in Seq(STRING), NEW requested, NEW task,
           ResolveModel(env, requested, task) # None
    PROVE  Fits(env, task, ResolveModel(env, requested, task))
  <1> DEFINE s == Candidates(env, requested, task)
             S == {id \in ToSet(s) : Fits(env, task, id)}
  <1>1. ResolveModel(env, requested, task) = FirstOf(s, S) /\ S # {}
    BY DEF ResolveModel
  <1>2. Len(s) \in Nat /\ DOMAIN s = 1..Len(s)
    BY ChoiceIsFirst
  <1>3. \E k \in 1..Len(s) : s[k] \in S
    BY <1>1, <1>2 DEF ToSet
  <1> HIDE DEF S, s
  <1>4. FirstOf(s, S) \in S
    BY <1>2, <1>3, FirstOfIsFirst
  <1> QED BY <1>1, <1>4 DEF S

\* A model that get_model_options offers is the one resolve_model returns.
LEMMA OptionsResolve ==
    ASSUME NEW env, env.chatModels \in Seq(STRING),
           NEW id \in Options(env)
    PROVE  ResolveModel(env, id, "chat") = id
  <1> DEFINE s == Candidates(env, id, "chat")
             S == {m \in ToSet(s) : Fits(env, "chat", m)}
  <1>1. /\ ~IsMisconfigured(env) /\ id \in ConfiguredProfileIds(env)
        /\ id \in ToSet(Listed(env))
        /\ ProviderIsConfigured(env, ProfileOf(env, id).provider)
    BY DEF Options, ConfiguredProfileIds
  <1>2. id \in Ids(BaseProfiles(env))
    <2>1. CASE env.chatModels # <<>>
      BY <1>1, <2>1 DEF IsMisconfigured, Listed
    <2>2. CASE env.chatModels = <<>>
      <3>1. id \in Ids(BuiltIn)
        BY <1>1, <2>2 DEF Listed, ToSet, Ids
      <3>2. ToSet(BuiltIn) \subseteq ToSet(BaseProfiles(env))
        BY BaseProfilesAre
      <3> QED BY <3>1, <3>2 DEF Ids
    <2> QED BY <2>1, <2>2
  <1>3. Fits(env, "chat", id)
    BY <1>1, <1>2, KnownProfiles DEF Fits, TaskCapability
  <1>4. Len(s) \in Nat /\ DOMAIN s = 1..Len(s) /\ 1 \in 1..Len(s) /\ s[1] = id
    BY ChoiceIsFirst
  <1>5. id \in S
    BY <1>3, <1>4 DEF ToSet
  <1>6. ResolveModel(env, id, "chat") = FirstOf(s, S)
    BY <1>1, <1>5 DEF ResolveModel
  <1> HIDE DEF s, S
  <1>7. PICK j \in 1..Len(s) : /\ FirstOf(s, S) = s[j]
                               /\ \A i \in 1..Len(s) : s[i] \in S => j <= i
    BY <1>4, <1>5, FirstOfIsFirst
  <1>8. j = 1
    BY <1>4, <1>5, <1>7
  <1> QED BY <1>4, <1>6, <1>7, <1>8

-----------------------------------------------------------------------------
\* A step of one upload, which may store its object.
LEMMA UploadAdvances ==
    ASSUME UploadInv, NEW i \in Images, NEW t \in UploadRecord, uploads[i].pc # "ended",
           Advance(i, t), UploadOK(i)',
           DOMAIN objects \subseteq DOMAIN objects',
           \A place \in DOMAIN objects' : ObjectOK(place)',
           UNCHANGED <<environment, rows, previews, contexts>>
    PROVE  UploadInv'
  <1>1. /\ uploads' \in [Images -> UploadRecord] /\ uploads'[i] = t
        /\ \A j \in Images : j # i => uploads'[j] = uploads[j]
    BY DEF UploadInv, Advance
  <1>2. ASSUME NEW j \in Images, j # i PROVE UploadOK(j)'
    BY <1>1, <1>2 DEF UploadInv, UploadOK
  <1>3. ASSUME NEW r \in rows PROVE RowOK(r)'
    <2>1. RowOK(r) /\ r.id \in Images
      BY DEF UploadInv, Row
    <2> QED BY <1>1, <2>1 DEF RowOK
  <1> QED BY <1>1, <1>2, <1>3 DEF UploadInv, Owns, UploadRecord

\* An upload that ends keeps nothing.
LEMMA Ended ==
    ASSUME NEW step \in {"new", "ended"}
    PROVE  LET t == [NewUpload EXCEPT !.pc = step] IN
           t \in UploadRecord /\ t.pc = step /\ t.model = None
  BY DEF NewUpload, UploadRecord, UploadSteps

LEMMA UploadEnds ==
    ASSUME UploadInv, NEW i \in Images, End(i), uploads[i].pc # "ended",
           UNCHANGED <<environment, objects, rows, previews, contexts>>
    PROVE  UploadInv'
  <1> DEFINE t == [NewUpload EXCEPT !.pc = "ended"]
  <1>1. t \in UploadRecord /\ t.pc = "ended" /\ t.model = None
    BY Ended
  <1>2. Advance(i, t)
    BY DEF End, Advance
  <1>3. uploads'[i] = t
    BY <1>2 DEF UploadInv, Advance
  <1>4. UploadOK(i)'
    BY <1>1, <1>3 DEF UploadOK, NewUpload
  <1>5. \A place \in DOMAIN objects' : ObjectOK(place)'
    BY DEF UploadInv, ObjectOK
  <1> HIDE DEF t
  <1> QED BY <1>1, <1>2, <1>4, <1>5, UploadAdvances

\* save_uploaded_image accepts the image or refuses it.
LEMMA UploadChecked ==
    ASSUME UploadInv, NEW i \in Images, NEW user \in Users, CheckImage(i, user)
    PROVE  UploadInv'
  <1> DEFINE t == [uploads[i] EXCEPT !.pc = "checked", !.user = user]
  <1>1. /\ uploads[i] \in UploadRecord /\ UploadOK(i) /\ uploads[i].pc = "new"
        /\ UNCHANGED <<environment, objects, rows, previews, contexts>>
        /\ Advance(i, t) \/ End(i)
    BY DEF UploadInv, CheckImage
  <1>2. CASE Advance(i, t)
    <2>1. t \in UploadRecord /\ t.pc = "checked" /\ t.user = user /\ t.model = uploads[i].model
      BY <1>1 DEF UploadRecord, UploadSteps
    <2> HIDE DEF t
    <2>2. uploads'[i] = t
      BY <1>2 DEF UploadInv, Advance
    <2>3. UploadOK(i)'
      BY <1>1, <2>1, <2>2 DEF UploadOK
    <2>4. \A place \in DOMAIN objects' : ObjectOK(place)'
      BY <1>1 DEF UploadInv, ObjectOK
    <2> QED BY <1>1, <1>2, <2>1, <2>3, <2>4, UploadAdvances
  <1> QED BY <1>1, <1>2, UploadEnds

\* put_object stores the image under a key of its own.
LEMMA UploadStored ==
    ASSUME UploadInv, NEW i \in Images, PutObject(i)
    PROVE  UploadInv'
  <1> DEFINE place == [provider |-> StorageOf(environment.storage),
                       key |-> <<uploads[i].user, i>>]
             t == [uploads[i] EXCEPT !.pc = "stored", !.place = place]
  <1>1. /\ uploads[i] \in UploadRecord /\ UploadOK(i) /\ uploads[i].pc = "checked"
        /\ environment \in Environments /\ IsReachable(environment.storage)
        /\ objects' = [p \in DOMAIN objects \cup {place} |-> IF p = place THEN i ELSE objects[p]]
        /\ Advance(i, t)
        /\ UNCHANGED <<environment, rows, previews, contexts>>
    BY DEF UploadInv, PutObject, StorageKey
  <1>2. uploads[i].user \in Users /\ uploads[i].model = None
    BY <1>1 DEF UploadOK
  <1>3. place \in Place /\ place.key = <<uploads[i].user, i>>
    BY <1>1, <1>2, UploadAssumption DEF Place, IsReachable
  <1> HIDE DEF place
  <1>4. /\ t \in UploadRecord /\ t.pc = "stored" /\ t.place = place
        /\ t.user = uploads[i].user /\ t.model = uploads[i].model
    BY <1>1, <1>3 DEF UploadRecord, UploadSteps
  <1> HIDE DEF t
  <1>5. /\ DOMAIN objects' = DOMAIN objects \cup {place} /\ objects'[place] = i
        /\ \A p \in DOMAIN objects : p # place => objects'[p] = objects[p]
    BY <1>1
  <1>6. ASSUME NEW p \in DOMAIN objects' PROVE ObjectOK(p)'
    <2>1. CASE p = place
      BY <1>3, <1>5, <2>1 DEF ObjectOK
    <2>2. CASE p # place
      <3>1. ObjectOK(p)
        BY <1>5, <2>2 DEF UploadInv
      <3> QED BY <1>5, <2>2, <3>1 DEF ObjectOK
    <2> QED BY <2>1, <2>2
  <1>7. uploads'[i] = t
    BY <1>1 DEF UploadInv, Advance
  <1>8. UploadOK(i)'
    BY <1>1, <1>2, <1>3, <1>4, <1>5, <1>7 DEF UploadOK
  <1> QED BY <1>1, <1>4, <1>5, <1>6, <1>8, UploadAdvances

\* A model that sees read the image, or none did.
LEMMA UploadRead ==
    ASSUME UploadInv, NEW i \in Images, NEW t \in UploadRecord, Advance(i, t),
           uploads[i].pc = "stored", t.pc = "analysed",
           t.user = uploads[i].user, t.place = uploads[i].place,
           t.model # None =>
               /\ t.model \in Models
               /\ "vision" \in ProfileOf(environment, t.model).capabilities,
           UNCHANGED <<environment, objects, rows, previews, contexts>>
    PROVE  UploadInv'
  <1>1. UploadOK(i) /\ uploads'[i] = t
    BY DEF UploadInv, Advance
  <1>2. UploadOK(i)'
    BY <1>1 DEF UploadOK
  <1>3. \A place \in DOMAIN objects' : ObjectOK(place)'
    BY DEF UploadInv, ObjectOK
  <1> QED BY <1>2, <1>3, UploadAdvances

\* analyze_image
LEMMA UploadAnalysed ==
    ASSUME UploadInv, NEW i \in Images, AnalyzeImage(i)
    PROVE  UploadInv'
  <1> DEFINE m == ResolveModel(environment, environment.pinned["vision"], "vision")
  <1>1. /\ uploads[i] \in UploadRecord /\ UploadOK(i) /\ uploads[i].pc = "stored"
        /\ environment \in Environments
        /\ UNCHANGED <<environment, objects, rows, previews, contexts>>
        /\ IF environment.pinned["vision"] = None
           THEN Advance(i, [uploads[i] EXCEPT !.pc = "analysed"])
           ELSE m # None /\ Advance(i, [uploads[i] EXCEPT !.pc = "analysed", !.model = m])
    BY DEF UploadInv, AnalyzeImage
  <1>2. m # None => Fits(environment, "vision", m)
    BY <1>1, ResolvedFits, UploadAssumption
  <1> HIDE DEF m
  <1>3. CASE environment.pinned["vision"] = None
    <2> DEFINE t == [uploads[i] EXCEPT !.pc = "analysed"]
    <2>1. Advance(i, t)
      BY <1>1, <1>3
    <2>2. /\ t \in UploadRecord /\ t.pc = "analysed" /\ t.model = None
          /\ t.user = uploads[i].user /\ t.place = uploads[i].place
      BY <1>1 DEF UploadRecord, UploadOK, UploadSteps
    <2> HIDE DEF t
    <2> QED BY <1>1, <2>1, <2>2, UploadRead
  <1>4. CASE environment.pinned["vision"] # None
    <2> DEFINE t == [uploads[i] EXCEPT !.pc = "analysed", !.model = m]
    <2>1. Advance(i, t)
      BY <1>1, <1>4
    <2>2. "vision" \in ProfileOf(environment, m).capabilities
      BY <1>1, <1>2, <1>4 DEF Fits, TaskCapability
    <2>3. m \in Models
      BY <1>1, <1>2, <1>4, KnownProfiles DEF Fits, Models
    <2>4. /\ t \in UploadRecord /\ t.pc = "analysed" /\ t.model = m
          /\ t.user = uploads[i].user /\ t.place = uploads[i].place
      BY <1>1, <2>3 DEF UploadRecord, UploadSteps
    <2> HIDE DEF t
    <2> QED BY <1>1, <2>1, <2>2, <2>3, <2>4, UploadRead
  <1> QED BY <1>3, <1>4

\* create_uploaded_file: the row of an image whose object is stored.
LEMMA UploadRecorded ==
    ASSUME UploadInv, NEW i \in Images, CreateUploadedFile(i)
    PROVE  UploadInv'
  <1> SUFFICES ASSUME NEW row, row = [id |-> i, user_id |-> uploads[i].user,
                                      place |-> uploads[i].place, model |-> uploads[i].model]
               PROVE  UploadInv'
    OBVIOUS
  <1> DEFINE t == [NewUpload EXCEPT !.pc = "ended"]
  <1>1. /\ uploads[i] \in UploadRecord /\ UploadOK(i) /\ uploads[i].pc = "analysed"
        /\ rows' = rows \cup {row} /\ uploads' = [uploads EXCEPT ![i] = t]
        /\ UNCHANGED <<environment, objects, previews, contexts>>
    BY DEF UploadInv, CreateUploadedFile, End
  <1>2. t \in UploadRecord /\ t.pc = "ended" /\ t.model = None
    BY Ended
  <1>3. /\ uploads' \in [Images -> UploadRecord] /\ uploads'[i] = t
        /\ \A j \in Images : j # i => uploads'[j] = uploads[j]
    BY <1>1, <1>2 DEF UploadInv
  <1>4. UploadOK(i)'
    BY <1>2, <1>3 DEF UploadOK, NewUpload
  <1> HIDE DEF t
  <1>5. ASSUME NEW j \in Images, j # i PROVE UploadOK(j)'
    BY <1>1, <1>3, <1>5 DEF UploadInv, UploadOK
  <1>6. /\ row.id = i /\ row.user_id = uploads[i].user /\ row.place = uploads[i].place
        /\ row \in Row /\ row.place \in DOMAIN objects
        /\ row.place.key = <<row.user_id, row.id>>
    <2>1. /\ uploads[i].user \in Users /\ uploads[i].place \in DOMAIN objects
          /\ uploads[i].place.key = <<uploads[i].user, i>>
      BY <1>1 DEF UploadOK
    <2>2. uploads[i].place \in Place /\ uploads[i].model \in Models \cup {None}
      BY <1>1, <2>1 DEF UploadInv, ObjectOK, UploadRecord
    <2> QED BY <2>1, <2>2 DEF Row
  <1>7. ASSUME NEW r \in rows PROVE RowOK(r)' /\ r.id # i
    <2>1. RowOK(r) /\ r.id \in Images
      BY DEF UploadInv, Row
    <2> QED BY <1>1, <1>3, <2>1 DEF RowOK
  <1>8. RowOK(row)'
    BY <1>1, <1>2, <1>3, <1>6 DEF RowOK
  <1>9. \A place \in DOMAIN objects' : ObjectOK(place)'
    BY <1>1 DEF UploadInv, ObjectOK
  <1>10. \A user, image : Owns(user, image) => Owns(user, image)'
    BY <1>1 DEF Owns
  <1>11. \A r, s \in rows' : r.id = s.id => r = s
    BY <1>1, <1>6, <1>7 DEF UploadInv
  <1>12. \A r \in rows' : RowOK(r)'
    BY <1>1, <1>7, <1>8
  <1> QED BY <1>1, <1>3, <1>4, <1>5, <1>6, <1>9, <1>10, <1>11, <1>12 DEF UploadInv, UploadRecord

\* A deployment ends the uploads under way and keeps the rest.
LEMMA UploadsLost ==
    ASSUME UploadInv, NEW e \in Environments, Restart(e)
    PROVE  UploadInv'
  <1> DEFINE t == [NewUpload EXCEPT !.pc = "ended"]
  <1>1. /\ environment' = e /\ UNCHANGED <<objects, rows, previews, contexts>>
        /\ uploads' = [i \in Images |-> IF uploads[i].pc \in {"new", "ended"} THEN uploads[i]
                                         ELSE t]
    BY DEF Restart
  <1>2. t \in UploadRecord /\ t.pc = "ended" /\ t.model = None
    BY Ended
  <1>3. t = [NewUpload EXCEPT !.pc = t.pc]
    BY DEF NewUpload
  <1> HIDE DEF t
  <1>4. ASSUME NEW i \in Images PROVE uploads'[i] \in UploadRecord /\ UploadOK(i)'
    <2>1. CASE uploads[i].pc \in {"new", "ended"}
      <3>1. UploadOK(i) /\ uploads[i] \in UploadRecord /\ uploads'[i] = uploads[i]
        BY <1>1, <2>1 DEF UploadInv
      <3>2. uploads[i].model = None
        BY <2>1, <3>1 DEF UploadOK
      <3> QED BY <1>1, <2>1, <3>1, <3>2 DEF UploadOK
    <2>2. CASE uploads[i].pc \notin {"new", "ended"}
      <3>1. uploads'[i] = t
        BY <1>1, <2>2
      <3> QED BY <1>2, <1>3, <3>1 DEF UploadOK
    <2> QED BY <2>1, <2>2
  <1>5. uploads' \in [Images -> UploadRecord]
    BY <1>1, <1>4
  <1>6. ASSUME NEW r \in rows PROVE RowOK(r)'
    <2>1. RowOK(r) /\ r.id \in Images
      BY DEF UploadInv, Row
    <2> QED BY <1>1, <2>1 DEF RowOK
  <1>7. \A place \in DOMAIN objects' : ObjectOK(place)'
    BY <1>1 DEF UploadInv, ObjectOK
  <1> QED BY <1>1, <1>4, <1>5, <1>6, <1>7 DEF UploadInv, Owns, UploadRecord

\* preview_image and get_image_contexts show a user his own rows only.
LEMMA UploadShown ==
    ASSUME UploadInv, NEW user \in Users,
           \/ \E i \in Images : PreviewImage(user, i)
           \/ \E images \in SUBSET Images : GetImageContexts(user, images)
    PROVE  UploadInv'
  <1>1. ASSUME NEW i \in Images, PreviewImage(user, i) PROVE UploadInv'
    <2>1. PICK r \in FetchUploadedFile(user, i) :
              LET place == [r.place EXCEPT !.provider = StorageOfTheRow(r)]
                  found == IsReachable(place.provider) /\ place \in DOMAIN objects IN
              previews' = previews \cup
                 {[user |-> user, image |-> i, reachable |-> IsReachable(r.place.provider),
                   content |-> IF found THEN objects[place] ELSE None]}
      BY <1>1 DEF PreviewImage
    <2>2. /\ r \in rows /\ r.id = i /\ r.user_id = user /\ r.place \in DOMAIN objects
          /\ r.place \in Place /\ objects[r.place] = i
      <3>1. r \in rows /\ r.id = i /\ r.user_id = user
        BY DEF FetchUploadedFile
      <3>2. RowOK(r) /\ r.place \in Place /\ r.user_id \in Users
        BY <3>1 DEF UploadInv, Row
      <3> QED BY <3>1, <3>2 DEF UploadInv, RowOK, ObjectOK
    <2>3. [r.place EXCEPT !.provider = StorageOfTheRow(r)] = r.place
      BY <2>2 DEF StorageOfTheRow, StorageOf, Place, StorageProviders
    <2> DEFINE reachable == IsReachable(r.place.provider)
               preview == [user |-> user, image |-> i, reachable |-> reachable,
                         content |-> IF reachable THEN i ELSE None]
    <2>4. previews' = previews \cup {preview}
      BY <2>1, <2>2, <2>3
    <2>5. reachable \in BOOLEAN
      BY DEF IsReachable
    <2> HIDE DEF reachable
    <2>6. /\ preview \in Preview /\ preview.user = user /\ preview.image = i
          /\ preview.content = IF preview.reachable THEN preview.image ELSE None
      BY <2>5 DEF Preview
    <2> HIDE DEF preview
    <2>7. UNCHANGED <<environment, uploads, objects, rows, contexts>>
      BY <1>1 DEF PreviewImage
    <2>8. \A p \in previews' : /\ Owns(p.user, p.image)'
                               /\ p.content = IF p.reachable THEN p.image ELSE None
      BY <2>2, <2>4, <2>6, <2>7 DEF UploadInv, Owns
    <2>9. previews' \subseteq Preview
      BY <2>4, <2>6 DEF UploadInv
    <2> QED BY <2>7, <2>8, <2>9 DEF UploadInv, UploadOK, ObjectOK, RowOK, Owns, UploadRecord
  <1>2. ASSUME NEW images \in SUBSET Images, GetImageContexts(user, images) PROVE UploadInv'
    <2>1. /\ UNCHANGED <<environment, uploads, objects, rows, previews>>
          /\ contexts' = contexts \cup
                {<<user, i>> : i \in {j \in images : FetchUploadedFile(user, j) # {}}}
      BY <1>2 DEF GetImageContexts
    <2>2. \A i : FetchUploadedFile(user, i) # {} => Owns(user, i)
      BY DEF FetchUploadedFile, Owns
    <2>3. contexts' \subseteq Users \X Images /\ \A c \in contexts' : Owns(c[1], c[2])
      BY <2>1, <2>2 DEF UploadInv
    <2>4. \A c \in contexts' : Owns(c[1], c[2])'
      BY <2>1, <2>3 DEF Owns
    <2> QED BY <2>1, <2>3, <2>4 DEF UploadInv, UploadOK, ObjectOK, RowOK, Owns, UploadRecord
  <1> QED BY <1>1, <1>2

-----------------------------------------------------------------------------
LEMMA UploadInitInv == UploadsInit => UploadInv
  <1> SUFFICES ASSUME UploadsInit PROVE UploadInv
    OBVIOUS
  <1> DEFINE t == [NewUpload EXCEPT !.pc = "new"]
  <1>1. t = NewUpload
    BY DEF NewUpload
  <1>2. t \in UploadRecord /\ t.pc = "new" /\ t.model = None
    BY Ended
  <1>3. \A i \in Images : uploads[i] = t
    BY <1>1 DEF UploadsInit
  <1>4. \A i \in Images : UploadOK(i)
    BY <1>2, <1>3 DEF UploadOK
  <1> HIDE DEF t
  <1>5. uploads \in [Images -> UploadRecord]
    BY <1>2, <1>3 DEF UploadsInit
  <1>6. DOMAIN objects = {}
    BY DEF UploadsInit
  <1> QED BY <1>4, <1>5, <1>6 DEF UploadsInit, UploadInv

\* Every upload, preview, question and deployment keeps the invariant.
LEMMA UploadNext ==
    ASSUME UploadInv, [UploadsNext]_uploadsVars
    PROVE  UploadInv'
  <1>1. CASE UNCHANGED uploadsVars
    BY <1>1 DEF uploadsVars, UploadInv, UploadOK, ObjectOK, RowOK, Owns, UploadRecord
  <1> QED BY <1>1, UploadChecked, UploadStored, UploadAnalysed, UploadRecorded, UploadEnds,
             UploadsLost, UploadShown DEF UploadsNext, Fail

\* The inductive invariant of the uploads holds with any images, users and
\* settings of servers.
THEOREM UploadsInductive == UploadsSpec => []UploadInv
  <1>1. UploadInv /\ [UploadsNext]_uploadsVars => UploadInv'
    BY UploadNext
  <1> QED BY <1>1, UploadInitInv, PTL DEF UploadsSpec

\* The rows of uploaded_files, the objects in the storages and what uploads
\* under way keep stay well-formed.
THEOREM UploadsTyped == UploadsSpec => []UploadsTypeOK
  <1>1. UploadInv => UploadsTypeOK
    <2> SUFFICES ASSUME UploadInv PROVE UploadsTypeOK
      OBVIOUS
    <2>1. \A i \in Images : uploads[i] \in UploadRecord /\ UploadOK(i)
      BY DEF UploadInv
    <2>2. \A i \in Images :
              /\ uploads[i].pc \in UploadSteps
              /\ (uploads[i].pc \in {"new", "ended"} =>
                      uploads[i] = [NewUpload EXCEPT !.pc = uploads[i].pc])
      BY <2>1 DEF UploadRecord, UploadOK
    <2> QED BY <2>2 DEF UploadInv, ObjectOK, UploadsTypeOK
  <1> QED BY <1>1, UploadsInductive, PTL

\* However uploads fail and servers move between storages, a row of
\* create_uploaded_file names an object that put_object stored for this image.
THEOREM RowsKeepObjects == UploadsSpec => []RowsHaveObjects
  <1>1. UploadInv => RowsHaveObjects
    BY DEF UploadInv, RowOK, ObjectOK, Row, RowsHaveObjects
  <1> QED BY <1>1, UploadsInductive, PTL

\* preview_image and get_image_contexts show a user his own images only, and a
\* preview shows the image itself where its storage can be reached.
THEOREM PreviewsStayRight == UploadsSpec => []PreviewsAreRight
  <1>1. UploadInv => PreviewsAreRight
    BY DEF UploadInv, Owns, PreviewsAreRight
  <1> QED BY <1>1, UploadsInductive, PTL

\* analyze_image never gives an image to a model that cannot see.
THEOREM ImagesStaySeen == UploadsSpec => []ImagesAreSeen
  <1>1. UploadInv => ImagesAreSeen
    BY DEF UploadInv, UploadOK, ImagesAreSeen
  <1> QED BY <1>1, UploadsInductive, PTL

\* In every configuration, resolve_model answers a chat with the model the
\* user chose of those that get_model_options offers.
THEOREM OptionsStayHonoured == UploadsSpec => []OptionsAreHonoured
  <1>1. UploadInv => OptionsAreHonoured
    <2> SUFFICES ASSUME UploadInv, NEW id \in Options(environment)
                 PROVE  ResolveModel(environment, id, "chat") = id
      BY DEF OptionsAreHonoured
    <2>1. environment.chatModels \in Seq(STRING)
      BY UploadAssumption DEF UploadInv
    <2> QED BY <2>1, OptionsResolve
  <1> QED BY <1>1, UploadsInductive, PTL
=============================================================================
