---------------------- MODULE ConversationMemoryProofs ----------------------
(***************************************************************************)
(* Proofs, for any users, threads, calls at once and turns, that threads   *)
(* are private, that a question and its answer stay neighbours, and that   *)
(* an answer is there only with its question.                              *)
(***************************************************************************)
EXTENDS ConversationMemory, TLAPS

Saving(w) == work[w].kind \in {"ask", "action"}
ChangeSteps == {"update", "select", "drop", "remove", "touch"}

\* The ids a turn has drawn and not yet committed.
Drawn(w) ==
    {i \in {work[w].q} : Saving(w) /\ work[w].pc \in {"answer", "commit"}}
    \cup {i \in {work[w].a} : Saving(w) /\ At(w, "commit")}

\* A call knows its user and its thread; one that begins a conversation or a turn
\* holds the conversation, and a turn's conversation is its user's or nobody's.
CallFacts(w) ==
    /\ At(w, "idle") => work[w] = NoWork
    /\ ~At(w, "idle") => work[w].user \in Users /\ work[w].thread \in Threads
    /\ work[w].pc \in {"recall", "search"} => work[w].kind = "load"
    /\ work[w].pc \in {"question", "answer"} => Saving(w)
    /\ work[w].pc \in {"ensure", "commit"} => work[w].kind \in {"load", "ask", "action"}
    /\ work[w].pc \in ChangeSteps \cup {"find"} => work[w].kind \in {"edit", "delete"}
    /\ work[w].pc \in {"recall", "search", "question", "answer", "commit"} =>
          work[w].thread \in work[w].holds
    /\ Saving(w) /\ work[w].pc \in {"question", "answer", "commit"} =>
          owner[work[w].thread] \in {"nobody", work[w].user}

\* The ids of a turn are new, and greater than those its thread has.
TurnFacts(w) ==
    /\ Drawn(w) \subseteq 1..lastId
    /\ \A m \in messages : m.id \notin Drawn(w) /\ m.turn \notin Drawn(w)
    /\ Drawn(w) # {} => \A m \in Of(work[w].thread) : m.id < work[w].q
    /\ Saving(w) /\ At(w, "commit") => work[w].q < work[w].a

\* An edit or a deletion is of a turn that was saved, and takes its answer with it.
ChangeFacts(w) ==
    /\ work[w].pc \in {"find", "update", "select"} => work[w].a = 0
    /\ work[w].pc \in ChangeSteps =>
          /\ work[w].q \in 1..lastId /\ work[w].a \in 0..lastId
          /\ \A m \in messages : m.turn = work[w].q => m.thread = work[w].thread
          /\ \A m \in messages : m.role = "user" => m.id # work[w].a
    /\ work[w].pc \in {"drop", "remove", "touch"} =>
          \A n \in messages : n.role = "assistant" /\ n.turn = work[w].q => n.id = work[w].a

WorkInv == \A w \in Workers : CallFacts(w) /\ TurnFacts(w) /\ ChangeFacts(w)

\* Two calls lock no row together, draw no id together, and no call changes a turn
\* that is still being saved.
Apart(v, w) ==
    /\ work[v].holds \cap work[w].holds = {}
    /\ Drawn(v) \cap Drawn(w) = {}
    /\ work[w].pc \in ChangeSteps => work[w].q \notin Drawn(v) /\ work[w].a \notin Drawn(v)

ApartInv == \A v, w \in Workers : v # w => Apart(v, w)

\* A turn is named by the id of its question; its answer has the next id in its thread.
MessageInv ==
    /\ \A m \in messages : m.id \in 1..lastId /\ m.turn \in 1..lastId
    /\ \A m \in messages : m.role = "user" => m.id = m.turn
    /\ \A n \in messages : n.role = "assistant" =>
          /\ n.turn < n.id
          /\ \A o \in messages : o.thread = n.thread => ~(n.turn < o.id /\ o.id < n.id)
    /\ \A m, n \in messages :
          /\ m.turn = n.turn => m.thread = n.thread /\ m.created_at = n.created_at
          /\ m.id = n.id => m.role = n.role

\* The inductive invariant.
IndInv == TypeOK /\ WorkInv /\ ApartInv /\ MessageInv /\ ThreadsArePrivate /\ AnswersFitQuestions

-----------------------------------------------------------------------------
LEMMA NoWorkTyped == NoWork \in Work
  BY DEF NoWork, Work, Steps

\* Nothing is there (Init).
LEMMA InitIndInv == Init => IndInv
  <1> SUFFICES ASSUME Init PROVE IndInv
    OBVIOUS
  <1>1. \A w \in Workers : work[w] = NoWork
    BY DEF Init
  <1>2. \A w \in Workers : Drawn(w) = {} /\ work[w].holds = {}
    BY <1>1 DEF Drawn, Saving, NoWork
  <1>3. TypeOK
    BY NoWorkTyped DEF Init, TypeOK
  <1>4. WorkInv
    BY <1>1, <1>2 DEF Init, WorkInv, CallFacts, TurnFacts, ChangeFacts, ChangeSteps, Saving, At, NoWork
  <1>5. ApartInv
    BY <1>1, <1>2 DEF ApartInv, Apart, NoWork, ChangeSteps
  <1>6. MessageInv /\ AnswersFitQuestions
    BY DEF Init, MessageInv, AnswersFitQuestions
  <1>7. ThreadsArePrivate
    BY <1>1 DEF Init, ThreadsArePrivate, NoWork
  <1> QED BY <1>3, <1>4, <1>5, <1>6, <1>7 DEF IndInv

\* What the others know stands as long as nothing outside changes.
LEMMA OthersKept ==
    ASSUME IndInv, NEW w \in Workers, NEW d \in Work, work' = [work EXCEPT ![w] = d],
           UNCHANGED <<owner, messages, memories, lastId>>
    PROVE  /\ work'[w] = d /\ \A v \in Workers : v # w => work'[v] = work[v]
           /\ \A v \in Workers : v # w =>
                 (CallFacts(v) /\ TurnFacts(v) /\ ChangeFacts(v))'
           /\ MessageInv' /\ AnswersFitQuestions'
  <1>1. work'[w] = d /\ \A v \in Workers : v # w => work'[v] = work[v]
    BY DEF IndInv, TypeOK
  <1>2. MessageInv' /\ AnswersFitQuestions'
    BY DEF IndInv, MessageInv, AnswersFitQuestions
  <1>3. ASSUME NEW v \in Workers, v # w PROVE (CallFacts(v) /\ TurnFacts(v) /\ ChangeFacts(v))'
    <2>1. work'[v] = work[v] /\ Drawn(v)' = Drawn(v)
      BY <1>1, <1>3 DEF Drawn, Saving, At
    <2>2. CallFacts(v) /\ TurnFacts(v) /\ ChangeFacts(v)
      BY DEF IndInv, WorkInv
    <2> QED BY <2>1, <2>2 DEF CallFacts, TurnFacts, ChangeFacts, Saving, At, Of
  <1> QED BY <1>1, <1>2, <1>3

\* A step of a call that changes no table and draws no id.
LEMMA QuietStep ==
    ASSUME IndInv, NEW w \in Workers, NEW d \in Work, work' = [work EXCEPT ![w] = d],
           UNCHANGED <<owner, messages, memories, lastId>>, now' \in Nat,
           \* it locks at most a row that is free,
           \A row \in d.holds : row \in work[w].holds \/ Free(w, row),
           \* recalls its user's own,
           \A m \in d.saw : m.author = d.user,
           \A m \in d.long : m.user = d.user,
           \* and draws nothing; what it changes was saved.
           Drawn(w)' = {},
           d.pc \in ChangeSteps =>
               \A v \in Workers : v # w => d.q \notin Drawn(v) /\ d.a \notin Drawn(v),
           CallFacts(w)', ChangeFacts(w)'
    PROVE  IndInv'
  <1>1. work'[w] = d /\ \A v \in Workers : v # w => work'[v] = work[v]
    BY OthersKept
  <1>2. TypeOK'
    BY DEF IndInv, TypeOK
  <1>3. MessageInv' /\ AnswersFitQuestions'
    BY OthersKept
  <1>4. WorkInv'
    <2>1. TurnFacts(w)'
      <3>1. ~(Saving(w) /\ At(w, "commit"))'
        BY DEF Drawn
      <3> QED BY <3>1 DEF TurnFacts
    <2> QED BY <2>1, OthersKept DEF WorkInv
  <1>5. ApartInv'
    <2>1. \A v \in Workers : v # w => Drawn(v)' = Drawn(v)
      BY <1>1 DEF Drawn, Saving, At
    <2>2. ASSUME NEW v \in Workers, v # w PROVE Apart(v, w)' /\ Apart(w, v)'
      <3>1. work'[v] = work[v] /\ Apart(v, w) /\ Apart(w, v) /\ Drawn(v)' = Drawn(v)
        BY <1>1, <2>1, <2>2 DEF IndInv, ApartInv
      <3>2. d.holds \cap work[v].holds = {}
        BY <2>2, <3>1 DEF Free, Apart
      <3> QED BY <1>1, <2>2, <3>1, <3>2 DEF Apart
    <2>3. ASSUME NEW u \in Workers, NEW v \in Workers, u # v, u # w, v # w PROVE Apart(u, v)'
      <3>1. work'[v] = work[v] /\ work'[u] = work[u] /\ Apart(u, v)
            /\ Drawn(v)' = Drawn(v) /\ Drawn(u)' = Drawn(u)
        BY <1>1, <2>1, <2>3 DEF IndInv, ApartInv
      <3> QED BY <3>1 DEF Apart
    <2> QED BY <2>2, <2>3 DEF ApartInv
  <1>6. ThreadsArePrivate'
    BY <1>1 DEF IndInv, ThreadsArePrivate, Owns
  <1> QED BY <1>2, <1>3, <1>4, <1>5, <1>6 DEF IndInv

-----------------------------------------------------------------------------
\* A call ends without having written: it fails, or finds nothing to change.
LEMMA EndStep ==
    ASSUME IndInv, NEW w \in Workers, End(w),
           UNCHANGED <<owner, messages, memories, lastId, now>>
    PROVE  IndInv'
  <1>1. work'[w] = NoWork /\ work' = [work EXCEPT ![w] = NoWork]
    BY DEF End, IndInv, TypeOK
  <1>2. NoWork.holds = {} /\ NoWork.saw = {} /\ NoWork.long = {} /\ NoWork.pc \notin ChangeSteps
    BY DEF NoWork, ChangeSteps
  <1>3. Drawn(w)' = {} /\ CallFacts(w)' /\ ChangeFacts(w)'
    BY <1>1 DEF Drawn, Saving, At, CallFacts, ChangeFacts, ChangeSteps, NoWork
  <1>4. now' \in Nat
    BY DEF IndInv, TypeOK
  <1> QED BY <1>1, <1>2, <1>3, <1>4, NoWorkTyped, QuietStep

\* A turn or a load begins (save_memory_turn, record_mcp_action_turn,
\* load_memory_context).
LEMMA BeginStep ==
    ASSUME IndInv, NEW w \in Workers, NEW kind \in {"load", "ask", "action"}, NEW u \in Users,
           NEW t \in Threads, Begin(w, kind, u, t)
    PROVE  IndInv'
  <1> DEFINE begun == IF kind = "load" THEN 0 ELSE now'
             d == [NoWork EXCEPT !.pc = "ensure", !.kind = kind, !.user = u, !.thread = t,
                                 !.begun = begun]
  <1>1. now' \in Nat /\ begun \in Nat
    BY DEF Begin, IndInv, TypeOK
  <1>2. work' = [work EXCEPT ![w] = d] /\ UNCHANGED <<owner, messages, memories, lastId>>
    BY DEF Begin
  <1> HIDE DEF begun
  <1>3. /\ d \in Work /\ d.pc = "ensure" /\ d.kind = kind /\ d.user = u /\ d.thread = t
        /\ d.holds = {} /\ d.saw = {} /\ d.long = {}
    BY <1>1 DEF NoWork, Work, Steps, Kinds
  <1> HIDE DEF d
  <1>4. work'[w] = d
    BY <1>2 DEF IndInv, TypeOK
  <1>5. Drawn(w)' = {} /\ CallFacts(w)' /\ ChangeFacts(w)'
    BY <1>3, <1>4 DEF Drawn, Saving, At, CallFacts, ChangeFacts, ChangeSteps
  <1> QED BY <1>1, <1>2, <1>3, <1>5, QuietStep DEF ChangeSteps

\* An edit or a deletion begins (update_thread_user_message, delete_thread_user_turn).
LEMMA BeginChangeStep ==
    ASSUME IndInv, NEW w \in Workers, NEW kind \in {"edit", "delete"}, NEW u \in Users,
           NEW t \in Threads, NEW id \in 1..lastId, BeginChange(w, kind, u, t, id)
    PROVE  IndInv'
  <1> DEFINE d == [NoWork EXCEPT !.pc = "find", !.kind = kind, !.user = u, !.thread = t, !.q = id]
  <1>1. work' = [work EXCEPT ![w] = d] /\ UNCHANGED <<owner, messages, memories, lastId, now>>
    BY DEF BeginChange
  <1>2. id \in Nat /\ now \in Nat
    BY DEF IndInv, TypeOK
  <1>3. /\ d \in Work /\ d.pc = "find" /\ d.kind = kind /\ d.user = u /\ d.thread = t
        /\ d.a = 0 /\ d.holds = {} /\ d.saw = {} /\ d.long = {}
    BY <1>2 DEF NoWork, Work, Steps, Kinds
  <1> HIDE DEF d
  <1>4. work'[w] = d
    BY <1>1 DEF IndInv, TypeOK
  <1>5. Drawn(w)' = {} /\ CallFacts(w)' /\ ChangeFacts(w)'
    BY <1>3, <1>4 DEF Drawn, Saving, At, CallFacts, ChangeFacts, ChangeSteps
  <1> QED BY <1>1, <1>2, <1>3, <1>5, QuietStep DEF ChangeSteps

-----------------------------------------------------------------------------
\* A call goes on to its next step, with one more row locked or none.
LEMMA GoesOn ==
    ASSUME IndInv, NEW w \in Workers, NEW d \in Work, work' = [work EXCEPT ![w] = d],
           UNCHANGED <<owner, messages, memories, lastId, now>>,
           d.user = work[w].user, d.saw = work[w].saw, d.long = work[w].long,
           \A row \in d.holds : row \in work[w].holds \/ Free(w, row),
           d.pc \notin {"answer", "commit"},
           d.pc \in ChangeSteps =>
               \A v \in Workers : v # w => d.q \notin Drawn(v) /\ d.a \notin Drawn(v),
           CallFacts(w)', ChangeFacts(w)'
    PROVE  IndInv'
  <1>1. work'[w] = d /\ now \in Nat
    BY DEF IndInv, TypeOK
  <1>2. Drawn(w)' = {}
    BY <1>1 DEF Drawn, Saving, At
  <1>3. (\A m \in d.saw : m.author = d.user) /\ (\A m \in d.long : m.user = d.user)
    BY DEF IndInv, ThreadsArePrivate
  <1> QED BY <1>1, <1>2, <1>3, QuietStep

\* A lock, and the next step.
LEMMA LockingTyped ==
    ASSUME IndInv, NEW w \in Workers, NEW row \in Threads \cup Nat, NEW pc \in Steps,
           Locking(w, row, pc)
    PROVE  \E d \in Work :
              /\ work' = [work EXCEPT ![w] = d] /\ work'[w] = d
              /\ d.pc = pc /\ d.holds = work[w].holds \cup {row}
              /\ d.kind = work[w].kind /\ d.user = work[w].user /\ d.thread = work[w].thread
              /\ d.q = work[w].q /\ d.a = work[w].a
              /\ d.saw = work[w].saw /\ d.long = work[w].long
  <1> DEFINE d == [work[w] EXCEPT !.pc = pc, !.holds = @ \cup {row}]
  <1>1. work[w] \in Work /\ work \in [Workers -> Work]
    BY DEF IndInv, TypeOK
  <1>2. /\ d \in Work /\ d.pc = pc /\ d.holds = work[w].holds \cup {row}
        /\ d.kind = work[w].kind /\ d.user = work[w].user /\ d.thread = work[w].thread
        /\ d.q = work[w].q /\ d.a = work[w].a
        /\ d.saw = work[w].saw /\ d.long = work[w].long
    BY <1>1 DEF Work
  <1>3. work' = [work EXCEPT ![w] = d]
    BY <1>1 DEF Locking
  <1> HIDE DEF d
  <1>4. work'[w] = d
    BY <1>1, <1>3
  <1> QED BY <1>2, <1>3, <1>4

LEMMA GotoTyped ==
    ASSUME IndInv, NEW w \in Workers, NEW pc \in Steps, Goto(w, pc)
    PROVE  \E d \in Work :
              /\ work' = [work EXCEPT ![w] = d] /\ work'[w] = d
              /\ d.pc = pc /\ d.holds = work[w].holds
              /\ d.kind = work[w].kind /\ d.user = work[w].user /\ d.thread = work[w].thread
              /\ d.q = work[w].q /\ d.a = work[w].a
              /\ d.saw = work[w].saw /\ d.long = work[w].long
  <1> DEFINE d == [work[w] EXCEPT !.pc = pc]
  <1>1. work[w] \in Work /\ work \in [Workers -> Work]
    BY DEF IndInv, TypeOK
  <1>2. /\ d \in Work /\ d.pc = pc /\ d.holds = work[w].holds
        /\ d.kind = work[w].kind /\ d.user = work[w].user /\ d.thread = work[w].thread
        /\ d.q = work[w].q /\ d.a = work[w].a
        /\ d.saw = work[w].saw /\ d.long = work[w].long
    BY <1>1 DEF Work
  <1>3. work' = [work EXCEPT ![w] = d]
    BY <1>1 DEF Goto
  <1> HIDE DEF d
  <1>4. work'[w] = d
    BY <1>1, <1>3
  <1> QED BY <1>2, <1>3, <1>4

\* The conversation is the user's, or nobody's yet (ensure_conversation).
LEMMA EnsureStep ==
    ASSUME IndInv, NEW w \in Workers, Ensure(w)
    PROVE  IndInv'
  <1>1. /\ At(w, "ensure") /\ Free(w, work[w].thread)
        /\ UNCHANGED <<owner, messages, memories, lastId, now>>
    BY DEF Ensure
  <1>2. /\ CallFacts(w) /\ work[w].thread \in Threads /\ work[w].user \in Users
        /\ work[w].kind \in {"load", "ask", "action"}
    BY <1>1 DEF IndInv, WorkInv, CallFacts, At
  <1>3. CASE work[w].kind = "load" /\ Locking(w, work[w].thread, "recall")
    <2>1. PICK d \in Work :
              /\ work' = [work EXCEPT ![w] = d] /\ work'[w] = d
              /\ d.pc = "recall" /\ d.holds = work[w].holds \cup {work[w].thread}
              /\ d.kind = work[w].kind /\ d.user = work[w].user /\ d.thread = work[w].thread
              /\ d.saw = work[w].saw /\ d.long = work[w].long
      BY <1>2, <1>3, LockingTyped DEF Steps
    <2>2. CallFacts(w)' /\ ChangeFacts(w)'
      BY <1>1, <1>2, <1>3, <2>1 DEF CallFacts, ChangeFacts, ChangeSteps, Saving, At
    <2> QED BY <1>1, <2>1, <2>2, GoesOn DEF ChangeSteps
  <1>4. CASE /\ work[w].kind # "load" /\ owner[work[w].thread] \in {"nobody", work[w].user}
             /\ Locking(w, work[w].thread, "question")
    <2>1. PICK d \in Work :
              /\ work' = [work EXCEPT ![w] = d] /\ work'[w] = d
              /\ d.pc = "question" /\ d.holds = work[w].holds \cup {work[w].thread}
              /\ d.kind = work[w].kind /\ d.user = work[w].user /\ d.thread = work[w].thread
              /\ d.saw = work[w].saw /\ d.long = work[w].long
      BY <1>2, <1>4, LockingTyped DEF Steps
    <2>2. CallFacts(w)' /\ ChangeFacts(w)'
      BY <1>1, <1>2, <1>4, <2>1 DEF CallFacts, ChangeFacts, ChangeSteps, Saving, At
    <2> QED BY <1>1, <2>1, <2>2, GoesOn DEF ChangeSteps
  <1>5. CASE End(w)
    BY <1>1, <1>5, EndStep
  <1> QED BY <1>3, <1>4, <1>5 DEF Ensure

\* The newest messages of the user's own thread (get_short_memory).
LEMMA RecallStep ==
    ASSUME IndInv, NEW w \in Workers, Recall(w)
    PROVE  IndInv'
  <1> DEFINE saw == History(work[w].thread, work[w].user)
             d == [work[w] EXCEPT !.pc = "search", !.saw = saw]
  <1>1. At(w, "recall") /\ UNCHANGED <<owner, messages, memories, lastId, now>>
    BY DEF Recall
  <1>2. /\ work[w] \in Work /\ work \in [Workers -> Work] /\ now \in Nat
        /\ messages \subseteq Message /\ CallFacts(w) /\ work[w].kind = "load"
    BY <1>1 DEF IndInv, TypeOK, WorkInv, CallFacts, At
  <1>3. saw \subseteq messages /\ \A m \in saw : Owns(m.thread, work[w].user)
    BY DEF History, ThreadMessages, Of
  <1>4. saw \in SUBSET Message /\ \A m \in saw : m.author = work[w].user
    BY <1>2, <1>3 DEF IndInv, ThreadsArePrivate, Owns
  <1>5. work' = [work EXCEPT ![w] = d]
    BY <1>2 DEF Recall
  <1> HIDE DEF saw
  <1>6. /\ d \in Work /\ d.pc = "search" /\ d.kind = "load" /\ d.user = work[w].user
        /\ d.thread = work[w].thread /\ d.holds = work[w].holds
        /\ d.saw = saw /\ d.long = work[w].long
    BY <1>2, <1>4 DEF Work, Steps
  <1> HIDE DEF d
  <1>7. work'[w] = d
    BY <1>2, <1>5
  <1>8. Drawn(w)' = {} /\ CallFacts(w)' /\ ChangeFacts(w)'
    BY <1>1, <1>2, <1>6, <1>7 DEF Drawn, CallFacts, ChangeFacts, ChangeSteps, Saving, At
  <1>9. \A m \in d.long : m.user = d.user
    BY <1>6 DEF IndInv, ThreadsArePrivate
  <1> QED BY <1>1, <1>2, <1>4, <1>5, <1>6, <1>8, <1>9, QuietStep DEF ChangeSteps

\* The nearest memories of the user (search_long_memories).
LEMMA SearchStep ==
    ASSUME IndInv, NEW w \in Workers, Search(w)
    PROVE  IndInv'
  <1>1. At(w, "search") /\ UNCHANGED <<owner, messages, memories, lastId, now>>
    BY DEF Search
  <1>2. PICK near \in Nearest(work[w].user) :
            work' = [work EXCEPT ![w].pc = "commit", ![w].long = near]
    BY DEF Search
  <1> DEFINE d == [work[w] EXCEPT !.pc = "commit", !.long = near]
  <1>3. /\ work[w] \in Work /\ work \in [Workers -> Work] /\ now \in Nat
        /\ memories \subseteq LongMemory /\ CallFacts(w) /\ work[w].kind = "load"
    BY <1>1 DEF IndInv, TypeOK, WorkInv, CallFacts, At
  <1>4. near \in SUBSET LongMemory /\ \A m \in near : m.user = work[w].user
    BY <1>3 DEF Nearest
  <1>5. work' = [work EXCEPT ![w] = d]
    BY <1>2, <1>3
  <1>6. /\ d \in Work /\ d.pc = "commit" /\ d.kind = "load" /\ d.user = work[w].user
        /\ d.thread = work[w].thread /\ d.holds = work[w].holds
        /\ d.saw = work[w].saw /\ d.long = near
    BY <1>3, <1>4 DEF Work, Steps
  <1> HIDE DEF d
  <1>7. work'[w] = d
    BY <1>3, <1>5
  <1>8. Drawn(w)' = {} /\ CallFacts(w)' /\ ChangeFacts(w)'
    BY <1>1, <1>3, <1>6, <1>7 DEF Drawn, CallFacts, ChangeFacts, ChangeSteps, Saving, At
  <1>9. \A m \in d.saw : m.author = d.user
    BY <1>6 DEF IndInv, ThreadsArePrivate
  <1> QED BY <1>1, <1>3, <1>4, <1>5, <1>6, <1>8, <1>9, QuietStep DEF ChangeSteps

-----------------------------------------------------------------------------
\* The call knows of the turn it changes.
LEMMA ChangeKnows ==
    ASSUME IndInv, NEW w \in Workers, work[w].pc \in ChangeSteps
    PROVE  /\ work[w].q \in Nat /\ work[w].a \in Nat /\ CallFacts(w) /\ ChangeFacts(w)
           /\ \A v \in Workers : v # w => work[w].q \notin Drawn(v) /\ work[w].a \notin Drawn(v)
  <1>1. work[w] \in Work
    BY DEF IndInv, TypeOK
  <1> QED BY <1>1 DEF Work, IndInv, WorkInv, ApartInv, Apart

\* The question is there and its user's, so its turn was saved (_owned_question).
LEMMA FindStep ==
    ASSUME IndInv, NEW w \in Workers, Find(w)
    PROVE  IndInv'
  <1> DEFINE next == IF work[w].kind = "edit" THEN "update" ELSE "select"
  <1>1. At(w, "find") /\ UNCHANGED <<owner, messages, memories, lastId, now>>
    BY DEF Find
  <1>2. CallFacts(w) /\ work[w].a = 0 /\ work[w].kind \in {"edit", "delete"}
    BY <1>1 DEF IndInv, WorkInv, CallFacts, ChangeFacts, At
  <1>3. ASSUME NEW m \in Questions(work[w].thread, work[w].user), m.id = work[w].q, Goto(w, next)
        PROVE  IndInv'
    <2>1. PICK d \in Work :
              /\ work' = [work EXCEPT ![w] = d] /\ work'[w] = d
              /\ d.pc = next /\ d.holds = work[w].holds
              /\ d.kind = work[w].kind /\ d.user = work[w].user /\ d.thread = work[w].thread
              /\ d.q = work[w].q /\ d.a = work[w].a
              /\ d.saw = work[w].saw /\ d.long = work[w].long
      BY <1>3, GotoTyped DEF Steps
    <2>2. /\ m \in messages /\ m.role = "user" /\ m.thread = work[w].thread
          /\ m.id \in 1..lastId /\ m.turn = work[w].q
      BY <1>3 DEF Questions, ThreadMessages, Of, IndInv, MessageInv
    <2>3. /\ \A n \in messages : n.turn = work[w].q => n.thread = work[w].thread
          /\ \A n \in messages : n.id # 0
          /\ 0 \in 0..lastId
      BY <2>2 DEF IndInv, MessageInv, TypeOK
    <2>4. CallFacts(w)' /\ ChangeFacts(w)'
      BY <1>1, <1>2, <1>3, <2>1, <2>2, <2>3 DEF CallFacts, ChangeFacts, ChangeSteps, Saving, At
    <2>5. \A v \in Workers : work[w].q \notin Drawn(v) /\ 0 \notin Drawn(v)
      BY <1>3, <2>2 DEF IndInv, WorkInv, TurnFacts, TypeOK
    <2> QED BY <1>1, <1>2, <2>1, <2>4, <2>5, GoesOn
  <1>4. CASE End(w)
    BY <1>1, <1>4, EndStep
  <1> QED BY <1>3, <1>4 DEF Find

\* The content of the question is flushed (update_user_message).
LEMMA UpdateStep ==
    ASSUME IndInv, NEW w \in Workers, Update(w)
    PROVE  IndInv'
  <1> DEFINE next == "select"
  <1>1. /\ At(w, "update") /\ Free(w, work[w].q)
        /\ UNCHANGED <<owner, messages, memories, lastId, now>>
    BY DEF Update
  <1>2. work[w].pc \in ChangeSteps
    BY <1>1 DEF At, ChangeSteps
  <1>3. CASE Locking(w, work[w].q, next)
    <2>1. PICK d \in Work :
              /\ work' = [work EXCEPT ![w] = d] /\ work'[w] = d
              /\ d.pc = next /\ d.holds = work[w].holds \cup {work[w].q}
              /\ d.kind = work[w].kind /\ d.user = work[w].user /\ d.thread = work[w].thread
              /\ d.q = work[w].q /\ d.a = work[w].a
              /\ d.saw = work[w].saw /\ d.long = work[w].long
      BY <1>2, <1>3, ChangeKnows, LockingTyped DEF Steps
    <2>2. CallFacts(w)' /\ ChangeFacts(w)'
      BY <1>1, <1>2, <2>1, ChangeKnows DEF CallFacts, ChangeFacts, ChangeSteps, Saving, At
    <2>3. \A r \in d.holds : r \in work[w].holds \/ Free(w, r)
      BY <1>1, <2>1
    <2> QED BY <1>1, <1>2, <2>1, <2>2, <2>3, ChangeKnows, GoesOn
  <1>4. CASE End(w)
    BY <1>1, <1>4, EndStep
  <1> QED BY <1>3, <1>4 DEF Update

\* The answer of a turn that was saved is the first one after its question
\* (_delete_answer_after).
LEMMA FirstAnswerIsOwn ==
    ASSUME IndInv, NEW w \in Workers, At(w, "select"),
           NEW n \in messages, n.role = "assistant", n.turn = work[w].q
    PROVE  /\ n \in Of(work[w].thread) /\ n.id > work[w].q
           /\ \A m \in AnswerAfter(work[w].thread, work[w].q) : m.id = n.id
           /\ AnswerAfter(work[w].thread, work[w].q) # {}
  <1>1. n.thread = work[w].thread /\ work[w].q \in 1..lastId
    BY DEF IndInv, WorkInv, ChangeFacts, ChangeSteps, At
  <1>2. /\ \A m \in messages : m.id \in Nat
        /\ n.turn < n.id /\ lastId \in Nat /\ work[w].q \in Nat
        /\ \A o \in messages : o.thread = n.thread => ~(n.turn < o.id /\ o.id < n.id)
    BY <1>1 DEF IndInv, MessageInv, TypeOK
  <1>3. n \in Of(work[w].thread) /\ n.id > work[w].q
    BY <1>1, <1>2 DEF Of
  <1>4. ASSUME NEW m \in AnswerAfter(work[w].thread, work[w].q) PROVE m.id = n.id
    <2>1. m \in messages /\ m.thread = work[w].thread /\ m.id > work[w].q /\ m.id <= n.id
      BY <1>3 DEF AnswerAfter, Of
    <2> QED BY <1>1, <1>2, <2>1
  <1>5. n \in AnswerAfter(work[w].thread, work[w].q)
    <2>1. ASSUME NEW o \in Of(work[w].thread), o.id > work[w].q PROVE n.id <= o.id
      BY <1>1, <1>2, <2>1 DEF Of
    <2> QED BY <1>3, <2>1 DEF AnswerAfter
  <1> QED BY <1>3, <1>4, <1>5

\* The answer is found, or was removed before (_delete_answer_after).
LEMMA SelectStep ==
    ASSUME IndInv, NEW w \in Workers, Select(w)
    PROVE  IndInv'
  <1> DEFINE found == AnswerAfter(work[w].thread, work[w].q)
             next == IF work[w].kind = "edit" THEN "touch" ELSE "remove"
  <1>1. At(w, "select") /\ UNCHANGED <<owner, messages, memories, lastId, now>>
    BY DEF Select
  <1>2. work[w].pc \in ChangeSteps
    BY <1>1 DEF At, ChangeSteps
  <1>3. CASE found = {} /\ Goto(w, next)
    <2>1. PICK d \in Work :
              /\ work' = [work EXCEPT ![w] = d] /\ work'[w] = d
              /\ d.pc = next /\ d.holds = work[w].holds
              /\ d.kind = work[w].kind /\ d.user = work[w].user /\ d.thread = work[w].thread
              /\ d.q = work[w].q /\ d.a = work[w].a
              /\ d.saw = work[w].saw /\ d.long = work[w].long
      BY <1>3, GotoTyped DEF Steps
    <2>2. \A n \in messages : ~(n.role = "assistant" /\ n.turn = work[w].q)
      BY <1>1, <1>3, FirstAnswerIsOwn
    <2>3. CallFacts(w)' /\ ChangeFacts(w)'
      BY <1>1, <1>2, <2>1, <2>2, ChangeKnows DEF CallFacts, ChangeFacts, ChangeSteps, Saving, At
    <2> QED BY <1>1, <1>2, <2>1, <2>3, ChangeKnows, GoesOn
  <1>4. ASSUME NEW m \in found, work' = [work EXCEPT ![w].pc = "drop", ![w].a = m.id]
        PROVE  IndInv'
    <2> DEFINE d == [work[w] EXCEPT !.pc = "drop", !.a = m.id]
    <2>1. work[w] \in Work /\ work \in [Workers -> Work]
      BY DEF IndInv, TypeOK
    <2>2. /\ m \in messages /\ m.role = "assistant" /\ m.id \in 1..lastId
          /\ m.id \in Nat /\ m.id \in 0..lastId
      BY DEF AnswerAfter, Of, IndInv, MessageInv, TypeOK
    <2>3. /\ d \in Work /\ d.pc = "drop" /\ d.holds = work[w].holds
          /\ d.kind = work[w].kind /\ d.user = work[w].user /\ d.thread = work[w].thread
          /\ d.q = work[w].q /\ d.a = m.id /\ d.saw = work[w].saw /\ d.long = work[w].long
      BY <2>1, <2>2 DEF Work, Steps
    <2>4. work' = [work EXCEPT ![w] = d]
      BY <1>4, <2>1
    <2> HIDE DEF d
    <2>5. work'[w] = d
      BY <2>1, <2>4
    <2>6. \A n \in messages : n.role = "user" => n.id # m.id
      BY <2>2 DEF IndInv, MessageInv
    <2>7. \A n \in messages : n.role = "assistant" /\ n.turn = work[w].q => n.id = m.id
      BY <1>1, FirstAnswerIsOwn
    <2>8. CallFacts(w)' /\ ChangeFacts(w)'
      BY <1>1, <1>2, <2>2, <2>3, <2>5, <2>6, <2>7, ChangeKnows
         DEF CallFacts, ChangeFacts, ChangeSteps, Saving, At
    <2>9. \A v \in Workers : m.id \notin Drawn(v)
      BY <2>2 DEF IndInv, WorkInv, TurnFacts
    <2> QED BY <1>1, <1>2, <2>3, <2>4, <2>8, <2>9, ChangeKnows, GoesOn
  <1> QED BY <1>3, <1>4 DEF Select

\* The answer's row is deleted, if it is still there (_delete_answer_after).
LEMMA DropStep ==
    ASSUME IndInv, NEW w \in Workers, Drop(w)
    PROVE  IndInv'
  <1> DEFINE next == IF work[w].kind = "edit" THEN "touch" ELSE "remove"
  <1>1. /\ At(w, "drop") /\ Free(w, work[w].a)
        /\ UNCHANGED <<owner, messages, memories, lastId, now>>
    BY DEF Drop
  <1>2. work[w].pc \in ChangeSteps
    BY <1>1 DEF At, ChangeSteps
  <1>3. CASE Locking(w, work[w].a, next)
    <2>1. PICK d \in Work :
              /\ work' = [work EXCEPT ![w] = d] /\ work'[w] = d
              /\ d.pc = next /\ d.holds = work[w].holds \cup {work[w].a}
              /\ d.kind = work[w].kind /\ d.user = work[w].user /\ d.thread = work[w].thread
              /\ d.q = work[w].q /\ d.a = work[w].a
              /\ d.saw = work[w].saw /\ d.long = work[w].long
      BY <1>2, <1>3, ChangeKnows, LockingTyped DEF Steps
    <2>2. CallFacts(w)' /\ ChangeFacts(w)'
      BY <1>1, <1>2, <2>1, ChangeKnows DEF CallFacts, ChangeFacts, ChangeSteps, Saving, At
    <2>3. \A r \in d.holds : r \in work[w].holds \/ Free(w, r)
      BY <1>1, <2>1
    <2> QED BY <1>1, <1>2, <2>1, <2>2, <2>3, ChangeKnows, GoesOn
  <1> QED BY <1>3 DEF Drop

\* The question's row is deleted after its answer's (delete_user_turn).
LEMMA RemoveStep ==
    ASSUME IndInv, NEW w \in Workers, Remove(w)
    PROVE  IndInv'
  <1> DEFINE next == "touch"
  <1>1. /\ At(w, "remove") /\ Free(w, work[w].q)
        /\ UNCHANGED <<owner, messages, memories, lastId, now>>
    BY DEF Remove
  <1>2. work[w].pc \in ChangeSteps
    BY <1>1 DEF At, ChangeSteps
  <1>3. CASE Locking(w, work[w].q, next)
    <2>1. PICK d \in Work :
              /\ work' = [work EXCEPT ![w] = d] /\ work'[w] = d
              /\ d.pc = next /\ d.holds = work[w].holds \cup {work[w].q}
              /\ d.kind = work[w].kind /\ d.user = work[w].user /\ d.thread = work[w].thread
              /\ d.q = work[w].q /\ d.a = work[w].a
              /\ d.saw = work[w].saw /\ d.long = work[w].long
      BY <1>2, <1>3, ChangeKnows, LockingTyped DEF Steps
    <2>2. CallFacts(w)' /\ ChangeFacts(w)'
      BY <1>1, <1>2, <2>1, ChangeKnows DEF CallFacts, ChangeFacts, ChangeSteps, Saving, At
    <2>3. \A r \in d.holds : r \in work[w].holds \/ Free(w, r)
      BY <1>1, <2>1
    <2> QED BY <1>1, <1>2, <2>1, <2>2, <2>3, ChangeKnows, GoesOn
  <1> QED BY <1>3 DEF Remove

-----------------------------------------------------------------------------
\* A turn draws an id of the sequence, greater than all there are.
LEMMA DrawStep ==
    ASSUME IndInv, NEW w \in Workers, NEW d \in Work, work' = [work EXCEPT ![w] = d],
           UNCHANGED <<owner, messages, memories, now>>, lastId' = lastId + 1,
           Saving(w), work[w].pc \in {"question", "answer"}, d.pc \in {"answer", "commit"},
           d.kind = work[w].kind, d.user = work[w].user, d.thread = work[w].thread,
           d.holds = work[w].holds, d.saw = work[w].saw, d.long = work[w].long,
           Drawn(w)' = Drawn(w) \cup {lastId + 1},
           TurnFacts(w)'
    PROVE  IndInv'
  <1>1. work'[w] = d /\ \A v \in Workers : v # w => work'[v] = work[v]
    BY DEF IndInv, TypeOK
  <1>2. lastId \in Nat /\ lastId' \in Nat /\ 1..lastId \subseteq 1..lastId'
        /\ 0..lastId \subseteq 0..lastId'
    BY DEF IndInv, TypeOK
  <1>3. TypeOK'
    BY <1>2 DEF IndInv, TypeOK
  <1>4. \A v \in Workers : v # w => Drawn(v)' = Drawn(v)
    BY <1>1 DEF Drawn, Saving, At
  <1>5. \A v \in Workers : lastId + 1 \notin Drawn(v)
    BY <1>2 DEF IndInv, WorkInv, TurnFacts
  <1>6. WorkInv'
    <2>1. CallFacts(w)' /\ ChangeFacts(w)'
      BY <1>1 DEF IndInv, WorkInv, CallFacts, ChangeFacts, ChangeSteps, Saving, At
    <2>2. ASSUME NEW v \in Workers, v # w PROVE (CallFacts(v) /\ TurnFacts(v) /\ ChangeFacts(v))'
      <3>1. work'[v] = work[v] /\ Drawn(v)' = Drawn(v)
        BY <1>1, <1>4, <2>2
      <3>2. CallFacts(v) /\ TurnFacts(v) /\ ChangeFacts(v)
        BY DEF IndInv, WorkInv
      <3>3. CallFacts(v)'
        BY <3>1, <3>2 DEF CallFacts, Saving, At
      <3>4. TurnFacts(v)'
        BY <1>2, <3>1, <3>2 DEF TurnFacts, Saving, At, Of
      <3>5. ChangeFacts(v)'
        BY <1>2, <3>1, <3>2 DEF ChangeFacts
      <3> QED BY <3>3, <3>4, <3>5
    <2> QED BY <2>1, <2>2 DEF WorkInv
  <1>7. ApartInv'
    <2>1. ASSUME NEW v \in Workers, v # w PROVE Apart(v, w)' /\ Apart(w, v)'
      <3>1. work'[v] = work[v] /\ Drawn(v)' = Drawn(v) /\ Apart(v, w) /\ Apart(w, v)
        BY <1>1, <1>4, <2>1 DEF IndInv, ApartInv
      <3>2. work[v].pc \in ChangeSteps => work[v].q # lastId + 1 /\ work[v].a # lastId + 1
        BY <1>2 DEF IndInv, WorkInv, ChangeFacts
      <3> QED BY <1>1, <1>5, <3>1, <3>2 DEF Apart, ChangeSteps
    <2>2. ASSUME NEW u \in Workers, NEW v \in Workers, u # v, u # w, v # w PROVE Apart(u, v)'
      <3>1. work'[v] = work[v] /\ work'[u] = work[u] /\ Apart(u, v)
            /\ Drawn(v)' = Drawn(v) /\ Drawn(u)' = Drawn(u)
        BY <1>1, <1>4, <2>2 DEF IndInv, ApartInv
      <3> QED BY <3>1 DEF Apart
    <2> QED BY <2>1, <2>2 DEF ApartInv
  <1>8. MessageInv'
    BY <1>2 DEF IndInv, MessageInv
  <1>9. AnswersFitQuestions' /\ ThreadsArePrivate'
    BY <1>1 DEF IndInv, AnswersFitQuestions, ThreadsArePrivate, Owns
  <1> QED BY <1>3, <1>6, <1>7, <1>8, <1>9 DEF IndInv

\* The question is flushed (add_message).
LEMMA QuestionStep ==
    ASSUME IndInv, NEW w \in Workers, Question(w)
    PROVE  IndInv'
  <1> DEFINE d == [work[w] EXCEPT !.pc = "answer", !.q = lastId + 1]
  <1>1. /\ At(w, "question") /\ UNCHANGED <<owner, messages, memories, now>>
        /\ lastId' = lastId + 1
    BY DEF Question
  <1>2. /\ work[w] \in Work /\ work \in [Workers -> Work] /\ lastId \in Nat /\ Saving(w)
        /\ lastId + 1 \in Nat
        /\ CallFacts(w)
    BY <1>1 DEF IndInv, TypeOK, WorkInv, CallFacts, At
  <1>3. work' = [work EXCEPT ![w] = d]
    BY <1>2 DEF Question
  <1>4. /\ d \in Work /\ d.pc = "answer" /\ d.q = lastId + 1
        /\ d.kind = work[w].kind /\ d.user = work[w].user /\ d.thread = work[w].thread
        /\ d.holds = work[w].holds /\ d.saw = work[w].saw /\ d.long = work[w].long
    BY <1>2 DEF Work, Steps
  <1> HIDE DEF d
  <1>5. work'[w] = d
    BY <1>2, <1>3
  <1>6. Drawn(w) = {} /\ Drawn(w)' = {lastId + 1}
    BY <1>1, <1>2, <1>4, <1>5 DEF Drawn, Saving, At
  <1>7. \A m \in messages : m.id \in 1..lastId /\ m.turn \in 1..lastId
    BY DEF IndInv, MessageInv
  <1>8. TurnFacts(w)'
    BY <1>1, <1>2, <1>4, <1>5, <1>6, <1>7 DEF TurnFacts, Of, At
  <1> QED BY <1>1, <1>2, <1>3, <1>4, <1>6, <1>8, DrawStep DEF At

\* The answer is flushed after it (add_message).
LEMMA AnswerStep ==
    ASSUME IndInv, NEW w \in Workers, Answer(w)
    PROVE  IndInv'
  <1> DEFINE d == [work[w] EXCEPT !.pc = "commit", !.a = lastId + 1]
  <1>1. /\ At(w, "answer") /\ UNCHANGED <<owner, messages, memories, now>>
        /\ lastId' = lastId + 1
    BY DEF Answer
  <1>2. /\ work[w] \in Work /\ work \in [Workers -> Work] /\ lastId \in Nat /\ Saving(w)
        /\ lastId + 1 \in Nat
        /\ CallFacts(w) /\ TurnFacts(w)
    BY <1>1 DEF IndInv, TypeOK, WorkInv, CallFacts, At
  <1>3. work' = [work EXCEPT ![w] = d]
    BY <1>2 DEF Answer
  <1>4. /\ d \in Work /\ d.pc = "commit" /\ d.q = work[w].q /\ d.a = lastId + 1
        /\ d.kind = work[w].kind /\ d.user = work[w].user /\ d.thread = work[w].thread
        /\ d.holds = work[w].holds /\ d.saw = work[w].saw /\ d.long = work[w].long
    BY <1>2 DEF Work, Steps
  <1> HIDE DEF d
  <1>5. work'[w] = d
    BY <1>2, <1>3
  <1>6. Drawn(w) = {work[w].q} /\ Drawn(w)' = Drawn(w) \cup {lastId + 1}
    BY <1>1, <1>2, <1>4, <1>5 DEF Drawn, Saving, At
  <1>7. \A m \in messages : m.id \in 1..lastId /\ m.turn \in 1..lastId
    BY DEF IndInv, MessageInv
  <1>8. TurnFacts(w)'
    <2>1. work[w].q \in 1..lastId
      BY <1>2, <1>6 DEF TurnFacts
    <2>2. Drawn(w)' \subseteq 1..lastId'
      BY <1>1, <1>2, <1>6, <2>1
    <2>3. \A m \in messages' : m.id \notin Drawn(w)' /\ m.turn \notin Drawn(w)'
      BY <1>1, <1>2, <1>6, <1>7 DEF TurnFacts
    <2>4. \A m \in messages : m.thread = work[w].thread => m.id < work[w].q
      BY <1>2, <1>6 DEF TurnFacts, Of
    <2>5. \A m \in messages' : m.thread = work'[w].thread => m.id < work'[w].q
      BY <1>1, <1>4, <1>5, <2>4
    <2>6. work'[w].q < work'[w].a
      BY <1>2, <1>4, <1>5, <2>1
    <2> QED BY <2>2, <2>3, <2>5, <2>6 DEF TurnFacts, Of
  <1> QED BY <1>1, <1>2, <1>3, <1>4, <1>6, <1>8, DrawStep DEF At

-----------------------------------------------------------------------------
\* A call ends: what the others hold, and the ids they drew, are as before.
LEMMA EndKept ==
    ASSUME IndInv, NEW w \in Workers, End(w)
    PROVE  /\ work'[w] = NoWork /\ \A v \in Workers : v # w => work'[v] = work[v]
           /\ work' \in [Workers -> Work]
           /\ Drawn(w)' = {} /\ \A v \in Workers : v # w => Drawn(v)' = Drawn(v)
           /\ ApartInv'
  <1>1. /\ work'[w] = NoWork /\ \A v \in Workers : v # w => work'[v] = work[v]
        /\ work' \in [Workers -> Work]
    BY NoWorkTyped DEF End, IndInv, TypeOK
  <1>2. Drawn(w)' = {} /\ \A v \in Workers : v # w => Drawn(v)' = Drawn(v)
    BY <1>1 DEF Drawn, Saving, At, NoWork
  <1>3. ASSUME NEW u \in Workers, NEW v \in Workers, u # v PROVE Apart(u, v)'
    <2>1. Apart(u, v)
      BY <1>3 DEF IndInv, ApartInv
    <2>2. \A x \in Workers : /\ work'[x].holds \subseteq work[x].holds
                             /\ Drawn(x)' \subseteq Drawn(x)
                             /\ work'[x].pc \in ChangeSteps => work'[x] = work[x]
      BY <1>1, <1>2 DEF NoWork, ChangeSteps
    <2> QED BY <2>1, <2>2 DEF Apart
  <1> QED BY <1>1, <1>2, <1>3 DEF ApartInv

\* The facts of a call that is over.
LEMMA IdleFacts ==
    ASSUME NEW w \in Workers, work'[w] = NoWork, Drawn(w)' = {}
    PROVE  CallFacts(w)' /\ TurnFacts(w)' /\ ChangeFacts(w)'
  BY DEF CallFacts, TurnFacts, ChangeFacts, ChangeSteps, Saving, At, NoWork

\* What two calls recall does not depend on the tables any more.
LEMMA RecalledKept ==
    ASSUME IndInv, NEW w \in Workers, End(w), \A m \in messages' : Owns(m.thread, m.author)'
    PROVE  ThreadsArePrivate'
  <1>1. \A v \in Workers : work'[v] = NoWork \/ work'[v] = work[v]
    BY EndKept
  <1> QED BY <1>1 DEF IndInv, ThreadsArePrivate, NoWork

\* The two messages of a turn.
LEMMA MessagesOfTurn ==
    ASSUME IndInv, NEW w \in Workers, At(w, "commit"), Saving(w), NEW role \in {"user", "assistant"}
    PROVE  /\ MessageOf(w, role) \in Message
           /\ MessageOf(w, role).id = (IF role = "user" THEN work[w].q ELSE work[w].a)
           /\ MessageOf(w, role).thread = work[w].thread /\ MessageOf(w, role).role = role
           /\ MessageOf(w, role).author = work[w].user /\ MessageOf(w, role).turn = work[w].q
           /\ MessageOf(w, role).edited = FALSE /\ MessageOf(w, role).created_at = work[w].begun
  <1>1. /\ work[w].q \in Nat /\ work[w].a \in Nat /\ work[w].begun \in Nat
        /\ work[w].user \in Users /\ work[w].thread \in Threads
    BY DEF IndInv, TypeOK, WorkInv, CallFacts, At, Work
  <1> QED BY <1>1 DEF MessageOf, Message

\* A conversation without an owner gets one; all others keep theirs.
LEMMA OwnerKept ==
    ASSUME IndInv, NEW w \in Workers, Commit(w)
    PROVE  /\ owner' \in [Threads -> Users \cup {"nobody"}]
           /\ \A t \in Threads : owner[t] # "nobody" \/ t # work[w].thread => owner'[t] = owner[t]
           /\ owner[work[w].thread] = "nobody" => owner'[work[w].thread] = work[w].user
           /\ work[w].user \in Users /\ work[w].thread \in Threads
  <1>1. work[w].user \in Users /\ work[w].thread \in Threads
    BY DEF Commit, IndInv, WorkInv, CallFacts, At
  <1>2. owner \in [Threads -> Users \cup {"nobody"}]
    BY DEF IndInv, TypeOK
  <1>3. owner' = [owner EXCEPT ![work[w].thread] = IF @ = "nobody" THEN work[w].user ELSE @]
    BY DEF Commit
  <1> QED BY <1>1, <1>2, <1>3

\* A load commits: at most the conversation is new.
LEMMA CommitLoadStep ==
    ASSUME IndInv, NEW w \in Workers, Commit(w), work[w].kind = "load"
    PROVE  IndInv'
  <1>1. /\ At(w, "commit") /\ End(w) /\ messages' = messages /\ memories' = memories
        /\ UNCHANGED <<lastId, now>>
    BY DEF Commit
  <1>2. TypeOK'
    BY <1>1, EndKept, OwnerKept DEF IndInv, TypeOK
  <1>3. WorkInv'
    <2>1. ASSUME NEW v \in Workers, v # w PROVE (CallFacts(v) /\ TurnFacts(v) /\ ChangeFacts(v))'
      <3>1. /\ work'[v] = work[v] /\ Drawn(v)' = Drawn(v)
            /\ CallFacts(v) /\ TurnFacts(v) /\ ChangeFacts(v) /\ Apart(v, w)
        BY <1>1, <2>1, EndKept DEF IndInv, WorkInv, ApartInv
      <3>2. work[w].thread \in work[w].holds
        BY <1>1 DEF IndInv, WorkInv, CallFacts, At
      <3>3. CallFacts(v)'
        BY <3>1, <3>2, OwnerKept DEF CallFacts, Apart, Saving, At
      <3>4. TurnFacts(v)' /\ ChangeFacts(v)'
        BY <1>1, <3>1 DEF TurnFacts, ChangeFacts, Saving, At, Of
      <3> QED BY <3>3, <3>4
    <2>2. CallFacts(w)' /\ TurnFacts(w)' /\ ChangeFacts(w)'
      BY <1>1, EndKept, IdleFacts
    <2> QED BY <2>1, <2>2 DEF WorkInv
  <1>4. ApartInv'
    BY <1>1, EndKept
  <1>5. MessageInv' /\ AnswersFitQuestions'
    BY <1>1 DEF IndInv, MessageInv, AnswersFitQuestions
  <1>6. ThreadsArePrivate'
    <2>1. ASSUME NEW m \in messages PROVE owner'[m.thread] = m.author
      <3>1. owner[m.thread] = m.author /\ m.author \in Users /\ m.thread \in Threads
        BY DEF IndInv, TypeOK, ThreadsArePrivate, Owns, Message
      <3> QED BY <3>1, OwnerKept, MemoryAssumption
    <2> QED BY <1>1, <2>1, RecalledKept DEF Owns
  <1> QED BY <1>2, <1>3, <1>4, <1>5, <1>6 DEF IndInv

\* A turn commits: its two messages are the newest of its thread.
LEMMA CommitTurnStep ==
    ASSUME IndInv, NEW w \in Workers, Commit(w), work[w].kind # "load"
    PROVE  IndInv'
  <1> DEFINE t == work[w].thread
             q == work[w].q
             a == work[w].a
             question == MessageOf(w, "user")
             answer == MessageOf(w, "assistant")
  <1>1. /\ At(w, "commit") /\ End(w) /\ messages' = messages \cup {question, answer}
        /\ UNCHANGED <<lastId, now>>
        /\ memories' \in {memories, memories \cup {[user |-> work[w].user, turn |-> q]}}
    BY DEF Commit
  <1>2. /\ Saving(w) /\ CallFacts(w) /\ TurnFacts(w) /\ t \in work[w].holds
        /\ owner[t] \in {"nobody", work[w].user} /\ t \in Threads /\ work[w].user \in Users
    BY <1>1 DEF IndInv, WorkInv, CallFacts, Saving, At
  <1>3. /\ Drawn(w) = {q, a} /\ q \in 1..lastId /\ a \in 1..lastId /\ q < a
        /\ q \in Nat /\ a \in Nat
    <2>1. Drawn(w) = {q, a}
      BY <1>1, <1>2 DEF Drawn, At
    <2>2. lastId \in Nat
      BY DEF IndInv, TypeOK
    <2> QED BY <1>1, <1>2, <2>1, <2>2 DEF TurnFacts
  <1>4. /\ question \in Message /\ question.id = q /\ question.thread = t
        /\ question.role = "user" /\ question.author = work[w].user
        /\ question.turn = q /\ question.edited = FALSE
        /\ question.created_at = work[w].begun
    BY <1>1, <1>2, MessagesOfTurn
  <1>5. /\ answer \in Message /\ answer.id = a /\ answer.thread = t
        /\ answer.role = "assistant" /\ answer.author = work[w].user
        /\ answer.turn = q /\ answer.edited = FALSE
        /\ answer.created_at = work[w].begun
    BY <1>1, <1>2, MessagesOfTurn
  <1>6. \A m \in messages : /\ m.id # q /\ m.id # a /\ m.turn # q /\ m.id \in Nat
                            /\ m.thread = t => m.id < q
    <2>1. \A m \in messages : m.id \in Nat
      BY DEF IndInv, TypeOK, Message
    <2>2. \A m \in messages : m.id \notin {q, a} /\ m.turn \notin {q, a}
      BY <1>2, <1>3 DEF TurnFacts
    <2>3. \A m \in messages : m.thread = t => m.id < q
      BY <1>2, <1>3 DEF TurnFacts, Of
    <2> QED BY <2>1, <2>2, <2>3
  <1>7. ASSUME NEW v \in Workers, v # w
        PROVE  /\ work'[v] = work[v] /\ Drawn(v)' = Drawn(v) /\ Apart(v, w) /\ Apart(w, v)
               /\ CallFacts(v) /\ TurnFacts(v) /\ ChangeFacts(v)
    BY <1>1, <1>7, EndKept DEF IndInv, WorkInv, ApartInv
  <1>8. CallFacts(w)' /\ TurnFacts(w)' /\ ChangeFacts(w)'
    BY <1>1, EndKept, IdleFacts
  <1> HIDE DEF question, answer, t, q, a
  <1>9. TypeOK'
    <2>1. memories' \subseteq LongMemory
      BY <1>1, <1>2, <1>3 DEF IndInv, TypeOK, LongMemory
    <2> QED BY <1>1, <1>4, <1>5, <2>1, EndKept, OwnerKept DEF IndInv, TypeOK
  <1>10. WorkInv'
    <2>1. ASSUME NEW v \in Workers, v # w PROVE (CallFacts(v) /\ TurnFacts(v) /\ ChangeFacts(v))'
      <3>1. CallFacts(v)'
        BY <1>2, <1>7, <2>1, OwnerKept DEF CallFacts, Apart, Saving, At, t
      <3>2. TurnFacts(v)'
        <4>1. Drawn(v) # {} => work[v].thread # t
          BY <1>2, <1>7, <2>1 DEF CallFacts, Apart, Drawn, Saving, At
        <4>2. q \notin Drawn(v) /\ a \notin Drawn(v)
          BY <1>3, <1>7, <2>1 DEF Apart
        <4> QED BY <1>1, <1>4, <1>5, <1>7, <2>1, <4>1, <4>2 DEF TurnFacts, Saving, At, Of
      <3>3. ChangeFacts(v)'
        <4>1. work[v].pc \in ChangeSteps => work[v].q # q /\ work[v].a # q
          BY <1>3, <1>7, <2>1 DEF Apart
        <4> QED BY <1>1, <1>4, <1>5, <1>7, <2>1, <4>1 DEF ChangeFacts, ChangeSteps
      <3> QED BY <3>1, <3>2, <3>3
    <2> QED BY <1>8, <2>1 DEF WorkInv
  <1>11. ApartInv'
    BY <1>1, EndKept
  <1>12. MessageInv'
    <2>1. /\ \A m \in messages' : m.id \in 1..lastId' /\ m.turn \in 1..lastId'
          /\ \A m \in messages' : m.role = "user" => m.id = m.turn
      BY <1>1, <1>3, <1>4, <1>5 DEF IndInv, MessageInv
    <2>2. ASSUME NEW n \in messages', n.role = "assistant"
          PROVE  /\ n.turn < n.id
                 /\ \A o \in messages' : o.thread = n.thread => ~(n.turn < o.id /\ o.id < n.id)
      <3>1. CASE n \in messages
        <4>1. /\ n.turn < n.id
              /\ \A o \in messages : o.thread = n.thread => ~(n.turn < o.id /\ o.id < n.id)
          BY <2>2, <3>1 DEF IndInv, MessageInv
        <4>2. n.thread = t => n.id < q
          BY <1>6, <3>1
        <4> QED BY <1>1, <1>3, <1>4, <1>5, <1>6, <3>1, <4>1, <4>2
      <3>2. CASE n = answer
        BY <1>1, <1>3, <1>4, <1>5, <1>6, <3>2
      <3> QED BY <1>1, <1>4, <2>2, <3>1, <3>2
    <2>3. ASSUME NEW m \in messages', NEW n \in messages'
          PROVE  /\ m.turn = n.turn => m.thread = n.thread /\ m.created_at = n.created_at
                 /\ m.id = n.id => m.role = n.role
      BY <1>1, <1>3, <1>4, <1>5, <1>6 DEF IndInv, MessageInv
    <2> QED BY <2>1, <2>2, <2>3 DEF MessageInv
  <1>13. AnswersFitQuestions'
    BY <1>1, <1>4, <1>5 DEF IndInv, AnswersFitQuestions
  <1>14. ThreadsArePrivate'
    <2>1. ASSUME NEW m \in messages PROVE owner'[m.thread] = m.author
      <3>1. owner[m.thread] = m.author /\ m.author \in Users /\ m.thread \in Threads
        BY DEF IndInv, TypeOK, ThreadsArePrivate, Owns, Message
      <3> QED BY <3>1, OwnerKept, MemoryAssumption
    <2>2. owner'[t] = work[w].user
      BY <1>2, OwnerKept, MemoryAssumption DEF t
    <2>3. \A m \in messages' : owner'[m.thread] = m.author
      BY <1>1, <1>4, <1>5, <2>1, <2>2
    <2> QED BY <1>1, <2>3, RecalledKept DEF Owns
  <1> QED BY <1>9, <1>10, <1>11, <1>12, <1>13, <1>14 DEF IndInv

-----------------------------------------------------------------------------
\* The messages that stay are those there were, but for the one that was edited.
LEMMA TouchKeeps ==
    ASSUME IndInv, NEW w \in Workers, Touch(w), NEW m \in messages'
    PROVE  \E n \in messages :
              /\ m.id = n.id /\ m.thread = n.thread /\ m.role = n.role /\ m.author = n.author
              /\ m.turn = n.turn /\ m.created_at = n.created_at
              /\ m \in Message /\ m.id # work[w].a
              /\ work[w].kind # "edit" => m.id # work[w].q
  <1> DEFINE kept == {n \in messages : n.id # work[w].a}
  <1>1. messages \subseteq Message
    BY DEF IndInv, TypeOK
  <1>2. CASE work[w].kind = "edit"
    <2>1. PICK n \in kept : m = [n EXCEPT !.edited = @ \/ n.id = work[w].q]
      BY <1>2 DEF Touch
    <2>2. n \in Message /\ n \in messages /\ n.id # work[w].a
      BY <1>1
    <2>3. /\ m.id = n.id /\ m.thread = n.thread /\ m.role = n.role /\ m.author = n.author
          /\ m.turn = n.turn /\ m.created_at = n.created_at /\ m \in Message
      BY <2>1, <2>2 DEF Message
    <2> QED BY <1>2, <2>2, <2>3
  <1>3. CASE work[w].kind # "edit"
    <2>1. m \in kept /\ m.id # work[w].q
      BY <1>3 DEF Touch
    <2> QED BY <1>1, <2>1
  <1> QED BY <1>2, <1>3

\* A question that is neither removed nor edited stays as it is.
LEMMA TouchLeaves ==
    ASSUME IndInv, NEW w \in Workers, Touch(w), NEW m \in messages,
           m.id # work[w].a, m.id # work[w].q, ~m.edited
    PROVE  m \in messages'
  <1>1. m \in Message
    BY DEF IndInv, TypeOK
  <1>2. [m EXCEPT !.edited = m.edited \/ m.id = work[w].q] = m
    <2>1. m.edited = FALSE /\ (m.edited \/ m.id = work[w].q) = FALSE
      BY <1>1 DEF Message
    <2> QED BY <1>1, <2>1 DEF Message
  <1>3. CASE work[w].kind = "edit"
    <2>1. messages' = {[n EXCEPT !.edited = @ \/ n.id = work[w].q] :
                          n \in {o \in messages : o.id # work[w].a}}
      BY <1>3 DEF Touch
    <2> QED BY <1>2, <2>1
  <1>4. CASE work[w].kind # "edit"
    BY <1>4 DEF Touch
  <1> QED BY <1>3, <1>4

\* An edit or a deletion commits, and takes with it the answer of its turn
\* (update_user_message, delete_user_turn).
LEMMA TouchStep ==
    ASSUME IndInv, NEW w \in Workers, Touch(w)
    PROVE  IndInv'
  <1>1. At(w, "touch") /\ End(w) /\ UNCHANGED <<owner, memories, lastId, now>>
    BY DEF Touch
  <1>2. messages' \subseteq Message
    BY TouchKeeps
  <1>3. TypeOK'
    BY <1>1, <1>2, EndKept DEF IndInv, TypeOK
  <1>4. WorkInv'
    <2>1. ASSUME NEW v \in Workers, v # w PROVE (CallFacts(v) /\ TurnFacts(v) /\ ChangeFacts(v))'
      <3>1. /\ work'[v] = work[v] /\ Drawn(v)' = Drawn(v)
            /\ CallFacts(v) /\ TurnFacts(v) /\ ChangeFacts(v)
        BY <1>1, <2>1, EndKept DEF IndInv, WorkInv
      <3>2. CallFacts(v)'
        BY <1>1, <3>1 DEF CallFacts, Saving, At
      <3>3. TurnFacts(v)'
        BY <1>1, <3>1, TouchKeeps DEF TurnFacts, Saving, At, Of
      <3>4. ChangeFacts(v)'
        BY <1>1, <3>1, TouchKeeps DEF ChangeFacts
      <3> QED BY <3>2, <3>3, <3>4
    <2>2. CallFacts(w)' /\ TurnFacts(w)' /\ ChangeFacts(w)'
      BY <1>1, EndKept, IdleFacts
    <2> QED BY <2>1, <2>2 DEF WorkInv
  <1>5. ApartInv'
    BY <1>1, EndKept
  <1>6. MessageInv'
    <2>1. /\ \A m \in messages' : m.id \in 1..lastId' /\ m.turn \in 1..lastId'
          /\ \A m \in messages' : m.role = "user" => m.id = m.turn
      BY <1>1, TouchKeeps DEF IndInv, MessageInv
    <2>2. ASSUME NEW n \in messages', n.role = "assistant"
          PROVE  /\ n.turn < n.id
                 /\ \A o \in messages' : o.thread = n.thread => ~(n.turn < o.id /\ o.id < n.id)
      BY <2>2, TouchKeeps DEF IndInv, MessageInv
    <2>3. ASSUME NEW m \in messages', NEW n \in messages'
          PROVE  /\ m.turn = n.turn => m.thread = n.thread /\ m.created_at = n.created_at
                 /\ m.id = n.id => m.role = n.role
      BY TouchKeeps DEF IndInv, MessageInv
    <2> QED BY <2>1, <2>2, <2>3 DEF MessageInv
  <1>7. AnswersFitQuestions'
    <2>1. ASSUME NEW n \in messages', n.role = "assistant"
          PROVE  \E m \in messages' : m.role = "user" /\ m.turn = n.turn /\ ~m.edited
      <3>1. PICK o \in messages : /\ o.id = n.id /\ o.role = "assistant" /\ o.turn = n.turn
                                  /\ n.id # work[w].a
        BY <2>1, TouchKeeps
      <3>2. ChangeFacts(w) /\ At(w, "touch")
        BY <1>1 DEF IndInv, WorkInv
      <3>3. o.turn # work[w].q
        BY <3>1, <3>2 DEF ChangeFacts, At
      <3>4. PICK m \in messages : m.role = "user" /\ m.turn = o.turn /\ ~m.edited
        BY <3>1 DEF IndInv, AnswersFitQuestions
      <3>5. m.id = m.turn /\ m.id # work[w].a
        BY <3>2, <3>4 DEF IndInv, MessageInv, ChangeFacts, ChangeSteps, At
      <3>6. m \in messages'
        BY <3>3, <3>4, <3>5, TouchLeaves
      <3> QED BY <3>1, <3>4, <3>6
    <2> QED BY <2>1 DEF AnswersFitQuestions
  <1>8. ThreadsArePrivate'
    <2>1. \A m \in messages' : owner'[m.thread] = m.author
      BY <1>1, TouchKeeps DEF IndInv, ThreadsArePrivate, Owns
    <2> QED BY <1>1, <2>1, RecalledKept DEF Owns
  <1> QED BY <1>3, <1>4, <1>5, <1>6, <1>7, <1>8 DEF IndInv

-----------------------------------------------------------------------------
\* Nothing changes at all.
LEMMA StutterStep ==
    ASSUME IndInv, UNCHANGED vars
    PROVE  IndInv'
  <1>1. \A w \in Workers : Drawn(w)' = Drawn(w)
    BY DEF vars, Drawn, Saving, At
  <1>2. TypeOK' /\ MessageInv' /\ ThreadsArePrivate' /\ AnswersFitQuestions'
    BY DEF vars, IndInv, TypeOK, MessageInv, ThreadsArePrivate, AnswersFitQuestions, Owns
  <1>3. WorkInv'
    BY <1>1 DEF vars, IndInv, WorkInv, CallFacts, TurnFacts, ChangeFacts, Saving, At, Of
  <1>4. ApartInv'
    BY <1>1 DEF vars, IndInv, ApartInv, Apart
  <1> QED BY <1>2, <1>3, <1>4 DEF IndInv

\* Every step keeps the invariant.
LEMMA NextIndInv == IndInv /\ [Next]_vars => IndInv'
  <1> SUFFICES ASSUME IndInv, [Next]_vars PROVE IndInv'
    OBVIOUS
  <1>1. ASSUME NEW w \in Workers, WorkStep(w) PROVE IndInv'
    <2>1. CASE Commit(w)
      BY <2>1, CommitLoadStep, CommitTurnStep
    <2>2. CASE BreakDeadlock(w)
      BY <2>2, EndStep DEF BreakDeadlock
    <2> QED BY <1>1, <2>1, <2>2, EnsureStep, RecallStep, SearchStep, QuestionStep, AnswerStep,
               FindStep, UpdateStep, SelectStep, DropStep, RemoveStep, TouchStep DEF WorkStep
  <1>2. ASSUME NEW w \in Workers, Fail(w) PROVE IndInv'
    BY <1>2, EndStep DEF Fail
  <1>3. CASE UNCHANGED vars
    BY <1>3, StutterStep
  <1> QED BY <1>1, <1>2, <1>3, BeginStep, BeginChangeStep DEF Next

\* Conversations, messages and calls stay consistent with each other.
THEOREM Inductive == Spec => []IndInv
  BY InitIndInv, NextIndInv, PTL DEF Spec

\* The tables and the transactions stay well formed (memory/store.py).
THEOREM TypeCorrect == Spec => []TypeOK
  <1>1. IndInv => TypeOK
    BY DEF IndInv
  <1> QED BY <1>1, Inductive, PTL

\* Nobody reads or writes in a thread of another user (ensure_conversation,
\* get_short_memory, search_long_memories).
THEOREM ThreadsStayPrivate == Spec => []ThreadsArePrivate
  <1>1. IndInv => ThreadsArePrivate
    BY DEF IndInv
  <1> QED BY <1>1, Inductive, PTL

\* A question and its answer are neighbours, because the turns of a thread wait
\* for each other at its conversation (save_memory_turn, ensure_conversation).
THEOREM TurnsAreNeighbours == Spec => []TurnsStayTogether
  <1>1. IndInv => TurnsStayTogether
    BY DEF IndInv, MessageInv, TurnsStayTogether
  <1> QED BY <1>1, Inductive, PTL

\* No answer outlives its question, or an edit of it (update_user_message,
\* delete_user_turn).
THEOREM AnswersStayWithQuestions == Spec => []AnswersFitQuestions
  <1>1. IndInv => AnswersFitQuestions
    BY DEF IndInv
  <1> QED BY <1>1, Inductive, PTL

\* A thread never changes hands (ensure_conversation).
THEOREM OwnersAreKept == Spec => OwnersStay
  <1>1. IndInv /\ [Next]_vars => [\A t \in Threads : owner[t] = "nobody" \/ owner'[t] = owner[t]]_owner
    <2> SUFFICES ASSUME IndInv, Next, owner' # owner, NEW t \in Threads, owner[t] # "nobody"
                 PROVE  owner'[t] = owner[t]
      BY DEF vars
    <2>1. PICK w \in Workers : Commit(w)
      BY DEF Next, Begin, BeginChange, WorkStep, Fail, BreakDeadlock, Ensure, Recall, Search,
             Question, Answer, Find, Update, Select, Drop, Remove, Touch
    <2> QED BY <2>1, OwnerKept
  <1> QED BY <1>1, Inductive, PTL DEF Spec, OwnersStay
=============================================================================
