------------------------- MODULE ConversationMemory -------------------------
(***************************************************************************)
(* The conversation memory: memory/service.py over the tables of           *)
(* memory/store.py, as the questions, the confirmed actions and the thread *)
(* routes (api/threads.py) use it.                                         *)
(*                                                                         *)
(* Every function of the service is one READ COMMITTED transaction, run by *)
(* a worker.  A transaction's rows are locked from its first write of them *)
(* to its end, its own writes appear when it commits.  ensure_conversation *)
(* is an INSERT ... ON CONFLICT DO UPDATE, which locks the conversation    *)
(* even where its WHERE refuses another user.  Ids of messages come from a *)
(* sequence, one by one; created_at is the time the transaction began.     *)
(*                                                                         *)
(* The database ends a cycle of waiting transactions by failing one.  The  *)
(* service swallows every failure; a failed edit or deletion is a 404.     *)
(*                                                                         *)
(* An operator right before the definition it resembles, with a qualified  *)
(* name (EnsureDoNothing, ...), is a defect the properties must notice.    *)
(***************************************************************************)
EXTENDS Integers, FiniteSets

CONSTANTS
    Users, Threads,
    Workers,              \* concurrent calls of the service
    MaxTurns,             \* bound: turns ever begun, the clock of created_at
    SHORT_MEMORY_LIMIT, LONG_MEMORY_LIMIT

ASSUME MemoryAssumption ==
    /\ "nobody" \notin Users /\ "none" \notin Threads
    /\ Threads \cap Nat = {}
    /\ MaxTurns \in Nat /\ SHORT_MEMORY_LIMIT \in Nat /\ LONG_MEMORY_LIMIT \in Nat

VARIABLES
    owner,      \* table conversations: thread -> user_id, or "nobody"
    messages,   \* table conversation_messages
    memories,   \* table long_memories, each named by its user and its turn
    lastId,     \* the sequence of message ids
    now,        \* the clock of created_at
    work        \* the transaction of each worker

vars == <<owner, messages, memories, lastId, now, work>>

-----------------------------------------------------------------------------
Message == [id : Nat, thread : Threads, role : {"user", "assistant"}, author : Users,
            turn : Nat, edited : BOOLEAN, created_at : Nat]
LongMemory == [user : Users, turn : Nat]

Kinds == {"load", "ask", "action", "edit", "delete"}
Steps == {"idle", "ensure", "recall", "search", "question", "answer", "commit",
          "find", "update", "select", "drop", "remove", "touch"}

Work == [pc : Steps, kind : Kinds \cup {"none"}, user : Users \cup {"nobody"},
         thread : Threads \cup {"none"}, begun : Nat, q : Nat, a : Nat,
         holds : SUBSET (Threads \cup Nat), saw : SUBSET Message, long : SUBSET LongMemory]
NoWork == [pc |-> "idle", kind |-> "none", user |-> "nobody", thread |-> "none", begun |-> 0,
           q |-> 0, a |-> 0, holds |-> {}, saw |-> {}, long |-> {}]

Free(w, row) == \A v \in Workers \ {w} : row \notin work[v].holds
Owns(t, u) == owner[t] = u
At(w, pc) == work[w].pc = pc

\* The transaction goes on, with a row locked or none.
Goto(w, pc) == work' = [work EXCEPT ![w].pc = pc]
Locking(w, row, pc) == work' = [work EXCEPT ![w].pc = pc, ![w].holds = @ \cup {row}]
\* It commits or is rolled back: its locks are gone.
End(w) == work' = [work EXCEPT ![w] = NoWork]

\* The message of an id, if it is there, and the messages of a thread.
Row(id) == {m \in messages : m.id = id}
Of(t) == {m \in messages : m.thread = t}
\* get_thread_messages: the thread routes show them to its owner only.
ThreadMessages(t, u) == {m \in Of(t) : Owns(t, u)}
Questions(t, u) == {m \in ThreadMessages(t, u) : m.role = "user"}

-----------------------------------------------------------------------------
\* A call begins: save_memory_turn and record_mcp_action_turn, with the time
\* of their transaction, and load_memory_context.
Begin(w, kind, u, t) ==
    /\ At(w, "idle")
    /\ IF kind = "load" THEN UNCHANGED now ELSE now < MaxTurns /\ now' = now + 1
    /\ work' = [work EXCEPT ![w] = [NoWork EXCEPT !.pc = "ensure", !.kind = kind, !.user = u,
                                                  !.thread = t,
                                 !.begun = IF kind = "load" THEN 0 ELSE now']]
    /\ UNCHANGED <<owner, messages, memories, lastId>>

\* update_thread_user_message and delete_thread_user_turn, of any message id.
BeginChange(w, kind, u, t, id) ==
    /\ At(w, "idle")
    /\ work' = [work EXCEPT ![w] = [NoWork EXCEPT !.pc = "find", !.kind = kind, !.user = u,
                                                  !.thread = t, !.q = id]]
    /\ UNCHANGED <<owner, messages, memories, lastId, now>>

EnsureDoNothing(w) ==
    LET t == work[w].thread
        next == IF work[w].kind = "load" THEN "recall" ELSE "question" IN
    /\ At(w, "ensure")
    /\ IF Owns(t, work[w].user) THEN Goto(w, next)
       ELSE /\ Free(w, t)
            /\ IF next = "recall" \/ owner[t] = "nobody" THEN Locking(w, t, next) ELSE End(w)
    /\ UNCHANGED <<owner, messages, memories, lastId, now>>

EnsureForAnyone(w) ==
    LET t == work[w].thread IN
    /\ At(w, "ensure")
    /\ Free(w, t)
    /\ Locking(w, t, IF work[w].kind = "load" THEN "recall" ELSE "question")
    /\ UNCHANGED <<owner, messages, memories, lastId, now>>

\* ensure_conversation: a turn is not saved in a thread of another user; a load
\* goes on whatever comes of it.
Ensure(w) ==
    LET t == work[w].thread IN
    /\ At(w, "ensure")
    /\ Free(w, t)
    /\ IF work[w].kind = "load" THEN Locking(w, t, "recall")
       ELSE IF owner[t] \in {"nobody", work[w].user} THEN Locking(w, t, "question")
       ELSE End(w)
    /\ UNCHANGED <<owner, messages, memories, lastId, now>>

\* get_short_memory: the newest messages, by created_at and id.
History(t, u) ==
    LET own == ThreadMessages(t, u)
        NewerThan(m) == {n \in own : \/ n.created_at > m.created_at
                                     \/ n.created_at = m.created_at /\ n.id > m.id} IN
    {m \in own : Cardinality(NewerThan(m)) < SHORT_MEMORY_LIMIT}

Recall(w) ==
    /\ At(w, "recall")
    /\ work' = [work EXCEPT ![w].pc = "search", ![w].saw = History(work[w].thread, work[w].user)]
    /\ UNCHANGED <<owner, messages, memories, lastId, now>>

\* search_long_memories, once the question is embedded: any nearest of the
\* memories of the user, from whichever threads they are.
Nearest(u) ==
    LET own == {m \in memories : m.user = u} IN
    {near \in SUBSET own : \/ Cardinality(near) = LONG_MEMORY_LIMIT
                           \/ near = own /\ Cardinality(own) < LONG_MEMORY_LIMIT}

Search(w) ==
    /\ At(w, "search")
    /\ \E near \in Nearest(work[w].user) :
          work' = [work EXCEPT ![w].pc = "commit", ![w].long = near]
    /\ UNCHANGED <<owner, messages, memories, lastId, now>>

\* The flush of the two messages: each draws its id from the sequence.
Question(w) ==
    /\ At(w, "question")
    /\ lastId' = lastId + 1
    /\ work' = [work EXCEPT ![w].pc = "answer", ![w].q = lastId + 1]
    /\ UNCHANGED <<owner, messages, memories, now>>

Answer(w) ==
    /\ At(w, "answer")
    /\ lastId' = lastId + 1
    /\ work' = [work EXCEPT ![w].pc = "commit", ![w].a = lastId + 1]
    /\ UNCHANGED <<owner, messages, memories, now>>

\* add_message, twice for a turn.
MessageOf(w, role) ==
    [id |-> IF role = "user" THEN work[w].q ELSE work[w].a, thread |-> work[w].thread,
     role |-> role, author |-> work[w].user, turn |-> work[w].q, edited |-> FALSE,
     created_at |-> work[w].begun]

\* Commit of a load, which has at most created the conversation, or of a turn,
\* with the long-term memory of a question.
Commit(w) ==
    LET t == work[w].thread IN
    /\ At(w, "commit")
    /\ owner' = [owner EXCEPT ![t] = IF @ = "nobody" THEN work[w].user ELSE @]
    /\ messages' = IF work[w].kind = "load" THEN messages
                   ELSE messages \cup {MessageOf(w, "user"), MessageOf(w, "assistant")}
    /\ memories' = IF work[w].kind # "ask" THEN memories
                   ELSE memories \cup {[user |-> work[w].user, turn |-> work[w].q]}
    /\ End(w)
    /\ UNCHANGED <<lastId, now>>

-----------------------------------------------------------------------------
\* _owned_question
Find(w) ==
    /\ At(w, "find")
    /\ IF \E m \in Questions(work[w].thread, work[w].user) : m.id = work[w].q
       THEN Goto(w, IF work[w].kind = "edit" THEN "update" ELSE "select")
       ELSE End(w)
    /\ UNCHANGED <<owner, messages, memories, lastId, now>>

\* The content of the question is flushed before the next query; a row that is
\* gone by then fails the update.
Update(w) ==
    /\ At(w, "update")
    /\ Free(w, work[w].q)
    /\ IF Row(work[w].q) = {} THEN End(w) ELSE Locking(w, work[w].q, "select")
    /\ UNCHANGED <<owner, messages, memories, lastId, now>>

LastAnswer(t, q) == {m \in Of(t) : m.role = "assistant" /\ m.id > q
                                   /\ \A n \in Of(t) : n.role = "assistant" => n.id <= m.id}

\* _delete_answer_after: the first answer with a greater id ...
AnswerAfter(t, q) ==
    {m \in Of(t) : /\ m.role = "assistant" /\ m.id > q
                   /\ \A n \in Of(t) : n.role = "assistant" /\ n.id > q => m.id <= n.id}

Select(w) ==
    /\ At(w, "select")
    /\ LET found == AnswerAfter(work[w].thread, work[w].q) IN
       IF found = {} THEN Goto(w, IF work[w].kind = "edit" THEN "touch" ELSE "remove")
       ELSE \E m \in found : work' = [work EXCEPT ![w].pc = "drop", ![w].a = m.id]
    /\ UNCHANGED <<owner, messages, memories, lastId, now>>

\* ... and its DELETE, which waits for who holds the row and may find it gone.
Drop(w) ==
    /\ At(w, "drop")
    /\ Free(w, work[w].a)
    /\ Locking(w, work[w].a, IF work[w].kind = "edit" THEN "touch" ELSE "remove")
    /\ UNCHANGED <<owner, messages, memories, lastId, now>>

\* delete_user_turn deletes the question after the answer.
Remove(w) ==
    /\ At(w, "remove")
    /\ Free(w, work[w].q)
    /\ Locking(w, work[w].q, "touch")
    /\ UNCHANGED <<owner, messages, memories, lastId, now>>

\* _touch_conversation waits for the conversation; then the change commits.
Touch(w) ==
    LET kept == {m \in messages : m.id # work[w].a} IN
    /\ At(w, "touch")
    /\ Free(w, work[w].thread)
    /\ messages' = IF work[w].kind = "edit"
                   THEN {[m EXCEPT !.edited = @ \/ m.id = work[w].q] : m \in kept}
                   ELSE {m \in kept : m.id # work[w].q}
    /\ End(w)
    /\ UNCHANGED <<owner, memories, lastId, now>>

-----------------------------------------------------------------------------
\* The row a transaction needs next.
Needs(w) ==
    CASE work[w].pc \in {"ensure", "touch"} -> {work[w].thread}
      [] work[w].pc \in {"update", "remove"} -> {work[w].q}
      [] work[w].pc = "drop" -> {work[w].a}
      [] OTHER -> {}

WaitsFor(w, v) == w # v /\ Needs(w) \cap work[v].holds # {}

\* The database fails one of two transactions that wait for each other.
BreakDeadlock(w) ==
    /\ \E v \in Workers : WaitsFor(w, v) /\ WaitsFor(v, w)
    /\ End(w)
    /\ UNCHANGED <<owner, messages, memories, lastId, now>>

FailLeaked(w) ==
    /\ ~At(w, "idle")
    /\ Goto(w, "idle")
    /\ UNCHANGED <<owner, messages, memories, lastId, now>>

\* A transaction fails anywhere, most likely in the embedding of a question or
\* of a turn: everything it wrote is rolled back, and its messages are lost.
Fail(w) ==
    /\ ~At(w, "idle")
    /\ End(w)
    /\ UNCHANGED <<owner, messages, memories, lastId, now>>

-----------------------------------------------------------------------------
Init ==
    /\ owner = [t \in Threads |-> "nobody"]
    /\ messages = {} /\ memories = {}
    /\ lastId = 0 /\ now = 0
    /\ work = [w \in Workers |-> NoWork]

WorkStep(w) ==
    \/ Ensure(w) \/ Recall(w) \/ Search(w) \/ Question(w) \/ Answer(w) \/ Commit(w)
    \/ Find(w) \/ Update(w) \/ Select(w) \/ Drop(w) \/ Remove(w) \/ Touch(w)
    \/ BreakDeadlock(w)

Next ==
    \E w \in Workers :
        \/ \E u \in Users, t \in Threads :
              \/ \E kind \in {"load", "ask", "action"} : Begin(w, kind, u, t)
              \/ \E kind \in {"edit", "delete"}, id \in 1..lastId : BeginChange(w, kind, u, t, id)
        \/ WorkStep(w) \/ Fail(w)

Spec == Init /\ [][Next]_vars

\* A thread of the pool runs each call on; the database wakes who waits for a
\* row and breaks deadlocks.
FairSpec == Spec /\ \A w \in Workers : SF_vars(WorkStep(w))

-----------------------------------------------------------------------------
\* Type invariant: the tables, the sequence, the clock and the transactions.
TypeOK ==
    /\ owner \in [Threads -> Users \cup {"nobody"}]
    /\ messages \subseteq Message
    /\ memories \subseteq LongMemory
    /\ lastId \in Nat /\ now \in Nat
    /\ work \in [Workers -> Work]

\* A thread holds messages of its owner only, and what a call recalls is the
\* user's own, although load_memory_context ignores what ensure_conversation
\* says (test_other_user_cannot_take_over_thread).
ThreadsArePrivate ==
    /\ \A m \in messages : Owns(m.thread, m.author)
    /\ \A w \in Workers : /\ \A m \in work[w].saw : m.author = work[w].user
                          /\ \A m \in work[w].long : m.user = work[w].user

\* A question and its answer are neighbours in their thread, by id and as the
\* thread is shown, however turns were saved at once: only so is the first
\* answer after a question its own (_delete_answer_after).
TurnsStayTogether ==
    \A m, n \in messages :
        m.turn = n.turn /\ m.role = "user" /\ n.role = "assistant" =>
            /\ m.thread = n.thread /\ m.created_at = n.created_at /\ m.id < n.id
            /\ \A o \in messages : ~(o.thread = m.thread /\ m.id < o.id /\ o.id < n.id)

\* An answer is there only with the question it answers, as it was asked
\* (test_editing_question_removes_its_answer,
\* test_deleting_question_removes_whole_turn).
AnswersFitQuestions ==
    \A n \in messages : n.role = "assistant" =>
        \E m \in messages : m.role = "user" /\ m.turn = n.turn /\ ~m.edited

\* A thread never changes hands (ensure_conversation).
OwnersStay == [][\A t \in Threads : owner[t] = "nobody" \/ owner'[t] = owner[t]]_owner

\* Every call ends, although an edit and a deletion of one turn lock its rows
\* in opposite orders (update_user_message, delete_user_turn).
CallsEnd == \A w \in Workers : ~At(w, "idle") ~> At(w, "idle")

(***************************************************************************)
(* A claim of the repository that the code does not keep.                  *)
(***************************************************************************)

\* "test_editing_question_removes_its_answer", "test_deleting_question_removes_
\* whole_turn": an edit or a deletion removes the answer of its own turn only.
OnlyOwnAnswerIsRemoved ==
    [][\A n \in messages :
          n.role = "assistant" /\ (\A o \in messages' : o.id # n.id) =>
              \E w \in Workers : At(w, "touch") /\ work[w].q = n.turn]_messages
=============================================================================
