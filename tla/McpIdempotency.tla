--------------------------- MODULE McpIdempotency ---------------------------
(***************************************************************************)
(* A confirmed calendar action of the MCP gateway: mcp_call of api/mcp.py  *)
(* over the idempotency records of mcp_client/store.py, the tool call of   *)
(* mcp_client/client.py, and the calendar behind it.                       *)
(*                                                                         *)
(* Every store function is a transaction of its own.  mcp_call runs on the *)
(* event loop, but several processes serve the API on one database, so     *)
(* any two calls interleave between transactions.  The claim of a key is   *)
(* an INSERT ... ON CONFLICT DO NOTHING and, if it inserted nothing, a     *)
(* SELECT that sees what was committed in the meantime.                    *)
(*                                                                         *)
(* The calendar is external.  An action sent to it may be served after the *)
(* caller gave up on it, and its answer may be lost.  Of two actions with  *)
(* one transaction id it serves the first; to the second it answers with   *)
(* the event of the first, or with an HTTP error.  The tool of our server, *)
(* create_calendar_event, turns an HTTP error into a result; only a broken *)
(* connection, a timeout or a missing token raises.                        *)
(*                                                                         *)
(* An operator right before the definition it resembles, with a qualified  *)
(* name (AbandonNothing, ...), is a defect the properties must notice.     *)
(***************************************************************************)
EXTENDS FiniteSets

CONSTANTS
    Keys,       \* user, server, tool and key: what _idempotency_key_matches compares
    Requests    \* bound: the calls ever made, each an id of its own

ASSUME IdempotencyAssumption ==
    /\ "none" \notin Keys
    /\ {"none", "http_error", "refused"} \cap Requests = {}

VARIABLES
    records,    \* table mcp_idempotency_records: key -> row, or NoRecord
    audit,      \* status of the mcp_tool_audit_log row a call wrote
    turns,      \* calls whose turn is in the conversation memory
    call,       \* progress of each call of mcp_call
    posts,      \* what each call sent to the calendar, and the answer to it
    calendar    \* events created for each key, named by the call that made them

vars == <<records, audit, turns, call, posts, calendar>>

-----------------------------------------------------------------------------
NoRecord == [status |-> "absent", result |-> "none"]
\* What a tool result says: the event of a call, or a refusal of the calendar.
Results == Requests \cup {"none", "refused"}
Record == [status : {"absent", "in_progress", "succeeded"}, result : Results]

Running == {"inject", "call", "await", "complete", "abandon"}
Steps == Running \cup {"new", "claim", "select", "audit.error", "audit.success",
                       "turn", "ended"}

Call == [pc : Steps, key : Keys \cup {"none"}, result : Results,
         reply : {"none", "created", "replayed", "blocked", "busy", "failed", "lost"}]
NewCall == [pc |-> "new", key |-> "none", result |-> "none", reply |-> "none"]

Post == [at : {"none", "sent", "answered"}, transaction : Keys \cup {"none"},
         answer : Requests \cup {"none", "http_error"}]
NoPost == [at |-> "none", transaction |-> "none", answer |-> "none"]

At(p, pc) == call[p].pc = pc
GoTo(p, pc) == call' = [call EXCEPT ![p].pc = pc]
Reply(p, reply) == call' = [call EXCEPT ![p].pc = "ended", ![p].reply = reply]

ToolManualAllowed(confirmed) == confirmed

-----------------------------------------------------------------------------
\* mcp_call begins.  The calendar tools are enabled by their seeded policies
\* and require a confirmation; an unconfirmed call is audited and refused.
Begin(p, k, confirmed) ==
    /\ At(p, "new")
    /\ IF ToolManualAllowed(confirmed)
       THEN /\ call' = [call EXCEPT ![p] = [NewCall EXCEPT !.pc = "claim", !.key = k]]
            /\ UNCHANGED audit
       ELSE /\ call' = [call EXCEPT ![p] = [NewCall EXCEPT !.pc = "ended", !.key = k,
                                                           !.reply = "blocked"]]
            /\ audit' = [audit EXCEPT ![p] = "blocked"]
    /\ UNCHANGED <<records, turns, posts, calendar>>

ClaimInsertOrTakeOver(p) ==
    /\ At(p, "claim")
    /\ records' = [records EXCEPT ![call[p].key].status = "in_progress"]
    /\ GoTo(p, "inject")
    /\ UNCHANGED <<audit, turns, posts, calendar>>

\* claim_idempotency_key: INSERT the record unless there is one ...
ClaimInsert(p) ==
    LET k == call[p].key IN
    /\ At(p, "claim")
    /\ IF records[k] = NoRecord
       THEN /\ records' = [records EXCEPT ![k].status = "in_progress"]
            /\ GoTo(p, "inject")
       ELSE GoTo(p, "select") /\ UNCHANGED records
    /\ UNCHANGED <<audit, turns, posts, calendar>>

ClaimSelectAnyRecord(p) ==
    /\ At(p, "select")
    /\ call' = [call EXCEPT ![p].pc = "ended", ![p].reply = "replayed",
                            ![p].result = records[call[p].key].result]
    /\ UNCHANGED <<records, audit, turns, posts, calendar>>

\* ... and then SELECT it: replay a success; a record in progress, or one that
\* is gone by now, is a 409.
ClaimSelect(p) ==
    LET record == records[call[p].key] IN
    /\ At(p, "select")
    /\ IF record.status = "succeeded"
       THEN call' = [call EXCEPT ![p].pc = "ended", ![p].reply = "replayed",
                                 ![p].result = record.result]
       ELSE Reply(p, "busy")
    /\ UNCHANGED <<records, audit, turns, posts, calendar>>

\* inject_user_credentials and local_mcp_configs, before the try.
Inject(p) ==
    /\ At(p, "inject")
    /\ GoTo(p, "call")
    /\ UNCHANGED <<records, audit, turns, posts, calendar>>

CallToolWithoutTransaction(p) ==
    /\ At(p, "call")
    /\ posts' = [posts EXCEPT ![p] = [NoPost EXCEPT !.at = "sent"]]
    /\ GoTo(p, "await")
    /\ UNCHANGED <<records, audit, turns, calendar>>

\* call_tool sends the action with the key as its transaction id ...
CallTool(p) ==
    /\ At(p, "call")
    /\ posts' = [posts EXCEPT ![p] = [NoPost EXCEPT !.at = "sent",
                                                    !.transaction = call[p].key]]
    /\ GoTo(p, "await")
    /\ UNCHANGED <<records, audit, turns, calendar>>

\* request_json hands out the body of an HTTP error as the result of the tool,
\* and mcp_result_to_text raises only for a tool that raised.
TextOf(answer) == IF answer = "http_error" THEN "refused" ELSE answer

AnswerWithoutComplete(p) ==
    /\ At(p, "await")
    /\ posts[p].at = "answered"
    /\ call' = [call EXCEPT ![p].pc = "audit.success", ![p].result = TextOf(posts[p].answer)]
    /\ UNCHANGED <<records, audit, turns, posts, calendar>>

\* ... and returns what the tool says, an event or a refusal.
Answer(p) ==
    /\ At(p, "await")
    /\ posts[p].at = "answered"
    /\ call' = [call EXCEPT ![p].pc = "complete", ![p].result = TextOf(posts[p].answer)]
    /\ UNCHANGED <<records, audit, turns, posts, calendar>>

\* No session with the server, no token, no answer in time, or the answer is
\* lost: call_tool raises whatever became of the action.
CallFails(p) ==
    /\ At(p, "call") \/ At(p, "await")
    /\ GoTo(p, "abandon")
    /\ UNCHANGED <<records, audit, turns, posts, calendar>>

AbandonNothing(p) ==
    /\ At(p, "abandon")
    /\ GoTo(p, "audit.error")
    /\ UNCHANGED <<records, audit, turns, posts, calendar>>

\* abandon_idempotency_key: DELETE the record that is in progress.
Abandon(p) ==
    LET k == call[p].key IN
    /\ At(p, "abandon")
    /\ records' = [records EXCEPT ![k] = IF @.status = "in_progress" THEN NoRecord ELSE @]
    /\ GoTo(p, "audit.error")
    /\ UNCHANGED <<audit, turns, posts, calendar>>

AuditError(p) ==
    /\ At(p, "audit.error")
    /\ audit' = [audit EXCEPT ![p] = "error"]
    /\ Reply(p, "failed")
    /\ UNCHANGED <<records, turns, posts, calendar>>

\* complete_idempotency_key: UPDATE the record, if there is one.
Complete(p) ==
    LET k == call[p].key IN
    /\ At(p, "complete")
    /\ records' = [records EXCEPT ![k] =
                      IF @ = NoRecord THEN @
                      ELSE [status |-> "succeeded", result |-> call[p].result]]
    /\ GoTo(p, "audit.success")
    /\ UNCHANGED <<audit, turns, posts, calendar>>

AuditSuccess(p) ==
    /\ At(p, "audit.success")
    /\ audit' = [audit EXCEPT ![p] = "success"]
    /\ GoTo(p, "turn")
    /\ UNCHANGED <<records, turns, posts, calendar>>

\* record_mcp_action_turn, which is nothing without a thread of the caller and
\* swallows its errors, and the reply.
RecordTurn(p) ==
    /\ At(p, "turn")
    /\ turns' \in {turns, turns \cup {p}}
    /\ Reply(p, "created")
    /\ UNCHANGED <<records, audit, posts, calendar>>

\* The process dies, or something outside the try raises (a transaction of
\* the store, inject_user_credentials): the call ends where it stands.
Lose(p) ==
    /\ call[p].pc \notin {"new", "ended"}
    /\ Reply(p, "lost")
    /\ UNCHANGED <<records, audit, turns, posts, calendar>>

\* The calendar serves an action, at any time after it was sent.
Serve(p) ==
    LET k == call[p].key
        earlier == {e \in calendar[k] : /\ posts[p].transaction # "none"
                                        /\ posts[e].transaction = posts[p].transaction} IN
    /\ posts[p].at = "sent"
    /\ \/ /\ earlier = {}
          /\ calendar' = [calendar EXCEPT ![k] = @ \cup {p}]
          /\ posts' = [posts EXCEPT ![p].at = "answered", ![p].answer = p]
       \/ /\ \E e \in earlier \cup {"http_error"} :
                posts' = [posts EXCEPT ![p].at = "answered", ![p].answer = e]
          /\ UNCHANGED calendar
    /\ UNCHANGED <<records, audit, turns, call>>

-----------------------------------------------------------------------------
Init ==
    /\ records = [k \in Keys |-> NoRecord]
    /\ audit = [p \in Requests |-> "none"]
    /\ turns = {}
    /\ call = [p \in Requests |-> NewCall]
    /\ posts = [p \in Requests |-> NoPost]
    /\ calendar = [k \in Keys |-> {}]

CallStep(p) ==
    \/ ClaimInsert(p) \/ ClaimSelect(p) \/ Inject(p) \/ CallTool(p) \/ Answer(p)
    \/ CallFails(p) \/ Abandon(p) \/ AuditError(p) \/ Complete(p) \/ AuditSuccess(p)
    \/ RecordTurn(p)

Next ==
    \E p \in Requests :
        \/ \E k \in Keys, confirmed \in BOOLEAN : Begin(p, k, confirmed)
        \/ CallStep(p) \/ Lose(p) \/ Serve(p)

Spec == Init /\ [][Next]_vars

\* The event loop keeps running its calls; the 15 s timeout of the calendar
\* request ends the wait for an answer.  The calendar owes nothing.
FairSpec == Spec /\ \A p \in Requests : WF_vars(CallStep(p))

-----------------------------------------------------------------------------
\* Type invariant: well-formed records, audit rows, calls, posts and events.
TypeOK ==
    /\ records \in [Keys -> Record]
    /\ audit \in [Requests -> {"none", "blocked", "error", "success"}]
    /\ turns \in SUBSET Requests
    /\ call \in [Requests -> Call]
    /\ posts \in [Requests -> Post]
    /\ calendar \in [Keys -> SUBSET Requests]

RunningFor(k) == {p \in Requests : call[p].key = k /\ call[p].pc \in Running}

\* Of all calls with one key at most one runs the tool, and while it does the
\* key is in_progress, so no other call starts (claim_idempotency_key).
OneRunPerKey ==
    \A k \in Keys :
        /\ \A p, q \in RunningFor(k) : p = q
        /\ RunningFor(k) # {} => records[k].status = "in_progress"

\* No key ever makes a second event, although an answer may be lost after the
\* event was made, the key abandoned and the action sent again (mcp_call).
OneEventPerKey ==
    \A k \in Keys : \A e, f \in calendar[k] : e = f

Reports(result, k) == result = "refused" \/ calendar[k] = {result}

\* What is said of an action is true: a succeeded record and an answer of 200,
\* fresh or replayed, name the one event the calendar holds, or its refusal.
SuccessIsReal ==
    /\ \A k \in Keys : records[k].status = "succeeded" => Reports(records[k].result, k)
    /\ \A p \in Requests :
          call[p].reply \in {"created", "replayed"} => Reports(call[p].result, call[p].key)

\* A call audited as a success, or remembered as a turn, can be replayed from
\* then on (complete_idempotency_key comes before the audit and the turn).
AuditedSuccessReplays ==
    /\ \A p \in Requests : audit[p] = "success" => records[call[p].key].status = "succeeded"
    /\ \A p \in turns : audit[p] = "success"

\* A recorded success is never taken back or replaced.
SucceededIsFinal ==
    [][\A k \in Keys : records[k].status = "succeeded" => records'[k] = records[k]]_records

\* A key in progress is settled, freed or completed, unless a call was lost.
KeySettles ==
    \A k \in Keys :
        records[k].status = "in_progress" ~>
            \/ records[k].status # "in_progress"
            \/ \E p \in Requests : call[p].key = k /\ call[p].reply = "lost"

\* What the callers of a key were told.
Answers(k) == {call[p].result : p \in {q \in Requests :
                  call[q].key = k /\ call[q].reply \in {"created", "replayed"}}}

SentKeys == {k \in Keys : \E p \in Requests : posts[p].transaction = k}

ContractState(record) ==
    CASE record.status = "absent" -> "free"
      [] record.status = "in_progress" -> "running"
      [] record.status = "succeeded" -> "done"

Contract == INSTANCE IdempotencyContract
               WITH Events <- Requests,
                    state <- [k \in Keys |-> ContractState(records[k])],
                    sent <- SentKeys,
                    effect <- calendar,
                    result <- [k \in Keys |-> records[k].result],
                    told <- [k \in Keys |-> Answers(k)]

\* The transactions of all calls with a key, lost and late ones among them,
\* implement one action: what it made and what is recorded never changes, and
\* whoever asks, first or again, is told the same (mcp_call).
ImplementsContract == Contract!Spec

(***************************************************************************)
(* A claim of the repository that the code does not keep.                  *)
(***************************************************************************)

\* "Atomically reserve a write action or replay its earlier successful
\* result." (claim_idempotency_key): what is replayed is an event that exists.
ReplayedResultIsASuccess ==
    \A p \in Requests :
        call[p].reply = "replayed" => call[p].result \in calendar[call[p].key]
=============================================================================
