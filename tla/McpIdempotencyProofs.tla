------------------------ MODULE McpIdempotencyProofs ------------------------
(***************************************************************************)
(* Proofs, for any number of keys and calls, that a calendar action runs   *)
(* and takes effect at most once and that its reported result is real.     *)
(***************************************************************************)
EXTENDS McpIdempotency, TLAPS

\* A result tells of an event of its key, or of a refusal.
Told(result, k) == result = "refused" \/ result \in calendar[k]

\* How far a call has come tells what it holds: a key once it began, no post
\* before the tool is called, a result once the tool returned, a succeeded
\* record once it was completed.
CallFacts(p) ==
    /\ call[p].pc # "new" => call[p].key \in Keys
    /\ call[p].pc = "new" => audit[p] = "none"
    /\ call[p].pc \in {"new", "claim", "select", "inject", "call"} => posts[p] = NoPost
    /\ call[p].pc # "ended" => call[p].reply = "none" /\ p \notin turns
    /\ call[p].pc \in {"complete", "audit.success", "turn"} =>
           Told(call[p].result, call[p].key)
    /\ call[p].reply \in {"created", "replayed"} => Told(call[p].result, call[p].key)
    /\ call[p].pc \in {"audit.success", "turn"} => records[call[p].key].status = "succeeded"
    /\ audit[p] = "success" => records[call[p].key].status = "succeeded"
    /\ call[p].pc = "turn" => audit[p] = "success"
    /\ p \in turns => audit[p] = "success"

CallInv == \A p \in Requests : CallFacts(p)

\* A post carries the key of its call, and an answer without error names an
\* event of that key.
PostInv ==
    \A p \in Requests :
        /\ posts[p].at # "none" => call[p].pc # "new" /\ posts[p].transaction = call[p].key
        /\ posts[p].at = "answered" =>
               posts[p].answer = "http_error" \/ posts[p].answer \in calendar[call[p].key]

\* An event is made by a served post with the transaction id of its key.
EventInv ==
    \A k \in Keys : \A e \in calendar[k] :
        posts[e].at = "answered" /\ posts[e].transaction = k

\* A succeeded record names an event, or a refusal.
RecordInv ==
    \A k \in Keys :
        records[k].status = "succeeded" => Told(records[k].result, k)

\* The inductive invariant.
IndInv ==
    TypeOK /\ OneRunPerKey /\ CallInv /\ PostInv /\ EventInv /\ RecordInv /\ OneEventPerKey

-----------------------------------------------------------------------------
\* No record, no call and no event: every part holds at the start (Init).
LEMMA InitIndInv == Init => IndInv
  <1> SUFFICES ASSUME Init PROVE IndInv
    OBVIOUS
  <1>1. NoRecord \in Record /\ NewCall \in Call /\ NoPost \in Post
    BY DEF NoRecord, Record, NewCall, Call, Steps, NoPost, Post, Results
  <1>2. TypeOK
    BY <1>1 DEF Init, TypeOK
  <1>3. OneRunPerKey
    BY DEF Init, OneRunPerKey, RunningFor, NewCall, Running
  <1>4. CallInv
    BY DEF Init, CallInv, CallFacts, NewCall
  <1>5. PostInv
    BY DEF Init, PostInv, NoPost
  <1>6. EventInv /\ RecordInv /\ OneEventPerKey
    BY DEF Init, EventInv, RecordInv, OneEventPerKey, NoRecord
  <1> QED BY <1>2, <1>3, <1>4, <1>5, <1>6 DEF IndInv

\* A call that only goes to another step, or ends with a reply.
LEMMA GoToTyped ==
    ASSUME NEW c \in Call, NEW pc \in Steps
    PROVE  LET d == [c EXCEPT !.pc = pc] IN
           /\ d \in Call /\ d.pc = pc
           /\ d.key = c.key /\ d.reply = c.reply /\ d.result = c.result
  BY DEF Call

\* A call that ends with a reply other than a replay keeps its key and result.
LEMMA ReplyTyped ==
    ASSUME NEW c \in Call, NEW reply \in {"busy", "failed", "lost", "created"}
    PROVE  LET d == [c EXCEPT !.pc = "ended", !.reply = reply] IN
           /\ d \in Call /\ d.pc = "ended"
           /\ d.key = c.key /\ d.reply = reply /\ d.result = c.result
  BY DEF Call, Steps

\* Nothing outside the calls changes when a call goes on from c to d.
LEMMA CallGoesOn ==
    ASSUME IndInv, NEW p \in Requests, NEW d \in Call,
           call' = [call EXCEPT ![p] = d],
           UNCHANGED <<records, audit, turns, posts, calendar>>,
           d.pc \in Running => call[p].pc \in Running,
           call[p].pc # "new" => d.key = call[p].key,
           d.pc # "new",
           CallFacts(p)'
    PROVE  IndInv'
  <1>1. /\ call'[p] = d
        /\ \A q \in Requests : q # p => call'[q] = call[q]
    BY DEF IndInv, TypeOK
  <1>2. TypeOK'
    BY DEF IndInv, TypeOK
  <1>3. OneRunPerKey'
    <2>1. \A k \in Keys : \A q \in RunningFor(k)' : q \in RunningFor(k)
      BY <1>1 DEF RunningFor, Running
    <2> QED BY <2>1 DEF IndInv, OneRunPerKey
  <1>4. CallInv'
    BY <1>1 DEF IndInv, CallInv, CallFacts, Told
  <1>5. PostInv'
    BY <1>1, CallFacts(p)' DEF IndInv, PostInv, CallInv, CallFacts, NoPost
  <1>6. EventInv' /\ RecordInv' /\ OneEventPerKey'
    BY DEF IndInv, EventInv, RecordInv, OneEventPerKey, Told
  <1> QED BY <1>2, <1>3, <1>4, <1>5, <1>6 DEF IndInv

-----------------------------------------------------------------------------
\* Steps of a call that change nothing but the call.

\* mcp_call begins: the call has its key, and an unconfirmed one is over.
LEMMA BeginStep ==
    ASSUME IndInv, NEW p \in Requests, NEW k \in Keys,
           NEW confirmed \in BOOLEAN, Begin(p, k, confirmed)
    PROVE  IndInv'
  <1>1. CASE confirmed
    <2> DEFINE c == [NewCall EXCEPT !.pc = "claim", !.key = k]
    <2>1. /\ c \in Call /\ c.pc = "claim" /\ c.key = k /\ c.reply = "none"
      BY DEF NewCall, Call, Steps, Results
    <2>2. /\ call[p].pc = "new" /\ call' = [call EXCEPT ![p] = c]
          /\ UNCHANGED <<records, audit, turns, posts, calendar>>
      BY <1>1 DEF Begin, At, ToolManualAllowed
    <2> HIDE DEF c
    <2>3. CallFacts(p)'
      BY <2>1, <2>2 DEF IndInv, CallInv, CallFacts, TypeOK
    <2> QED BY <2>1, <2>2, <2>3, CallGoesOn DEF Running
  <1>2. CASE ~confirmed
    <2> DEFINE c == [NewCall EXCEPT !.pc = "ended", !.key = k, !.reply = "blocked"]
    <2>1. c \in Call /\ c.pc = "ended" /\ c.key = k /\ c.reply = "blocked"
      BY DEF NewCall, Call, Steps, Results
    <2>2. /\ call[p].pc = "new" /\ call' = [call EXCEPT ![p] = c]
          /\ audit' = [audit EXCEPT ![p] = "blocked"]
          /\ UNCHANGED <<records, turns, posts, calendar>>
      BY <1>2 DEF Begin, At, ToolManualAllowed
    <2> HIDE DEF c
    <2>3. /\ call'[p] = c /\ audit'[p] = "blocked" /\ posts[p].at = "none"
          /\ \A q \in Requests : q # p => call'[q] = call[q] /\ audit'[q] = audit[q]
      BY <2>2 DEF IndInv, TypeOK, CallInv, CallFacts, NoPost
    <2>4. TypeOK'
      BY <2>1, <2>2 DEF IndInv, TypeOK
    <2>5. OneRunPerKey'
      <3>1. \A j \in Keys : \A q \in RunningFor(j)' : q \in RunningFor(j)
        BY <2>1, <2>3 DEF RunningFor, Running
      <3> QED BY <2>2, <3>1 DEF IndInv, OneRunPerKey
    <2>6. CallInv'
      BY <2>1, <2>2, <2>3 DEF IndInv, CallInv, CallFacts, Told
    <2>7. PostInv'
      BY <2>2, <2>3 DEF IndInv, PostInv
    <2>8. EventInv' /\ RecordInv' /\ OneEventPerKey'
      BY <2>2 DEF IndInv, EventInv, RecordInv, OneEventPerKey, Told
    <2> QED BY <2>4, <2>5, <2>6, <2>7, <2>8 DEF IndInv
  <1> QED BY <1>1, <1>2

\* A success that is replayed names the record's event, hence the key's.
LEMMA ClaimSelectStep ==
    ASSUME IndInv, NEW p \in Requests, ClaimSelect(p)
    PROVE  IndInv'
  <1> DEFINE k == call[p].key
             c == IF records[k].status = "succeeded"
                  THEN [call[p] EXCEPT !.pc = "ended", !.reply = "replayed",
                                       !.result = records[k].result]
                  ELSE [call[p] EXCEPT !.pc = "ended", !.reply = "busy"]
  <1>1. /\ call[p].pc = "select" /\ call' = [call EXCEPT ![p] = c]
        /\ UNCHANGED <<records, audit, turns, posts, calendar>>
    BY DEF ClaimSelect, At, Reply
  <1>2. k \in Keys
    BY <1>1 DEF IndInv, CallInv, CallFacts
  <1>3. /\ c \in Call /\ c.pc = "ended" /\ c.key = k
        /\ c.reply = "replayed" => records[k].status = "succeeded" /\ c.result = records[k].result
        /\ c.reply \in {"replayed", "busy"}
    <2>1. call[p] \in Call /\ records[k] \in Record
      BY <1>2 DEF IndInv, TypeOK
    <2>2. CASE records[k].status = "succeeded"
      BY <2>1, <2>2 DEF Call, Record, Steps
    <2>3. CASE records[k].status # "succeeded"
      BY <2>1, <2>3, ReplyTyped
    <2> QED BY <2>2, <2>3
  <1> HIDE DEF c
  <1>4. CallFacts(p)'
    BY <1>1, <1>2, <1>3 DEF IndInv, CallInv, CallFacts, TypeOK, RecordInv, Told
  <1> QED BY <1>1, <1>3, <1>4, CallGoesOn DEF Running

\* GoTo another running step, holding the same facts.
LEMMA InjectStep ==
    ASSUME IndInv, NEW p \in Requests, Inject(p)
    PROVE  IndInv'
  <1> DEFINE c == [call[p] EXCEPT !.pc = "call"]
  <1>1. /\ call[p].pc = "inject" /\ call' = [call EXCEPT ![p] = c]
        /\ UNCHANGED <<records, audit, turns, posts, calendar>>
    BY DEF Inject, At, GoTo
  <1>2. c \in Call /\ c.pc = "call" /\ c.key = call[p].key /\ c.reply = call[p].reply
    <2>1. call[p] \in Call /\ "call" \in Steps
      BY DEF IndInv, TypeOK, Steps, Running
    <2> QED BY <2>1, GoToTyped
  <1> HIDE DEF c
  <1>3. CallFacts(p)'
    BY <1>1, <1>2 DEF IndInv, CallInv, CallFacts, TypeOK
  <1> QED BY <1>1, <1>2, <1>3, CallGoesOn DEF Running

\* An answer tells of an event of the key, or of a refusal.
LEMMA AnswerStep ==
    ASSUME IndInv, NEW p \in Requests, Answer(p)
    PROVE  IndInv'
  <1> DEFINE r == TextOf(posts[p].answer)
  <1> DEFINE c == [call[p] EXCEPT !.pc = "complete", !.result = r]
  <1>1. /\ call[p].pc = "await" /\ call' = [call EXCEPT ![p] = c]
        /\ posts[p].at = "answered"
        /\ UNCHANGED <<records, audit, turns, posts, calendar>>
    BY DEF Answer, At
  <1>2. call[p].key \in Keys /\ Told(r, call[p].key)
    BY <1>1 DEF IndInv, CallInv, CallFacts, PostInv, TextOf, Told
  <1>3. r \in Results
    BY <1>2 DEF IndInv, TypeOK, Told, Results
  <1>4. c \in Call
    <2>1. call[p] \in Call /\ "complete" \in Steps
      BY DEF IndInv, TypeOK, Steps, Running
    <2> HIDE DEF r
    <2> QED BY <1>3, <2>1 DEF Call
  <1>5. c.pc = "complete" /\ c.key = call[p].key /\ c.reply = call[p].reply /\ c.result = r
    BY DEF IndInv, TypeOK, Call
  <1> HIDE DEF c, r
  <1>6. CallFacts(p)'
    BY <1>1, <1>2, <1>5 DEF IndInv, CallInv, CallFacts, TypeOK, Told
  <1> QED BY <1>1, <1>4, <1>5, <1>6, CallGoesOn DEF Running

\* A failed call still holds the key it will abandon.
LEMMA CallFailsStep ==
    ASSUME IndInv, NEW p \in Requests, CallFails(p)
    PROVE  IndInv'
  <1> DEFINE c == [call[p] EXCEPT !.pc = "abandon"]
  <1>1. /\ call[p].pc \in {"call", "await"} /\ call' = [call EXCEPT ![p] = c]
        /\ UNCHANGED <<records, audit, turns, posts, calendar>>
    BY DEF CallFails, At, GoTo
  <1>2. c \in Call /\ c.pc = "abandon" /\ c.key = call[p].key /\ c.reply = call[p].reply
    <2>1. call[p] \in Call /\ "abandon" \in Steps
      BY DEF IndInv, TypeOK, Steps, Running
    <2> QED BY <2>1, GoToTyped
  <1> HIDE DEF c
  <1>3. CallFacts(p)'
    BY <1>1, <1>2 DEF IndInv, CallInv, CallFacts, TypeOK
  <1> QED BY <1>1, <1>2, <1>3, CallGoesOn DEF Running

\* A call that is lost releases nothing and promises nothing.
LEMMA LoseStep ==
    ASSUME IndInv, NEW p \in Requests, Lose(p)
    PROVE  IndInv'
  <1> DEFINE c == [call[p] EXCEPT !.pc = "ended", !.reply = "lost"]
  <1>1. /\ call[p].pc \notin {"new", "ended"} /\ call' = [call EXCEPT ![p] = c]
        /\ UNCHANGED <<records, audit, turns, posts, calendar>>
    BY DEF Lose, Reply
  <1>2. c \in Call /\ c.pc = "ended" /\ c.key = call[p].key /\ c.reply = "lost"
    <2>1. call[p] \in Call
      BY DEF IndInv, TypeOK
    <2> QED BY <2>1, ReplyTyped
  <1> HIDE DEF c
  <1>3. CallFacts(p)'
    BY <1>1, <1>2 DEF IndInv, CallInv, CallFacts, TypeOK
  <1> QED BY <1>1, <1>2, <1>3, CallGoesOn DEF Running

-----------------------------------------------------------------------------
\* Steps of a call that write a table or send the post.

\* The insert succeeds only for a key without record, which no call runs for.
LEMMA ClaimInsertStep ==
    ASSUME IndInv, NEW p \in Requests, ClaimInsert(p)
    PROVE  IndInv'
  <1> DEFINE k == call[p].key
  <1>0. k \in Keys /\ call[p].pc = "claim"
    BY DEF ClaimInsert, At, IndInv, CallInv, CallFacts
  <1>1. CASE records[k] # NoRecord
    <2> DEFINE c == [call[p] EXCEPT !.pc = "select"]
    <2>1. call' = [call EXCEPT ![p] = c] /\ UNCHANGED <<records, audit, turns, posts, calendar>>
      BY <1>1 DEF ClaimInsert, GoTo
    <2>2. c \in Call /\ c.pc = "select" /\ c.key = k /\ c.reply = call[p].reply
      <3>1. call[p] \in Call /\ "select" \in Steps
        BY DEF IndInv, TypeOK, Steps
      <3> QED BY <3>1, GoToTyped
    <2> HIDE DEF c
    <2>3. CallFacts(p)'
      BY <1>0, <2>1, <2>2 DEF IndInv, CallInv, CallFacts, TypeOK
    <2> QED BY <1>0, <2>1, <2>2, <2>3, CallGoesOn DEF Running
  <1>2. CASE records[k] = NoRecord
    <2> DEFINE c == [call[p] EXCEPT !.pc = "inject"]
    <2>1. /\ call' = [call EXCEPT ![p] = c]
          /\ records' = [records EXCEPT ![k].status = "in_progress"]
          /\ UNCHANGED <<audit, turns, posts, calendar>>
      BY <1>2 DEF ClaimInsert, GoTo
    <2>2. c \in Call /\ c.pc = "inject" /\ c.key = k /\ c.reply = call[p].reply
      <3>1. call[p] \in Call /\ "inject" \in Steps
        BY DEF IndInv, TypeOK, Steps, Running
      <3> QED BY <3>1, GoToTyped
    <2> HIDE DEF c
    <2>3. /\ call'[p] = c /\ \A q \in Requests : q # p => call'[q] = call[q]
          /\ records[k].status = "absent" /\ records'[k].status = "in_progress"
          /\ \A j \in Keys : j # k => records'[j] = records[j]
      BY <1>0, <1>2, <2>1 DEF IndInv, TypeOK, Record, NoRecord
    <2>4. TypeOK'
      BY <1>0, <2>1, <2>2 DEF IndInv, TypeOK, Record
    <2>5. OneRunPerKey'
      <3>1. RunningFor(k) = {}
        BY <1>0, <2>3 DEF IndInv, OneRunPerKey
      <3>2. \A q \in RunningFor(k)' : q = p
        BY <2>2, <2>3, <3>1 DEF RunningFor
      <3>3. \A j \in Keys : j # k => RunningFor(j)' \subseteq RunningFor(j)
        BY <2>2, <2>3 DEF RunningFor
      <3>4. \A j \in Keys : RunningFor(j)' # {} => records'[j].status = "in_progress"
        BY <2>3, <3>3 DEF IndInv, OneRunPerKey
      <3>5. \A j \in Keys : \A q, r \in RunningFor(j)' : q = r
        BY <2>2, <2>3, <3>2, <3>3 DEF IndInv, OneRunPerKey
      <3> QED BY <3>4, <3>5 DEF OneRunPerKey
    <2>6. CallInv'
      BY <1>0, <2>1, <2>2, <2>3 DEF IndInv, CallInv, CallFacts, Told
    <2>7. PostInv'
      BY <1>0, <2>1, <2>2, <2>3 DEF IndInv, PostInv
    <2>8. EventInv' /\ RecordInv' /\ OneEventPerKey'
      BY <2>1, <2>3 DEF IndInv, EventInv, RecordInv, OneEventPerKey, Told
    <2> QED BY <2>4, <2>5, <2>6, <2>7, <2>8 DEF IndInv
  <1> QED BY <1>1, <1>2

\* A call sends its first and only post, with its key as transaction id.
LEMMA CallToolStep ==
    ASSUME IndInv, NEW p \in Requests, CallTool(p)
    PROVE  IndInv'
  <1> DEFINE c == [call[p] EXCEPT !.pc = "await"]
             post == [NoPost EXCEPT !.at = "sent", !.transaction = call[p].key]
  <1>1. /\ call[p].pc = "call" /\ call' = [call EXCEPT ![p] = c]
        /\ posts' = [posts EXCEPT ![p] = post]
        /\ UNCHANGED <<records, audit, turns, calendar>>
    BY DEF CallTool, At, GoTo
  <1>2. call[p].key \in Keys /\ posts[p] = NoPost /\ posts[p].at = "none"
    BY <1>1 DEF IndInv, CallInv, CallFacts, NoPost
  <1>3. c \in Call /\ c.pc = "await" /\ c.key = call[p].key /\ c.reply = call[p].reply
    <2>1. call[p] \in Call /\ "await" \in Steps
      BY DEF IndInv, TypeOK, Steps, Running
    <2> QED BY <2>1, GoToTyped
  <1>4. post \in Post /\ post.at = "sent" /\ post.transaction = call[p].key
    BY <1>2 DEF NoPost, Post
  <1> HIDE DEF c, post
  <1>5. /\ call'[p] = c /\ posts'[p] = post
        /\ \A q \in Requests : q # p => call'[q] = call[q] /\ posts'[q] = posts[q]
    BY <1>1 DEF IndInv, TypeOK
  <1>6. TypeOK'
    BY <1>1, <1>3, <1>4 DEF IndInv, TypeOK
  <1>7. OneRunPerKey'
    <2>1. \A j \in Keys : RunningFor(j)' \subseteq RunningFor(j)
      BY <1>1, <1>3, <1>5 DEF RunningFor, Running
    <2> QED BY <1>1, <2>1 DEF IndInv, OneRunPerKey
  <1>8. CallInv'
    BY <1>1, <1>3, <1>5 DEF IndInv, CallInv, CallFacts, Told
  <1>9. PostInv'
    BY <1>1, <1>3, <1>4, <1>5 DEF IndInv, PostInv
  <1>10. EventInv' /\ RecordInv' /\ OneEventPerKey'
    BY <1>1, <1>2, <1>5 DEF IndInv, EventInv, RecordInv, OneEventPerKey, TypeOK, Told
  <1> QED BY <1>6, <1>7, <1>8, <1>9, <1>10 DEF IndInv

\* Abandon and Complete end the run of p and settle the record of its key.
LEMMA RunEnds ==
    ASSUME IndInv, NEW p \in Requests, NEW d \in Call, NEW record \in Record,
           call[p].pc \in {"abandon", "complete"},
           call' = [call EXCEPT ![p] = d],
           records' = [records EXCEPT ![call[p].key] = record],
           UNCHANGED <<audit, turns, posts, calendar>>,
           d.pc \in {"audit.error", "audit.success"}, d.key = call[p].key,
           d.reply = "none", d.result = call[p].result,
           d.pc = "audit.success" =>
               call[p].pc = "complete" /\ record.status = "succeeded",
           record.status = "succeeded" => Told(record.result, call[p].key)
    PROVE  IndInv'
  <1> DEFINE k == call[p].key
  <1>1. k \in Keys /\ p \in RunningFor(k)
    BY DEF IndInv, CallInv, CallFacts, RunningFor, Running
  <1>2. /\ records[k].status = "in_progress"
        /\ \A q \in RunningFor(k) : q = p
    BY <1>1 DEF IndInv, OneRunPerKey
  <1>3. /\ call'[p] = d /\ \A q \in Requests : q # p => call'[q] = call[q]
        /\ records'[k] = record /\ \A j \in Keys : j # k => records'[j] = records[j]
    BY <1>1 DEF IndInv, TypeOK
  <1>4. TypeOK'
    BY <1>1 DEF IndInv, TypeOK
  <1>5. OneRunPerKey'
    <2>1. RunningFor(k)' = {}
      BY <1>2, <1>3 DEF RunningFor, Running
    <2>2. \A j \in Keys : RunningFor(j)' \subseteq RunningFor(j)
      BY <1>3 DEF RunningFor, Running
    <2> QED BY <1>3, <2>1, <2>2 DEF IndInv, OneRunPerKey
  <1>6. CallInv'
    BY <1>1, <1>2, <1>3 DEF IndInv, CallInv, CallFacts, Told
  <1>7. PostInv'
    BY <1>3 DEF IndInv, PostInv
  <1>8. RecordInv'
    BY <1>1, <1>3 DEF IndInv, RecordInv, Told
  <1>9. EventInv' /\ OneEventPerKey'
    BY DEF IndInv, EventInv, OneEventPerKey
  <1> QED BY <1>4, <1>5, <1>6, <1>7, <1>8, <1>9 DEF IndInv

\* Abandoning deletes a record only while it is in progress, so no success.
LEMMA AbandonStep ==
    ASSUME IndInv, NEW p \in Requests, Abandon(p)
    PROVE  IndInv'
  <1> DEFINE k == call[p].key
             c == [call[p] EXCEPT !.pc = "audit.error"]
  <1>1. call[p].pc = "abandon" /\ call' = [call EXCEPT ![p] = c]
        /\ UNCHANGED <<audit, turns, posts, calendar>>
    BY DEF Abandon, At, GoTo
  <1>2. k \in Keys /\ call[p].reply = "none" /\ records[k].status = "in_progress"
    <2>1. k \in Keys /\ p \in RunningFor(k)
      BY <1>1 DEF IndInv, CallInv, CallFacts, RunningFor, Running
    <2> QED BY <1>1, <2>1 DEF IndInv, CallInv, CallFacts, OneRunPerKey
  <1>3. records' = [records EXCEPT ![k] = NoRecord]
    BY <1>2 DEF Abandon, IndInv, TypeOK
  <1>4. NoRecord \in Record /\ NoRecord.status = "absent"
    BY DEF NoRecord, Record, Results
  <1>5. /\ c \in Call /\ c.pc = "audit.error" /\ c.key = k /\ c.reply = "none"
        /\ c.result = call[p].result
    <2>1. call[p] \in Call /\ "audit.error" \in Steps
      BY DEF IndInv, TypeOK, Steps
    <2> QED BY <1>2, <2>1, GoToTyped
  <1> HIDE DEF c
  <1> QED BY <1>1, <1>3, <1>4, <1>5, RunEnds

\* Completion turns the record of the running call into a success with the
\* result the call was answered with.
LEMMA CompleteStep ==
    ASSUME IndInv, NEW p \in Requests, Complete(p)
    PROVE  IndInv'
  <1> DEFINE k == call[p].key
             c == [call[p] EXCEPT !.pc = "audit.success"]
             record == [status |-> "succeeded", result |-> call[p].result]
  <1>1. call[p].pc = "complete" /\ call' = [call EXCEPT ![p] = c]
        /\ UNCHANGED <<audit, turns, posts, calendar>>
    BY DEF Complete, At, GoTo
  <1>2. /\ k \in Keys /\ call[p].reply = "none" /\ records[k].status = "in_progress"
        /\ Told(call[p].result, k)
    <2>1. k \in Keys /\ p \in RunningFor(k)
      BY <1>1 DEF IndInv, CallInv, CallFacts, RunningFor, Running
    <2> QED BY <1>1, <2>1 DEF IndInv, CallInv, CallFacts, OneRunPerKey, Told
  <1>3. records[k] # NoRecord
    BY <1>2 DEF NoRecord
  <1>4. records' = [records EXCEPT ![k] = record]
    BY <1>3, <1>2 DEF Complete, IndInv, TypeOK
  <1>5. record \in Record /\ record.status = "succeeded" /\ record.result = call[p].result
    BY DEF Record, IndInv, TypeOK, Call
  <1>6. /\ c \in Call /\ c.pc = "audit.success" /\ c.key = k /\ c.reply = "none"
        /\ c.result = call[p].result
    <2>1. call[p] \in Call /\ "audit.success" \in Steps
      BY DEF IndInv, TypeOK, Steps
    <2> QED BY <1>2, <2>1, GoToTyped
  <1> HIDE DEF c, record
  <1> QED BY <1>1, <1>2, <1>4, <1>5, <1>6, RunEnds

\* The audit row or the turn of p is written after its run ended.
LEMMA Afterwards ==
    ASSUME IndInv, NEW p \in Requests, NEW d \in Call,
           call[p].pc \in {"audit.error", "audit.success", "turn"},
           call' = [call EXCEPT ![p] = d],
           audit' \in [Requests -> {"none", "blocked", "error", "success"}],
           \A q \in Requests : q # p => audit'[q] = audit[q],
           turns' \in SUBSET Requests,
           \A q \in Requests : q # p => (q \in turns' <=> q \in turns),
           UNCHANGED <<records, posts, calendar>>,
           d.pc \in {"turn", "ended"}, d.key = call[p].key,
           CallFacts(p)'
    PROVE  IndInv'
  <1>1. call'[p] = d /\ \A q \in Requests : q # p => call'[q] = call[q]
    BY DEF IndInv, TypeOK
  <1>2. TypeOK'
    BY DEF IndInv, TypeOK
  <1>3. OneRunPerKey'
    <2>1. \A j \in Keys : RunningFor(j)' \subseteq RunningFor(j)
      BY <1>1 DEF RunningFor, Running
    <2> QED BY <2>1 DEF IndInv, OneRunPerKey
  <1>4. CallInv'
    BY <1>1 DEF IndInv, CallInv, CallFacts, Told
  <1>5. PostInv'
    BY <1>1 DEF IndInv, PostInv
  <1>6. EventInv' /\ RecordInv' /\ OneEventPerKey'
    BY DEF IndInv, EventInv, RecordInv, OneEventPerKey, Told
  <1> QED BY <1>2, <1>3, <1>4, <1>5, <1>6 DEF IndInv

\* An error is audited for a call that was never audited as a success.
LEMMA AuditErrorStep ==
    ASSUME IndInv, NEW p \in Requests, AuditError(p)
    PROVE  IndInv'
  <1> DEFINE c == [call[p] EXCEPT !.pc = "ended", !.reply = "failed"]
  <1>1. /\ call[p].pc = "audit.error" /\ call' = [call EXCEPT ![p] = c]
        /\ audit' = [audit EXCEPT ![p] = "error"]
        /\ UNCHANGED <<records, turns, posts, calendar>>
    BY DEF AuditError, At, Reply
  <1>2. c \in Call /\ c.pc = "ended" /\ c.key = call[p].key /\ c.reply = "failed"
    <2>1. call[p] \in Call
      BY DEF IndInv, TypeOK
    <2> QED BY <2>1, ReplyTyped
  <1> HIDE DEF c
  <1>3. call'[p] = c /\ audit'[p] = "error"
    BY <1>1 DEF IndInv, TypeOK
  <1>4. CallFacts(p)'
    BY <1>1, <1>2, <1>3 DEF IndInv, CallInv, CallFacts
  <1>5. /\ audit' \in [Requests -> {"none", "blocked", "error", "success"}]
        /\ \A q \in Requests : q # p => audit'[q] = audit[q]
        /\ turns' \in SUBSET Requests
    BY <1>1 DEF IndInv, TypeOK
  <1> QED BY <1>1, <1>2, <1>4, <1>5, Afterwards

\* A success is audited after its record was completed.
LEMMA AuditSuccessStep ==
    ASSUME IndInv, NEW p \in Requests, AuditSuccess(p)
    PROVE  IndInv'
  <1> DEFINE c == [call[p] EXCEPT !.pc = "turn"]
  <1>1. /\ call[p].pc = "audit.success" /\ call' = [call EXCEPT ![p] = c]
        /\ audit' = [audit EXCEPT ![p] = "success"]
        /\ UNCHANGED <<records, turns, posts, calendar>>
    BY DEF AuditSuccess, At, GoTo
  <1>2. /\ c \in Call /\ c.pc = "turn" /\ c.key = call[p].key /\ c.reply = call[p].reply
        /\ c.result = call[p].result
    <2>1. call[p] \in Call /\ "turn" \in Steps
      BY DEF IndInv, TypeOK, Steps
    <2> QED BY <2>1, GoToTyped
  <1> HIDE DEF c
  <1>3. call'[p] = c /\ audit'[p] = "success"
    BY <1>1 DEF IndInv, TypeOK
  <1>4. CallFacts(p)'
    BY <1>1, <1>2, <1>3 DEF IndInv, CallInv, CallFacts, Told
  <1>5. /\ audit' \in [Requests -> {"none", "blocked", "error", "success"}]
        /\ \A q \in Requests : q # p => audit'[q] = audit[q]
        /\ turns' \in SUBSET Requests
    BY <1>1 DEF IndInv, TypeOK
  <1> QED BY <1>1, <1>2, <1>4, <1>5, Afterwards

\* A turn is remembered after its call was audited as a success.
LEMMA RecordTurnStep ==
    ASSUME IndInv, NEW p \in Requests, RecordTurn(p)
    PROVE  IndInv'
  <1> DEFINE c == [call[p] EXCEPT !.pc = "ended", !.reply = "created"]
  <1>1. /\ call[p].pc = "turn" /\ call' = [call EXCEPT ![p] = c]
        /\ turns' \in {turns, turns \cup {p}}
        /\ UNCHANGED <<records, audit, posts, calendar>>
    BY DEF RecordTurn, At, Reply
  <1>2. /\ c \in Call /\ c.pc = "ended" /\ c.key = call[p].key /\ c.reply = "created"
        /\ c.result = call[p].result
    <2>1. call[p] \in Call
      BY DEF IndInv, TypeOK
    <2> QED BY <2>1, ReplyTyped
  <1> HIDE DEF c
  <1>3. call'[p] = c
    BY <1>1 DEF IndInv, TypeOK
  <1>4. CallFacts(p)'
    BY <1>1, <1>2, <1>3 DEF IndInv, CallInv, CallFacts, Told
  <1>5. /\ audit' \in [Requests -> {"none", "blocked", "error", "success"}]
        /\ turns' \in SUBSET Requests
        /\ \A q \in Requests : q # p => (q \in turns' <=> q \in turns)
    BY <1>1 DEF IndInv, TypeOK
  <1> QED BY <1>1, <1>2, <1>4, <1>5, Afterwards

\* All events of a key carry its transaction id, so the calendar makes another
\* one only while there is none.
LEMMA ServeStep ==
    ASSUME IndInv, NEW p \in Requests, Serve(p)
    PROVE  IndInv'
  <1> DEFINE k == call[p].key
             earlier == {e \in calendar[k] : /\ posts[p].transaction # "none"
                                             /\ posts[e].transaction = posts[p].transaction}
  <1>1. posts[p].at = "sent" /\ UNCHANGED <<records, audit, turns, call>>
    BY DEF Serve
  <1>2. k \in Keys /\ posts[p].transaction = k /\ k # "none" /\ call[p].pc # "new"
    BY <1>1, IdempotencyAssumption DEF IndInv, PostInv, CallInv, CallFacts
  <1>3. earlier = calendar[k]
    BY <1>2 DEF IndInv, EventInv
  <1>4. p \notin calendar[k] /\ \A j \in Keys : p \notin calendar[j]
    BY <1>1, <1>2 DEF IndInv, EventInv
  <1>5. /\ call[p].pc \notin {"new", "claim", "select", "inject", "call"}
        /\ OneRunPerKey'
    <2>1. \A j \in Keys : RunningFor(j)' = RunningFor(j)
      BY <1>1 DEF RunningFor
    <2> QED BY <1>1, <2>1 DEF IndInv, CallInv, CallFacts, NoPost, OneRunPerKey
  <1>6. ASSUME NEW a \in Requests \cup {"http_error"},
               posts' = [posts EXCEPT ![p].at = "answered", ![p].answer = a]
        PROVE  /\ posts' \in [Requests -> Post]
               /\ posts'[p].at = "answered" /\ posts'[p].answer = a
               /\ posts'[p].transaction = k
               /\ \A q \in Requests : q # p => posts'[q] = posts[q]
    BY <1>2, <1>6 DEF IndInv, TypeOK, Post
  <1>7. CASE /\ earlier = {}
             /\ calendar' = [calendar EXCEPT ![k] = @ \cup {p}]
             /\ posts' = [posts EXCEPT ![p].at = "answered", ![p].answer = p]
    <2>1. /\ posts' \in [Requests -> Post]
          /\ posts'[p].at = "answered" /\ posts'[p].answer = p /\ posts'[p].transaction = k
          /\ \A q \in Requests : q # p => posts'[q] = posts[q]
      BY <1>6, <1>7
    <2>2. /\ calendar'[k] = {p} /\ calendar[k] = {}
          /\ \A j \in Keys : j # k => calendar'[j] = calendar[j]
      BY <1>2, <1>3, <1>7 DEF IndInv, TypeOK
    <2>3. TypeOK'
      BY <1>1, <1>2, <1>7, <2>1 DEF IndInv, TypeOK
    <2>4. \A j \in Keys : calendar[j] \subseteq calendar'[j]
      BY <2>2
    <2>5. CallInv'
      BY <1>1, <1>5, <2>1, <2>4 DEF IndInv, CallInv, CallFacts, Told
    <2>6. PostInv'
      BY <1>1, <1>2, <2>1, <2>2, <2>4 DEF IndInv, PostInv, CallInv, CallFacts
    <2>7. EventInv'
      BY <1>4, <2>1, <2>2 DEF IndInv, EventInv, TypeOK
    <2>8. RecordInv' /\ OneEventPerKey'
      BY <1>1, <2>2, <2>4 DEF IndInv, RecordInv, OneEventPerKey, Told
    <2> QED BY <1>5, <2>3, <2>5, <2>6, <2>7, <2>8 DEF IndInv
  <1>8. CASE /\ \E e \in earlier \cup {"http_error"} :
                    posts' = [posts EXCEPT ![p].at = "answered", ![p].answer = e]
             /\ UNCHANGED calendar
    <2>1. PICK e \in earlier \cup {"http_error"} :
              posts' = [posts EXCEPT ![p].at = "answered", ![p].answer = e]
      BY <1>8
    <2>2. e \in calendar[k] \/ e = "http_error"
      BY <2>1, <1>3
    <2>3. e \in Requests \cup {"http_error"}
      BY <1>2, <2>2 DEF IndInv, TypeOK
    <2>4. /\ posts' \in [Requests -> Post]
          /\ posts'[p].at = "answered" /\ posts'[p].answer = e /\ posts'[p].transaction = k
          /\ \A q \in Requests : q # p => posts'[q] = posts[q]
      BY <1>6, <2>1, <2>3
    <2>5. TypeOK'
      BY <1>1, <1>8, <2>4 DEF IndInv, TypeOK
    <2>6. CallInv'
      BY <1>1, <1>5, <1>8, <2>4 DEF IndInv, CallInv, CallFacts, Told
    <2>7. PostInv'
      BY <1>1, <1>2, <1>8, <2>2, <2>4 DEF IndInv, PostInv
    <2>8. EventInv'
      BY <1>4, <1>8, <2>4 DEF IndInv, EventInv, TypeOK
    <2>9. RecordInv' /\ OneEventPerKey'
      BY <1>1, <1>8 DEF IndInv, RecordInv, OneEventPerKey, Told
    <2> QED BY <1>5, <2>5, <2>6, <2>7, <2>8, <2>9 DEF IndInv
  <1> QED BY <1>7, <1>8 DEF Serve

\* A step that changes nothing keeps the invariant.
LEMMA StutterStep == ASSUME IndInv, UNCHANGED vars PROVE IndInv'
  <1> USE DEF vars
  <1>1. TypeOK'
    BY DEF IndInv, TypeOK
  <1>2. OneRunPerKey'
    <2>1. \A j \in Keys : RunningFor(j)' = RunningFor(j)
      BY DEF RunningFor
    <2> QED BY <2>1 DEF IndInv, OneRunPerKey
  <1>3. CallInv'
    BY DEF IndInv, CallInv, CallFacts, Told
  <1>4. PostInv' /\ EventInv' /\ RecordInv' /\ OneEventPerKey'
    BY DEF IndInv, PostInv, EventInv, RecordInv, OneEventPerKey, Told
  <1> QED BY <1>1, <1>2, <1>3, <1>4 DEF IndInv

\* Every step of a call, and of the calendar, keeps the invariant.
LEMMA NextIndInv == IndInv /\ [Next]_vars => IndInv'
  <1> SUFFICES ASSUME IndInv, [Next]_vars PROVE IndInv'
    OBVIOUS
  <1>1. CASE UNCHANGED vars
    BY <1>1, StutterStep
  <1>2. ASSUME NEW p \in Requests, CallStep(p)
        PROVE  IndInv'
    BY <1>2, ClaimInsertStep, ClaimSelectStep, InjectStep, CallToolStep, AnswerStep,
       CallFailsStep, AbandonStep, AuditErrorStep, CompleteStep, AuditSuccessStep,
       RecordTurnStep DEF CallStep
  <1> QED BY <1>1, <1>2, BeginStep, LoseStep, ServeStep DEF Next

-----------------------------------------------------------------------------
\* The records, calls, posts and events stay consistent with each other.
THEOREM Inductive == Spec => []IndInv
  BY InitIndInv, NextIndInv, PTL DEF Spec

\* Records, audit rows, calls, posts and events are well formed in every
\* reachable state (mcp_call and the tables it writes).
THEOREM TypeCorrect == Spec => []TypeOK
  <1>1. IndInv => TypeOK
    BY DEF IndInv
  <1> QED BY <1>1, Inductive, PTL

\* Of all calls with one key at most one runs the tool, whatever races, is
\* lost or is retried (claim_idempotency_key).
THEOREM AtMostOneRun == Spec => []OneRunPerKey
  <1>1. IndInv => OneRunPerKey
    BY DEF IndInv
  <1> QED BY <1>1, Inductive, PTL

\* No key ever makes a second event: the key is the transaction id of every
\* retry (mcp_call).
THEOREM AtMostOneEvent == Spec => []OneEventPerKey
  <1>1. IndInv => OneEventPerKey
    BY DEF IndInv
  <1> QED BY <1>1, Inductive, PTL

\* Every success recorded or reported, fresh or replayed, names the one event
\* of its key, or its refusal (complete_idempotency_key, claim_idempotency_key).
THEOREM SuccessesAreReal == Spec => []SuccessIsReal
  <1>1. IndInv => SuccessIsReal
    <2> SUFFICES ASSUME IndInv PROVE SuccessIsReal
      OBVIOUS
    <2>1. \A k \in Keys : \A e : e \in calendar[k] => calendar[k] = {e}
      BY DEF IndInv, OneEventPerKey
    <2>2. \A p \in Requests : call[p].reply \in {"created", "replayed"} =>
              call[p].key \in Keys /\ Told(call[p].result, call[p].key)
      BY DEF IndInv, CallInv, CallFacts
    <2> QED BY <2>1, <2>2 DEF IndInv, RecordInv, SuccessIsReal, Told, Reports
  <1> QED BY <1>1, Inductive, PTL

\* What is audited as a success, or remembered as a turn, can be replayed
\* (mcp_call completes the key first).
THEOREM AuditedSuccessesReplay == Spec => []AuditedSuccessReplays
  <1>1. IndInv => AuditedSuccessReplays
    BY DEF IndInv, CallInv, CallFacts, AuditedSuccessReplays, TypeOK
  <1> QED BY <1>1, Inductive, PTL

\* A recorded success is never taken back or replaced (abandon_idempotency_key
\* and complete_idempotency_key run only for a key in progress).
THEOREM SuccessesAreFinal == Spec => SucceededIsFinal
  <1>1. IndInv /\ [Next]_vars =>
            [\A k \in Keys : records[k].status = "succeeded" => records'[k] = records[k]]_records
    <2> SUFFICES ASSUME IndInv, [Next]_vars, NEW k \in Keys, records[k].status = "succeeded"
                 PROVE  records'[k] = records[k]
      OBVIOUS
    <2>1. \A p \in Requests : p \notin RunningFor(k)
      BY DEF IndInv, OneRunPerKey
    <2>2. \A p \in Requests : ClaimInsert(p) => records'[k] = records[k]
      BY DEF ClaimInsert, IndInv, TypeOK, NoRecord
    <2>3. \A p \in Requests : Abandon(p) \/ Complete(p) => records'[k] = records[k]
      BY <2>1 DEF Abandon, Complete, At, RunningFor, Running, IndInv, TypeOK
    <2>4. CASE UNCHANGED vars
      BY <2>4 DEF vars
    <2>5. CASE Next
      BY <2>2, <2>3, <2>5 DEF Next, CallStep, Begin, ClaimSelect, Inject, CallTool, Answer,
         CallFails, AuditError, AuditSuccess, RecordTurn, Lose, Serve
    <2> QED BY <2>4, <2>5
  <1> QED BY <1>1, Inductive, PTL DEF Spec, SucceededIsFinal

-----------------------------------------------------------------------------
(***************************************************************************)
(* All calls with a key implement one action (IdempotencyContract).        *)
(***************************************************************************)

Answered(p) == call[p].reply \in {"created", "replayed"}

\* What IndInv does not need: whoever has a result of a completed key has the
\* recorded one, only completed records have any, and a result comes of a post.
AnswerInv ==
    /\ \A p \in Requests : call[p].pc \in {"audit.success", "turn"} \/ Answered(p) =>
           /\ records[call[p].key].status = "succeeded"
           /\ call[p].result = records[call[p].key].result
    /\ \A k \in Keys : records[k].status # "succeeded" => records[k].result = "none"
    /\ \A p \in Requests : call[p].pc = "complete" => posts[p].transaction = call[p].key

ContractStep == [Contract!Next]_(Contract!vars)

LEMMA InitAnswerInv == Init => AnswerInv /\ Contract!Init
  <1> SUFFICES ASSUME Init PROVE AnswerInv /\ Contract!Init
    OBVIOUS
  <1>1. AnswerInv
    BY DEF Init, AnswerInv, Answered, NewCall, NoRecord
  <1>2. \A k \in Keys : Answers(k) = {} /\ ContractState(records[k]) = "free"
    BY IdempotencyAssumption
    DEF Init, Answers, ContractState, NewCall, NoRecord, NoPost
  <1>3. SentKeys = {}
    BY IdempotencyAssumption DEF Init, SentKeys, NoPost
  <1> QED BY <1>1, <1>2, <1>3 DEF Init, Contract!Init, NoRecord

\* What callers see stays when no record, no event, no answer and no
\* transaction appears or goes.
LEMMA Unseen ==
    ASSUME UNCHANGED <<records, calendar>>,
           \A k \in Keys : Answers(k)' = Answers(k),
           SentKeys' = SentKeys
    PROVE  ContractStep
  <1>1. [k \in Keys |-> Answers(k)]' = [k \in Keys |-> Answers(k)]
    OBVIOUS
  <1> QED BY <1>1 DEF ContractStep, Contract!vars

\* A call that is not answered by its step leaves the answers alone.
LEMMA NoAnswer ==
    ASSUME IndInv, NEW p \in Requests, NEW d,
           call' = [call EXCEPT ![p] = d],
           d.reply \notin {"created", "replayed"}, call[p].pc # "ended"
    PROVE  \A k : Answers(k)' = Answers(k)
  <1>1. /\ call'[p] = d
        /\ \A q \in Requests : q # p => call'[q] = call[q]
        /\ call[p].reply = "none"
    BY DEF IndInv, TypeOK, CallInv, CallFacts
  <1> QED BY <1>1 DEF Answers

\* A step that changes nothing but the call, and answers nobody.
LEMMA QuietStep ==
    ASSUME IndInv, AnswerInv, NEW p \in Requests, NEW d,
           call' = [call EXCEPT ![p] = d], UNCHANGED <<records, posts, calendar>>,
           call[p].pc # "ended", d.reply \notin {"created", "replayed"},
           d.pc \in {"audit.success", "turn"} =>
               /\ call[p].pc \in {"audit.success", "turn"}
               /\ d.key = call[p].key /\ d.result = call[p].result,
           d.pc = "complete" => posts[p].transaction = d.key
    PROVE  AnswerInv' /\ ContractStep
  <1>1. call'[p] = d /\ \A q \in Requests : q # p => call'[q] = call[q]
    BY DEF IndInv, TypeOK
  <1>2. AnswerInv'
    BY <1>1 DEF AnswerInv, Answered
  <1>3. SentKeys' = SentKeys
    BY DEF SentKeys
  <1> QED BY <1>2, <1>3, NoAnswer, Unseen

LEMMA QuietGoTo ==
    ASSUME IndInv, AnswerInv, NEW p \in Requests, NEW pc \in Steps \ {"complete"},
           GoTo(p, pc), UNCHANGED <<records, posts, calendar>>, call[p].pc # "ended",
           pc \in {"audit.success", "turn"} => call[p].pc \in {"audit.success", "turn"}
    PROVE  AnswerInv' /\ ContractStep
  <1> DEFINE d == [call[p] EXCEPT !.pc = pc]
  <1>1. call[p] \in Call /\ call[p].reply = "none"
    BY DEF IndInv, TypeOK, CallInv, CallFacts
  <1>2. d.pc = pc /\ d.key = call[p].key /\ d.reply = "none" /\ d.result = call[p].result
    BY <1>1, GoToTyped
  <1>3. call' = [call EXCEPT ![p] = d]
    BY DEF GoTo
  <1> HIDE DEF d
  <1> QED BY <1>2, <1>3, QuietStep

LEMMA QuietReply ==
    ASSUME IndInv, AnswerInv, NEW p \in Requests, NEW reply,
           reply \notin {"created", "replayed"},
           Reply(p, reply), UNCHANGED <<records, posts, calendar>>, call[p].pc # "ended"
    PROVE  AnswerInv' /\ ContractStep
  <1> DEFINE d == [call[p] EXCEPT !.pc = "ended", !.reply = reply]
  <1>1. call[p] \in Call
    BY DEF IndInv, TypeOK
  <1>2. d.pc = "ended" /\ d.reply = reply
    BY <1>1 DEF Call
  <1>3. call' = [call EXCEPT ![p] = d]
    BY DEF Reply
  <1> HIDE DEF d
  <1>4. d.reply \notin {"created", "replayed"} /\ d.pc \notin {"audit.success", "turn", "complete"}
    BY <1>2
  <1> QED BY <1>3, <1>4, QuietStep

LEMMA BeginIsQuiet ==
    ASSUME IndInv, AnswerInv, NEW p \in Requests, NEW k \in Keys, NEW confirmed \in BOOLEAN,
           Begin(p, k, confirmed)
    PROVE  AnswerInv' /\ ContractStep
  <1>1. call[p].pc = "new" /\ UNCHANGED <<records, posts, calendar>>
    BY DEF Begin, At
  <1>2. CASE confirmed
    <2> DEFINE d == [NewCall EXCEPT !.pc = "claim", !.key = k]
    <2>1. d.pc = "claim" /\ d.reply = "none"
      BY DEF NewCall
    <2>2. call' = [call EXCEPT ![p] = d]
      BY <1>2 DEF Begin, ToolManualAllowed
    <2> HIDE DEF d
    <2> QED BY <1>1, <2>1, <2>2, QuietStep
  <1>3. CASE ~confirmed
    <2> DEFINE d == [NewCall EXCEPT !.pc = "ended", !.key = k, !.reply = "blocked"]
    <2>1. d.pc = "ended" /\ d.reply = "blocked"
      BY DEF NewCall
    <2>2. call' = [call EXCEPT ![p] = d]
      BY <1>3 DEF Begin, ToolManualAllowed
    <2> HIDE DEF d
    <2> QED BY <1>1, <2>1, <2>2, QuietStep
  <1> QED BY <1>2, <1>3

\* Injecting, waiting and auditing are steps of the call alone.
LEMMA QuietSteps ==
    ASSUME IndInv, AnswerInv, NEW p \in Requests,
           \/ Inject(p) \/ Answer(p) \/ CallFails(p) \/ AuditError(p) \/ AuditSuccess(p)
           \/ Lose(p)
    PROVE  AnswerInv' /\ ContractStep
  <1> USE DEF At
  <1>1. CASE Inject(p) \/ CallFails(p)
    BY <1>1, QuietGoTo DEF Inject, CallFails, Steps, Running
  <1>2. CASE AuditSuccess(p)
    BY <1>2, QuietGoTo DEF AuditSuccess, Steps
  <1>3. CASE AuditError(p)
    BY <1>3, QuietReply DEF AuditError
  <1>4. CASE Lose(p)
    BY <1>4, QuietReply DEF Lose
  <1>5. CASE Answer(p)
    <2> DEFINE d == [call[p] EXCEPT !.pc = "complete", !.result = TextOf(posts[p].answer)]
    <2>1. /\ call' = [call EXCEPT ![p] = d] /\ UNCHANGED <<records, posts, calendar>>
          /\ call[p].pc = "await" /\ posts[p].at = "answered"
      BY <1>5 DEF Answer
    <2>2. call[p] \in Call /\ call[p].reply = "none" /\ posts[p].transaction = call[p].key
      BY <2>1 DEF IndInv, TypeOK, CallInv, CallFacts, PostInv
    <2>3. d.pc = "complete" /\ d.key = call[p].key /\ d.reply = "none"
      BY <2>2 DEF Call
    <2> HIDE DEF d
    <2> QED BY <2>1, <2>2, <2>3, QuietStep
  <1> QED BY <1>1, <1>1, <1>2, <1>3, <1>4, <1>5

\* A step that gives a key another record, and answers nobody.
LEMMA NewRecord ==
    ASSUME IndInv, AnswerInv, NEW p \in Requests, NEW d, NEW k \in Keys, NEW r,
           call' = [call EXCEPT ![p] = d], records' = [records EXCEPT ![k] = r],
           UNCHANGED <<posts, calendar>>,
           call[p].pc # "ended", d.reply = "none", d.key = k,
           d.pc \notin {"turn", "complete"}, records[k].status # "succeeded",
           d.pc = "audit.success" => r.status = "succeeded" /\ d.result = r.result,
           r.status # "succeeded" => r.result = "none"
    PROVE  /\ AnswerInv' /\ SentKeys' = SentKeys
           /\ \A j \in Keys : Answers(j)' = Answers(j)
           /\ records'[k] = r /\ \A j \in Keys : j # k => records'[j] = records[j]
  <1>1. /\ call'[p] = d /\ \A q \in Requests : q # p => call'[q] = call[q]
        /\ records'[k] = r /\ \A j \in Keys : j # k => records'[j] = records[j]
    BY DEF IndInv, TypeOK
  <1>2. \A q \in Requests : call[q].pc \in {"audit.success", "turn"} \/ Answered(q) =>
                                call[q].key \in Keys \ {k}
    BY DEF AnswerInv, Answered, IndInv, CallInv, CallFacts
  <1>3. AnswerInv'
    BY <1>1, <1>2 DEF AnswerInv, Answered
  <1>4. SentKeys' = SentKeys
    BY DEF SentKeys
  <1> QED BY <1>1, <1>3, <1>4, NoAnswer

\* What callers see when only the record of one key is another.
LEMMA OneKeySeen ==
    ASSUME NEW k \in Keys, SentKeys' = SentKeys, UNCHANGED calendar,
           \A j \in Keys : Answers(j)' = Answers(j),
           \A j \in Keys : j # k => records'[j] = records[j]
    PROVE  /\ [j \in Keys |-> ContractState(records[j])]' =
                  [[j \in Keys |-> ContractState(records[j])]
                      EXCEPT ![k] = ContractState(records'[k])]
           /\ [j \in Keys |-> records[j].result]' =
                  [[j \in Keys |-> records[j].result] EXCEPT ![k] = records'[k].result]
           /\ UNCHANGED <<SentKeys, calendar, [j \in Keys |-> Answers(j)]>>
  <1>1. [j \in Keys |-> ContractState(records[j])]' =
            [[j \in Keys |-> ContractState(records[j])] EXCEPT ![k] = ContractState(records'[k])]
    OBVIOUS
  <1>2. [j \in Keys |-> records[j].result]' =
            [[j \in Keys |-> records[j].result] EXCEPT ![k] = records'[k].result]
    OBVIOUS
  <1>3. [j \in Keys |-> Answers(j)]' = [j \in Keys |-> Answers(j)]
    OBVIOUS
  <1> QED BY <1>1, <1>2, <1>3

\* Statuses are what the contract knows of a record.
LEMMA StatesAre ==
    ASSUME NEW r
    PROVE  /\ r.status = "absent" => ContractState(r) = "free"
           /\ r.status = "in_progress" => ContractState(r) = "running"
           /\ r.status = "succeeded" => ContractState(r) = "done"
  BY DEF ContractState

\* Reserving a key starts the action; a key that is taken is only looked at.
LEMMA ClaimStarts ==
    ASSUME IndInv, AnswerInv, NEW p \in Requests, ClaimInsert(p)
    PROVE  AnswerInv' /\ ContractStep
  <1> DEFINE k == call[p].key
  <1>1. /\ call[p].pc = "claim" /\ UNCHANGED <<posts, calendar>>
        /\ k \in Keys /\ call[p].reply = "none" /\ call[p] \in Call
    BY DEF ClaimInsert, At, IndInv, TypeOK, CallInv, CallFacts
  <1>2. CASE records[k] # NoRecord
    <2>1. GoTo(p, "select") /\ UNCHANGED records
      BY <1>2 DEF ClaimInsert
    <2> QED BY <1>1, <2>1, QuietGoTo DEF Steps
  <1>3. CASE records[k] = NoRecord
    <2> DEFINE d == [call[p] EXCEPT !.pc = "inject"]
               r == [records[k] EXCEPT !.status = "in_progress"]
    <2>1. call' = [call EXCEPT ![p] = d] /\ records' = [records EXCEPT ![k] = r]
      BY <1>3 DEF ClaimInsert, GoTo
    <2>2. d.pc = "inject" /\ d.key = k /\ d.reply = "none"
      BY <1>1 DEF Call
    <2>3. /\ records[k].status = "absent" /\ r.status = "in_progress"
          /\ r.result = "none" /\ records[k].result = "none"
      BY <1>3 DEF NoRecord
    <2> HIDE DEF d, r
    <2>4. /\ AnswerInv' /\ SentKeys' = SentKeys
          /\ \A j \in Keys : Answers(j)' = Answers(j)
          /\ records'[k] = r /\ \A j \in Keys : j # k => records'[j] = records[j]
      BY <1>1, <2>1, <2>2, <2>3, NewRecord
    <2>5. Contract!Start(k)
      <3>1. /\ ContractState(records[k]) = "free" /\ ContractState(records'[k]) = "running"
            /\ records'[k].result = "none"
        BY <2>3, <2>4, StatesAre
      <3>2. [j \in Keys |-> records[j].result]' = [j \in Keys |-> records[j].result]
        BY <1>1, <2>3, <2>4
      <3> QED BY <1>1, <2>4, <3>1, <3>2, OneKeySeen DEF Contract!Start
    <2> QED BY <1>1, <2>4, <2>5 DEF ContractStep, Contract!Next
  <1> QED BY <1>2, <1>3

\* Abandoning releases the action.
LEMMA AbandonReleases ==
    ASSUME IndInv, AnswerInv, NEW p \in Requests, Abandon(p)
    PROVE  AnswerInv' /\ ContractStep
  <1> DEFINE k == call[p].key
             d == [call[p] EXCEPT !.pc = "audit.error"]
  <1>1. /\ call[p].pc = "abandon" /\ UNCHANGED <<posts, calendar>>
        /\ call' = [call EXCEPT ![p] = d]
        /\ k \in Keys /\ call[p].reply = "none" /\ call[p] \in Call
    BY DEF Abandon, At, GoTo, IndInv, TypeOK, CallInv, CallFacts
  <1>2. records[k].status = "in_progress" /\ records[k].result = "none"
    BY <1>1 DEF IndInv, OneRunPerKey, RunningFor, Running, AnswerInv
  <1>3. records' = [records EXCEPT ![k] = NoRecord]
    BY <1>2 DEF Abandon, IndInv, TypeOK
  <1>4. d.pc = "audit.error" /\ d.key = k /\ d.reply = "none"
    BY <1>1 DEF Call
  <1> HIDE DEF d
  <1>5. NoRecord.status = "absent" /\ NoRecord.result = "none"
    BY DEF NoRecord
  <1>6. /\ AnswerInv' /\ SentKeys' = SentKeys
        /\ \A j \in Keys : Answers(j)' = Answers(j)
        /\ records'[k] = NoRecord /\ \A j \in Keys : j # k => records'[j] = records[j]
    BY <1>1, <1>2, <1>3, <1>4, <1>5, NewRecord
  <1>7. Contract!Release(k)
    <2>1. ContractState(records[k]) = "running" /\ ContractState(records'[k]) = "free"
      BY <1>2, <1>5, <1>6, StatesAre
    <2>2. [j \in Keys |-> records[j].result]' = [j \in Keys |-> records[j].result]
      BY <1>1, <1>2, <1>5, <1>6
    <2> QED BY <1>1, <1>6, <2>1, <2>2, OneKeySeen DEF Contract!Release
  <1> QED BY <1>1, <1>6, <1>7 DEF ContractStep, Contract!Next

\* Completing finishes the action with the event the calendar holds, or the
\* refusal it sent.
LEMMA CompleteFinishes ==
    ASSUME IndInv, AnswerInv, NEW p \in Requests, Complete(p)
    PROVE  AnswerInv' /\ ContractStep
  <1> DEFINE k == call[p].key
             d == [call[p] EXCEPT !.pc = "audit.success"]
             r == [status |-> "succeeded", result |-> call[p].result]
  <1>1. /\ call[p].pc = "complete" /\ UNCHANGED <<posts, calendar>>
        /\ call' = [call EXCEPT ![p] = d]
        /\ k \in Keys /\ call[p].reply = "none" /\ call[p] \in Call
    BY DEF Complete, At, GoTo, IndInv, TypeOK, CallInv, CallFacts
  <1>2. records[k].status = "in_progress"
    BY <1>1 DEF IndInv, OneRunPerKey, RunningFor, Running
  <1>3. records' = [records EXCEPT ![k] = r]
    <2>1. records[k] # NoRecord
      BY <1>2 DEF NoRecord
    <2> QED BY <2>1 DEF Complete
  <1>4. d.pc = "audit.success" /\ d.key = k /\ d.reply = "none" /\ d.result = call[p].result
    BY <1>1 DEF Call
  <1>5. r.status = "succeeded" /\ r.result = call[p].result
    OBVIOUS
  <1> HIDE DEF d, r
  <1>6. /\ AnswerInv' /\ SentKeys' = SentKeys
        /\ \A j \in Keys : Answers(j)' = Answers(j)
        /\ records'[k] = r /\ \A j \in Keys : j # k => records'[j] = records[j]
    <2>1. /\ call[p].pc # "ended" /\ records[k].status # "succeeded"
          /\ d.pc \notin {"turn", "complete"} /\ d.result = r.result
          /\ d.pc = "audit.success" => r.status = "succeeded" /\ d.result = r.result
          /\ r.status # "succeeded" => r.result = "none"
      BY <1>1, <1>2, <1>4, <1>5
    <2> QED BY <1>1, <1>3, <1>4, <2>1, NewRecord
  <1>7. k \in SentKeys
    BY <1>1 DEF AnswerInv, SentKeys
  <1>8. call[p].result \in calendar[k] \cup {"refused"} /\ calendar[k] \subseteq Requests
    BY <1>1 DEF IndInv, TypeOK, CallInv, CallFacts, Told
  <1>9. PICK x \in Requests \cup {"refused"} : x = r.result /\ x \in calendar[k] \cup {"refused"}
    BY <1>5, <1>8
  <1>10. Contract!Finish(k, x)
    <2>1. ContractState(records[k]) = "running" /\ ContractState(records'[k]) = "done"
      BY <1>2, <1>5, <1>6, StatesAre
    <2> QED BY <1>1, <1>6, <1>7, <1>9, <2>1, OneKeySeen DEF Contract!Finish
  <1> QED BY <1>1, <1>6, <1>10 DEF ContractStep, Contract!Next

\* The call sends the action: its key is sent from then on.
LEMMA CallSends ==
    ASSUME IndInv, AnswerInv, NEW p \in Requests, CallTool(p)
    PROVE  AnswerInv' /\ ContractStep
  <1> DEFINE k == call[p].key
             d == [call[p] EXCEPT !.pc = "await"]
             post == [NoPost EXCEPT !.at = "sent", !.transaction = k]
  <1>1. /\ call[p].pc = "call" /\ call' = [call EXCEPT ![p] = d]
        /\ posts' = [posts EXCEPT ![p] = post] /\ UNCHANGED <<records, calendar>>
        /\ k \in Keys /\ call[p].reply = "none" /\ call[p] \in Call /\ posts[p] = NoPost
    BY DEF CallTool, At, GoTo, IndInv, TypeOK, CallInv, CallFacts
  <1>2. d.pc = "await" /\ d.reply = "none" /\ post.transaction = k
    BY <1>1 DEF Call, NoPost
  <1> HIDE DEF d, post
  <1>3. /\ call'[p] = d /\ posts'[p] = post
        /\ \A q \in Requests : q # p => call'[q] = call[q] /\ posts'[q] = posts[q]
    BY <1>1 DEF IndInv, TypeOK
  <1>4. AnswerInv'
    BY <1>1, <1>2, <1>3 DEF AnswerInv, Answered
  <1>5. \A j \in Keys : Answers(j)' = Answers(j)
    BY <1>1, <1>2, NoAnswer
  <1>6. SentKeys' = SentKeys \cup {k}
    BY <1>1, <1>2, <1>3, IdempotencyAssumption DEF SentKeys, NoPost
  <1>7. ContractState(records[k]) = "running"
    BY <1>1, StatesAre DEF IndInv, OneRunPerKey, RunningFor, Running
  <1>8. [j \in Keys |-> Answers(j)]' = [j \in Keys |-> Answers(j)]
    BY <1>5
  <1>9. Contract!Send(k)
    BY <1>1, <1>6, <1>7, <1>8 DEF Contract!Send
  <1> QED BY <1>1, <1>4, <1>9 DEF ContractStep, Contract!Next

\* The calendar makes the event of a key once, whichever post comes first.
LEMMA ServeTakesEffect ==
    ASSUME IndInv, AnswerInv, NEW p \in Requests, Serve(p)
    PROVE  AnswerInv' /\ ContractStep
  <1> DEFINE k == call[p].key
             earlier == {e \in calendar[k] : /\ posts[p].transaction # "none"
                                             /\ posts[e].transaction = posts[p].transaction}
  <1>1. posts[p].at = "sent" /\ UNCHANGED <<records, call>>
    BY DEF Serve
  <1>2. k \in Keys /\ posts[p].transaction = k /\ k # "none"
    BY <1>1, IdempotencyAssumption DEF IndInv, PostInv, CallInv, CallFacts
  <1>3. earlier = calendar[k]
    BY <1>2 DEF IndInv, EventInv
  <1>4. \A q \in Requests : posts'[q].transaction = posts[q].transaction
    BY DEF Serve, IndInv, TypeOK, Post
  <1>5. AnswerInv'
    BY <1>1, <1>4 DEF AnswerInv, Answered
  <1>6. SentKeys' = SentKeys /\ k \in SentKeys
    BY <1>2, <1>4 DEF SentKeys
  <1>7. \A j \in Keys : Answers(j)' = Answers(j)
    BY <1>1 DEF Answers
  <1>8. CASE earlier = {} /\ calendar' = [calendar EXCEPT ![k] = @ \cup {p}]
    <2>1. calendar[k] = {} /\ calendar' = [calendar EXCEPT ![k] = {p}]
      BY <1>3, <1>8
    <2>2. [j \in Keys |-> Answers(j)]' = [j \in Keys |-> Answers(j)]
      BY <1>7
    <2>3. Contract!TakeEffect(k, p)
      BY <1>1, <1>6, <2>1, <2>2 DEF Contract!TakeEffect
    <2>4. \E e \in Requests : Contract!TakeEffect(k, e)
      BY <2>3, Zenon
    <2> QED BY <1>2, <1>5, <2>4 DEF ContractStep, Contract!Next
  <1>9. CASE UNCHANGED calendar
    BY <1>1, <1>5, <1>6, <1>7, <1>9, Unseen
  <1> QED BY <1>8, <1>9 DEF Serve

\* Callers are told what is recorded.
LEMMA TellIsRecorded ==
    ASSUME IndInv, AnswerInv, NEW p \in Requests, NEW d,
           UNCHANGED <<records, posts, calendar>>, call' = [call EXCEPT ![p] = d],
           call[p].pc \notin {"new", "ended"}, d.pc = "ended", d.key = call[p].key,
           d.reply \in {"created", "replayed"},
           records[d.key].status = "succeeded", d.result = records[d.key].result
    PROVE  AnswerInv' /\ ContractStep
  <1> DEFINE k == call[p].key
  <1>1. /\ call'[p] = d /\ \A q \in Requests : q # p => call'[q] = call[q]
        /\ k \in Keys /\ call[p].reply = "none"
    BY DEF IndInv, TypeOK, CallInv, CallFacts
  <1>2. AnswerInv'
    BY <1>1 DEF AnswerInv, Answered
  <1>3. Answers(k)' = {records[k].result}
    BY <1>1, <1>2 DEF AnswerInv, Answered, Answers
  <1>4. \A j \in Keys : j # k => Answers(j)' = Answers(j)
    BY <1>1 DEF Answers
  <1>5. ContractState(records[k]) = "done" /\ SentKeys' = SentKeys
    BY StatesAre DEF SentKeys
  <1>6. [j \in Keys |-> Answers(j)]' =
            [[j \in Keys |-> Answers(j)] EXCEPT ![k] = {records[k].result}]
    BY <1>1, <1>3, <1>4
  <1>7. Contract!Tell(k)
    BY <1>1, <1>5, <1>6 DEF Contract!Tell
  <1> QED BY <1>1, <1>2, <1>7 DEF ContractStep, Contract!Next

\* Both the first caller and a later one are answered with the record.
LEMMA AnswersTell ==
    ASSUME IndInv, AnswerInv, NEW p \in Requests, ClaimSelect(p) \/ RecordTurn(p)
    PROVE  AnswerInv' /\ ContractStep
  <1>1. /\ call[p].pc \in {"select", "turn"} /\ call[p] \in Call
        /\ UNCHANGED <<records, posts, calendar>>
    BY DEF ClaimSelect, RecordTurn, At, IndInv, TypeOK
  <1>2. CASE RecordTurn(p)
    <2> DEFINE d == [call[p] EXCEPT !.pc = "ended", !.reply = "created"]
    <2>1. call' = [call EXCEPT ![p] = d] /\ call[p].pc = "turn"
      BY <1>2 DEF RecordTurn, Reply, At
    <2>2. /\ d.pc = "ended" /\ d.key = call[p].key /\ d.reply = "created"
          /\ d.result = call[p].result
      BY <1>1 DEF Call
    <2>3. records[call[p].key].status = "succeeded" /\ call[p].result = records[call[p].key].result
      BY <2>1 DEF AnswerInv
    <2> HIDE DEF d
    <2> QED BY <1>1, <2>1, <2>2, <2>3, TellIsRecorded
  <1>3. CASE ClaimSelect(p) /\ records[call[p].key].status = "succeeded"
    <2> DEFINE d == [call[p] EXCEPT !.pc = "ended", !.reply = "replayed",
                                    !.result = records[call[p].key].result]
    <2>1. call' = [call EXCEPT ![p] = d]
      BY <1>3 DEF ClaimSelect
    <2>2. /\ d.pc = "ended" /\ d.key = call[p].key /\ d.reply = "replayed"
          /\ d.result = records[call[p].key].result
      BY <1>1 DEF Call
    <2> HIDE DEF d
    <2> QED BY <1>1, <1>3, <2>1, <2>2, TellIsRecorded
  <1>4. CASE ClaimSelect(p) /\ records[call[p].key].status # "succeeded"
    BY <1>1, <1>4, QuietReply DEF ClaimSelect
  <1> QED BY <1>2, <1>3, <1>4

\* Every step is one of the contract, or one it does not see.
LEMMA NextContract == IndInv /\ AnswerInv /\ [Next]_vars => AnswerInv' /\ ContractStep
  <1> SUFFICES ASSUME IndInv, AnswerInv, [Next]_vars PROVE AnswerInv' /\ ContractStep
    OBVIOUS
  <1>1. CASE UNCHANGED vars
    <2>1. AnswerInv' /\ SentKeys' = SentKeys /\ \A k \in Keys : Answers(k)' = Answers(k)
      BY <1>1 DEF vars, AnswerInv, Answered, SentKeys, Answers
    <2> QED BY <1>1, <2>1, Unseen DEF vars
  <1>2. ASSUME NEW p \in Requests, CallStep(p)
        PROVE  AnswerInv' /\ ContractStep
    BY <1>2, QuietSteps, ClaimStarts, AbandonReleases, CompleteFinishes, CallSends,
       AnswersTell DEF CallStep
  <1> QED BY <1>1, <1>2, BeginIsQuiet, QuietSteps, ServeTakesEffect DEF Next

\* claim_idempotency_key, the calls, their losses and the calendar together
\* implement a single action per key: one run at a time, one event, one final
\* result, which every caller with the key is told.
THEOREM CallsImplementAction == Spec => ImplementsContract
  <1>1. Init => AnswerInv /\ Contract!Init
    BY InitAnswerInv
  <1>2. IndInv /\ AnswerInv /\ [Next]_vars => AnswerInv' /\ [Contract!Next]_(Contract!vars)
    BY NextContract DEF ContractStep
  <1> QED BY <1>1, <1>2, Inductive, PTL DEF Spec, ImplementsContract, Contract!Spec

=============================================================================
