-------------------------- MODULE OAuthCredentials --------------------------
(***************************************************************************)
(* The Microsoft connection of a user: auth/microsoft.py connects it, the  *)
(* credentials panel (api/mcp.py) replaces it, and every tool call reads   *)
(* it, refreshes it when it is about to expire, and uses it                *)
(* (inject_user_credentials of mcp_client/store.py).                       *)
(*                                                                         *)
(* Every statement is a transaction of its own; Microsoft is asked between *)
(* two of them.  A grant is one consent of a user; Microsoft numbers its   *)
(* tokens, and may refuse or accept a refresh token it has replaced.       *)
(*                                                                         *)
(* An operator right before the definition it resembles, with a qualified  *)
(* name (SaveStateShared, ...), is a defect the properties must notice.    *)
(***************************************************************************)
EXTENDS Integers, FiniteSets

CONSTANTS
    Users,
    Workers,                    \* concurrent requests
    MaxStates, MaxGrants, MaxTokens     \* bounds: flows started, consents, tokens of a grant

ASSUME OAuthAssumption ==
    "nobody" \notin Users /\ {MaxStates, MaxGrants, MaxTokens} \subseteq Nat

VARIABLES
    states,     \* table mcp_oauth_states: state -> the user who started it
    grants,     \* Microsoft: grant -> its user, and its newest token
    creds,      \* table mcp_user_credentials: user -> grant and token
    begun,      \* state -> the user who began it (observed)
    exchanged,  \* state -> codes exchanged for it (observed)
    work        \* the request of each worker

vars == <<states, grants, creds, begun, exchanged, work>>

-----------------------------------------------------------------------------
States == 1..MaxStates
Anybody == Users \cup {"nobody"}

\* Credentials in the table or in a request's hands: 0 is no grant.  Without
\* "refresh" Microsoft gave no refresh token; "fresh" is more than five minutes.
Creds == [grant : 0..MaxGrants, token : Nat, refresh : BOOLEAN, fresh : BOOLEAN]
NoCreds == [grant |-> 0, token |-> 0, refresh |-> FALSE, fresh |-> FALSE]
Grant == [user : Users, newest : Nat]
Steps == {"idle", "exchange", "connect", "check", "redeem", "store", "use"}
Work == [pc : Steps, user : Anybody, state : 0..MaxStates, creds : Creds]
NoWork == [pc |-> "idle", user |-> "nobody", state |-> 0, creds |-> NoCreds]

At(w, pc) == work[w].pc = pc
Goto(w, pc) == work' = [work EXCEPT ![w].pc = pc]
End(w) == work' = [work EXCEPT ![w] = NoWork]

-----------------------------------------------------------------------------
SaveStateShared(u) ==
    /\ states' = [states EXCEPT ![1] = u]
    /\ begun' = IF begun[1] = "nobody" THEN [begun EXCEPT ![1] = u] ELSE begun

\* save_oauth_state, of a state nobody has (token_urlsafe).
SaveState(u) ==
    \E s \in States :
        /\ begun[s] = "nobody" /\ \A r \in 1..(s - 1) : begun[r] # "nobody"
        /\ states' = [states EXCEPT ![s] = u]
        /\ begun' = [begun EXCEPT ![s] = u]

\* microsoft_start
Start(u) == SaveState(u) /\ UNCHANGED <<grants, creds, exchanged, work>>

\* The ten minutes of a state pass.
Expire(s) ==
    /\ states[s] # "nobody"
    /\ states' = [states EXCEPT ![s] = "nobody"]
    /\ UNCHANGED <<grants, creds, begun, exchanged, work>>

Exchanging(u, s) == [pc |-> "exchange", user |-> u, state |-> s, creds |-> NoCreds]

ConsumeKeeping(w, s) ==
    /\ states[s] # "nobody"
    /\ work' = [work EXCEPT ![w] = Exchanging(states[s], s)]
    /\ UNCHANGED states

\* consume_oauth_state: one DELETE that returns the user of a live state.
Consume(w, s) ==
    /\ states[s] # "nobody"
    /\ states' = [states EXCEPT ![s] = "nobody"]
    /\ work' = [work EXCEPT ![w] = Exchanging(states[s], s)]

\* microsoft_callback, which a browser may repeat: a dead state is a 400.
Callback(w, s) ==
    /\ At(w, "idle")
    /\ Consume(w, s)
    /\ UNCHANGED <<grants, creds, begun, exchanged>>

\* The exchange of the code: a new grant of the user who began the state and
\* consented, with a refresh token or without.
Exchange(w) ==
    LET g == Cardinality(DOMAIN grants) + 1 IN
    /\ At(w, "exchange") /\ g <= MaxGrants
    /\ grants' = [h \in DOMAIN grants \cup {g} |->
                    IF h = g THEN [user |-> begun[work[w].state], newest |-> 1] ELSE grants[h]]
    /\ exchanged' = [exchanged EXCEPT ![work[w].state] = @ + 1]
    /\ \E refresh \in BOOLEAN :
          work' = [work EXCEPT ![w].pc = "connect",
                     ![w].creds = [grant |-> g, token |-> 1, refresh |-> refresh, fresh |-> TRUE]]
    /\ UNCHANGED <<states, creds, begun>>

\* upsert_user_credentials of the callback: connected.
Connect(w) ==
    /\ At(w, "connect")
    /\ creds' = [creds EXCEPT ![work[w].user] = work[w].creds]
    /\ End(w)
    /\ UNCHANGED <<states, grants, begun, exchanged>>

-----------------------------------------------------------------------------
\* mcp_credentials: credentials entered by hand, which no grant stands behind.
Replace(u) ==
    /\ creds[u] # NoCreds
    /\ creds' = [creds EXCEPT ![u] = NoCreds]
    /\ UNCHANGED <<states, grants, begun, exchanged, work>>

\* The access token in the table comes within five minutes of its end.
Age(u) ==
    /\ creds[u].fresh
    /\ creds' = [creds EXCEPT ![u].fresh = FALSE]
    /\ UNCHANGED <<states, grants, begun, exchanged, work>>

\* get_user_credentials, for a tool call; without any the call goes without.
Read(w, u) ==
    /\ At(w, "idle") /\ creds[u].grant # 0
    /\ work' = [work EXCEPT ![w] = [NoWork EXCEPT !.pc = "check", !.user = u, !.creds = creds[u]]]
    /\ UNCHANGED <<states, grants, creds, begun, exchanged>>

\* refresh_microsoft_credentials_if_needed
Check(w) ==
    /\ At(w, "check")
    /\ Goto(w, IF work[w].creds.refresh /\ ~work[w].creds.fresh THEN "redeem" ELSE "use")
    /\ UNCHANGED <<states, grants, creds, begun, exchanged>>

\* The refresh token is redeemed for the grant's next token; one that was
\* replaced before may be refused, and then the old credentials are used.
Redeem(w) ==
    LET g == work[w].creds.grant
        next == grants[g].newest + 1 IN
    /\ At(w, "redeem")
    /\ \/ /\ next <= MaxTokens
          /\ grants' = [grants EXCEPT ![g].newest = next]
          /\ work' = [work EXCEPT ![w].pc = "store", ![w].creds.token = next,
                                  ![w].creds.fresh = TRUE]
       \/ /\ Goto(w, "use") /\ UNCHANGED grants
    /\ UNCHANGED <<states, creds, begun, exchanged>>

\* Its upsert, of what was read with the new tokens over it.
Store(w) ==
    /\ At(w, "store")
    /\ creds' = [creds EXCEPT ![work[w].user] = work[w].creds]
    /\ Goto(w, "use")
    /\ UNCHANGED <<states, grants, begun, exchanged>>

\* The tool call, with the credentials in the request's hands.
Use(w) ==
    /\ At(w, "use")
    /\ End(w)
    /\ UNCHANGED <<states, grants, creds, begun, exchanged>>

\* Microsoft or the database fails the request, which raises.
Fail(w) ==
    /\ ~At(w, "idle")
    /\ End(w)
    /\ UNCHANGED <<states, grants, creds, begun, exchanged>>

-----------------------------------------------------------------------------
Init ==
    /\ states = [s \in States |-> "nobody"] /\ begun = states
    /\ exchanged = [s \in States |-> 0]
    /\ grants = [g \in {} |-> {}]
    /\ creds = [u \in Users |-> NoCreds]
    /\ work = [w \in Workers |-> NoWork]

Next ==
    \/ \E u \in Users : Start(u) \/ Replace(u) \/ Age(u)
    \/ \E s \in States : Expire(s)
    \/ \E w \in Workers :
          \/ \E s \in States : Callback(w, s)
          \/ \E u \in Users : Read(w, u)
          \/ Exchange(w) \/ Connect(w) \/ Check(w) \/ Redeem(w) \/ Store(w) \/ Use(w) \/ Fail(w)

Spec == Init /\ [][Next]_vars

-----------------------------------------------------------------------------
\* Type invariant: the tables, Microsoft and the requests, of which an ended one
\* keeps nothing.
TypeOK ==
    /\ states \in [States -> Anybody] /\ begun \in [States -> Anybody]
    /\ exchanged \in [States -> Nat]
    /\ \E n \in 0..MaxGrants : grants \in [1..n -> Grant]
    /\ creds \in [Users -> Creds]
    /\ work \in [Workers -> Work]
    /\ \A w \in Workers : At(w, "idle") => work[w] = NoWork

\* What a user's calls hold, and what is stored for the user, comes of a flow
\* this user began, through any interleaving of flows and refreshes.
CredentialsAreOwn ==
    /\ \A u \in Users : creds[u].grant # 0 => grants[creds[u].grant].user = u
    /\ \A w \in Workers : work[w].creds.grant # 0 => grants[work[w].creds.grant].user = work[w].user

\* One flow connects once at most, however its callback is repeated
\* (test_oauth_state_can_only_be_used_once, for callbacks at once).
StatesAreUsedOnce == \A s \in States : exchanged[s] <= 1
=============================================================================
