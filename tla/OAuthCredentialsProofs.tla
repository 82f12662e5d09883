----------------------- MODULE OAuthCredentialsProofs -----------------------
(***************************************************************************)
(* Proofs, for any number of users, requests and flows, that credentials   *)
(* never reach another user and that one flow connects at most once.       *)
(***************************************************************************)
EXTENDS OAuthCredentials, FiniteSetTheorems, TLAPS

\* What a request holds at each step: a state that is dead and was never
\* exchanged, then credentials of a grant of its own user.
WorkFacts(w) ==
    /\ At(w, "idle") => work[w] = NoWork
    /\ At(w, "exchange") =>
           /\ work[w].state \in States /\ work[w].user \in Users
           /\ begun[work[w].state] = work[w].user
           /\ states[work[w].state] = "nobody" /\ exchanged[work[w].state] = 0
           /\ work[w].creds = NoCreds
    /\ work[w].pc \in {"connect", "check", "redeem", "store", "use"} =>
           work[w].user \in Users /\ work[w].creds.grant # 0
    /\ work[w].creds.grant # 0 =>
           /\ work[w].creds.grant \in DOMAIN grants
           /\ grants[work[w].creds.grant].user = work[w].user

WorkInv == \A w \in Workers : WorkFacts(w)

\* No two requests exchange a code for one state.
AloneInv ==
    \A v, w \in Workers :
        At(v, "exchange") /\ At(w, "exchange") /\ work[v].state = work[w].state => v = w

\* A live state is that of the user who began it, and was not exchanged yet.
StateInv ==
    \A s \in States :
        /\ states[s] \in {"nobody", begun[s]}
        /\ states[s] # "nobody" \/ begun[s] = "nobody" => exchanged[s] = 0
        /\ exchanged[s] <= 1

\* Credentials in the table are of a grant of their user.
CredsInv ==
    \A u \in Users :
        creds[u].grant # 0 =>
            creds[u].grant \in DOMAIN grants /\ grants[creds[u].grant].user = u

\* The inductive invariant.
IndInv == TypeOK /\ WorkInv /\ AloneInv /\ StateInv /\ CredsInv

-----------------------------------------------------------------------------
LEMMA BoundsTyped == MaxStates \in Nat /\ MaxGrants \in Nat
  BY OAuthAssumption

LEMMA NoWorkTyped == NoWork \in Work /\ NoCreds \in Creds
  BY OAuthAssumption DEF NoWork, Work, NoCreds, Creds, Steps, Anybody

\* Nobody is connected at the start (Init).
LEMMA InitIndInv == Init => IndInv
  <1> SUFFICES ASSUME Init PROVE IndInv
    OBVIOUS
  <1>1. grants \in [1..0 -> Grant]
    BY DEF Init
  <1>2. TypeOK
    BY <1>1, NoWorkTyped, OAuthAssumption DEF Init, TypeOK, Anybody, At
  <1>3. WorkInv /\ AloneInv
    BY DEF Init, WorkInv, WorkFacts, AloneInv, At, NoWork, NoCreds
  <1>4. StateInv /\ CredsInv
    BY DEF Init, StateInv, CredsInv, NoCreds
  <1> QED BY <1>2, <1>3, <1>4 DEF IndInv

\* A request goes on to d, which is no exchange, and nothing else changes.
LEMMA RequestGoesOn ==
    ASSUME IndInv, NEW w \in Workers, NEW d \in Work,
           work' = [work EXCEPT ![w] = d],
           UNCHANGED <<states, grants, creds, begun, exchanged>>,
           d.pc # "exchange",
           WorkFacts(w)'
    PROVE  IndInv'
  <1>1. work'[w] = d /\ \A v \in Workers : v # w => work'[v] = work[v]
    BY DEF IndInv, TypeOK
  <1>2. TypeOK'
    BY <1>1 DEF IndInv, TypeOK, WorkFacts, At
  <1>3. WorkInv'
    BY <1>1 DEF IndInv, WorkInv, WorkFacts, At
  <1>4. AloneInv'
    BY <1>1 DEF IndInv, AloneInv, At
  <1>5. StateInv' /\ CredsInv'
    BY DEF IndInv, StateInv, CredsInv
  <1> QED BY <1>2, <1>3, <1>4, <1>5 DEF IndInv

-----------------------------------------------------------------------------
\* Use ends a request, and so does its failure.
LEMMA EndStep ==
    ASSUME IndInv, NEW w \in Workers, End(w),
           UNCHANGED <<states, grants, creds, begun, exchanged>>
    PROVE  IndInv'
  <1>1. work'[w] = NoWork
    BY DEF End, IndInv, TypeOK
  <1>2. WorkFacts(w)'
    BY <1>1 DEF WorkFacts, At, NoWork, NoCreds
  <1> QED BY <1>2, NoWorkTyped, RequestGoesOn DEF End, NoWork

\* Check and a refused refresh move a request that holds credentials on.
LEMMA GotoStep ==
    ASSUME IndInv, NEW w \in Workers, NEW pc \in {"redeem", "use"}, Goto(w, pc),
           work[w].pc \in {"check", "redeem", "store"},
           UNCHANGED <<states, grants, creds, begun, exchanged>>
    PROVE  IndInv'
  <1> DEFINE d == [work[w] EXCEPT !.pc = pc]
  <1>1. work[w] \in Work
    BY DEF IndInv, TypeOK
  <1>2. /\ d \in Work /\ d.pc = pc
        /\ d.user = work[w].user /\ d.state = work[w].state /\ d.creds = work[w].creds
    BY <1>1 DEF Work, Steps
  <1>3. work' = [work EXCEPT ![w] = d] /\ work'[w] = d
    BY DEF Goto, IndInv, TypeOK
  <1> HIDE DEF d
  <1>4. WorkFacts(w)'
    BY <1>2, <1>3 DEF IndInv, WorkInv, WorkFacts, At
  <1> QED BY <1>2, <1>3, <1>4, RequestGoesOn

\* get_user_credentials hands a request the credentials of its own user.
LEMMA ReadStep ==
    ASSUME IndInv, NEW w \in Workers, NEW u \in Users, Read(w, u)
    PROVE  IndInv'
  <1> DEFINE d == [NoWork EXCEPT !.pc = "check", !.user = u, !.creds = creds[u]]
  <1>1. creds[u] \in Creds
    BY DEF IndInv, TypeOK
  <1>2. d \in Work /\ d.pc = "check" /\ d.user = u /\ d.creds = creds[u]
    BY <1>1, NoWorkTyped DEF NoWork, Work, Steps, Anybody
  <1>3. work' = [work EXCEPT ![w] = d] /\ work'[w] = d
    BY DEF Read, IndInv, TypeOK
  <1> HIDE DEF d
  <1>4. WorkFacts(w)'
    BY <1>2, <1>3 DEF Read, IndInv, CredsInv, WorkFacts, At
  <1> QED BY <1>2, <1>3, <1>4, RequestGoesOn DEF Read
-----------------------------------------------------------------------------
\* save_oauth_state: the state is new, so no request and no exchange knows it.
LEMMA StartStep ==
    ASSUME IndInv, NEW u \in Users, Start(u)
    PROVE  IndInv'
  <1>1. PICK s \in States : /\ begun[s] = "nobody"
                            /\ states' = [states EXCEPT ![s] = u]
                            /\ begun' = [begun EXCEPT ![s] = u]
    BY DEF Start, SaveState
  <1>2. UNCHANGED <<grants, creds, exchanged, work>>
    BY DEF Start
  <1>3. TypeOK'
    BY <1>1, <1>2 DEF IndInv, TypeOK, Anybody, At
  <1>4. \A w \in Workers : At(w, "exchange") => work[w].state # s
    BY <1>1, OAuthAssumption DEF IndInv, WorkInv, WorkFacts
  <1>5. WorkInv'
    BY <1>1, <1>2, <1>4 DEF IndInv, TypeOK, WorkInv, WorkFacts, At
  <1>6. StateInv'
    BY <1>1, <1>2 DEF IndInv, TypeOK, StateInv
  <1>7. AloneInv' /\ CredsInv'
    BY <1>2 DEF IndInv, AloneInv, CredsInv, At
  <1> QED BY <1>3, <1>5, <1>6, <1>7 DEF IndInv

\* A state runs out.
LEMMA ExpireStep ==
    ASSUME IndInv, NEW s \in States, Expire(s)
    PROVE  IndInv'
  <1>1. /\ states' = [states EXCEPT ![s] = "nobody"]
        /\ UNCHANGED <<grants, creds, begun, exchanged, work>>
    BY DEF Expire
  <1>2. TypeOK'
    BY <1>1 DEF IndInv, TypeOK, Anybody, At
  <1>3. WorkInv' /\ AloneInv' /\ CredsInv'
    BY <1>1 DEF IndInv, TypeOK, WorkInv, WorkFacts, AloneInv, CredsInv, At
  <1>4. StateInv'
    BY <1>1 DEF IndInv, TypeOK, StateInv, Expire
  <1> QED BY <1>2, <1>3, <1>4 DEF IndInv

\* consume_oauth_state takes a live state, which no request exchanges, away.
LEMMA CallbackStep ==
    ASSUME IndInv, NEW w \in Workers, NEW s \in States, Callback(w, s)
    PROVE  IndInv'
  <1> DEFINE d == Exchanging(states[s], s)
  <1>1. /\ states[s] # "nobody" /\ states' = [states EXCEPT ![s] = "nobody"]
        /\ work' = [work EXCEPT ![w] = d]
        /\ UNCHANGED <<grants, creds, begun, exchanged>>
    BY DEF Callback, Consume
  <1>2. states[s] \in Users /\ states[s] = begun[s] /\ exchanged[s] = 0
    BY <1>1 DEF IndInv, TypeOK, StateInv, Anybody
  <1>3. /\ d \in Work /\ d.pc = "exchange" /\ d.user = states[s] /\ d.state = s
        /\ d.creds = NoCreds
    <2>1. s \in 0..MaxStates
      BY BoundsTyped DEF States
    <2> QED BY <1>2, <2>1, NoWorkTyped DEF Exchanging, Work, Steps, Anybody
  <1> HIDE DEF d
  <1>4. work'[w] = d /\ \A v \in Workers : v # w => work'[v] = work[v]
    BY <1>1 DEF IndInv, TypeOK
  <1>5. TypeOK'
    BY <1>1, <1>3, <1>4 DEF IndInv, TypeOK, Anybody, At
  <1>6. \A v \in Workers : At(v, "exchange") => work[v].state # s
    BY <1>1 DEF IndInv, WorkInv, WorkFacts
  <1>7. states'[s] = "nobody" /\ \A r \in States : r # s => states'[r] = states[r]
    BY <1>1 DEF IndInv, TypeOK
  <1>8. WorkInv'
    <2>1. WorkFacts(w)'
      BY <1>1, <1>2, <1>3, <1>4, <1>7 DEF WorkFacts, At, NoCreds
    <2>2. \A v \in Workers : v # w => WorkFacts(v)'
      BY <1>1, <1>4, <1>6, <1>7 DEF IndInv, WorkInv, WorkFacts, At
    <2> QED BY <2>1, <2>2 DEF WorkInv
  <1>9. AloneInv'
    BY <1>3, <1>4, <1>6 DEF IndInv, AloneInv, At
  <1>10. StateInv' /\ CredsInv'
    BY <1>1, <1>2, <1>7 DEF IndInv, StateInv, CredsInv
  <1> QED BY <1>5, <1>8, <1>9, <1>10 DEF IndInv

\* The code is exchanged for a new grant of the user who began the state.
LEMMA ExchangeStep ==
    ASSUME IndInv, NEW w \in Workers, Exchange(w)
    PROVE  IndInv'
  <1> DEFINE g == Cardinality(DOMAIN grants) + 1
             s == work[w].state
             grant == [user |-> begun[s], newest |-> 1]
  <1>1. PICK n \in 0..MaxGrants : grants \in [1..n -> Grant]
    BY DEF IndInv, TypeOK
  <1>2. n \in Nat /\ g = n + 1 /\ g <= MaxGrants /\ g \notin DOMAIN grants
    <2>1. n \in Nat /\ DOMAIN grants = 1..n
      BY <1>1, BoundsTyped
    <2>2. Cardinality(1..n) = n
      BY <2>1, FS_Interval
    <2>3. g = n + 1
      BY <2>1, <2>2
    <2>4. g <= MaxGrants
      BY DEF Exchange
    <2> QED BY <2>1, <2>3, <2>4
  <1>3. /\ At(w, "exchange") /\ s \in States /\ work[w].user \in Users
        /\ begun[s] = work[w].user /\ states[s] = "nobody" /\ exchanged[s] = 0
    BY DEF Exchange, IndInv, WorkInv, WorkFacts
  <1>4. PICK refresh \in BOOLEAN :
            work' = [work EXCEPT ![w].pc = "connect",
                       ![w].creds = [grant |-> g, token |-> 1, refresh |-> refresh, fresh |-> TRUE]]
    BY DEF Exchange
  <1> DEFINE c == [grant |-> g, token |-> 1, refresh |-> refresh, fresh |-> TRUE]
             d == [work[w] EXCEPT !.pc = "connect", !.creds = c]
  <1>5. /\ exchanged' = [exchanged EXCEPT ![s] = @ + 1]
        /\ grants' = [h \in DOMAIN grants \cup {g} |-> IF h = g THEN grant ELSE grants[h]]
        /\ UNCHANGED <<states, creds, begun>>
    BY DEF Exchange
  <1>6. c \in [grant : 0..MaxGrants, token : {1}, refresh : BOOLEAN, fresh : BOOLEAN]
    BY <1>2, BoundsTyped
  <1>7. work[w] \in Work
    BY DEF IndInv, TypeOK
  <1> HIDE DEF g
  <1>8. /\ d.pc = "connect" /\ d.user = work[w].user /\ d.state = s
        /\ d.creds = c /\ d.creds.grant = g
    BY <1>7 DEF Work
  <1>9. work' = [work EXCEPT ![w] = d]
    BY <1>4, <1>7 DEF IndInv, TypeOK, Work
  <1>10. work'[w] = d /\ \A v \in Workers : v # w => work'[v] = work[v]
    BY <1>9 DEF IndInv, TypeOK
  <1>11. /\ grants' \in [1..g -> Grant] /\ grants'[g].user = work[w].user
         /\ \A h \in DOMAIN grants : h \in DOMAIN grants' /\ grants'[h] = grants[h]
    BY <1>1, <1>2, <1>3, <1>5 DEF Grant
  <1> HIDE DEF s, c, d
  <1>12. TypeOK'
    <2>1. d \in Work
      BY <1>6, <1>7 DEF c, d, Work, Creds, Steps
    <2>2. \A v \in Workers : At(v, "idle")' => work'[v] = NoWork
      BY <1>8, <1>10 DEF IndInv, TypeOK, At
    <2>3. exchanged' \in [States -> Nat]
      BY <1>3, <1>5 DEF IndInv, TypeOK
    <2>4. g \in 0..MaxGrants /\ grants' \in [1..g -> Grant]
      BY <1>2, <1>11, BoundsTyped
    <2> QED BY <1>5, <1>9, <2>1, <2>2, <2>3, <2>4 DEF IndInv, TypeOK
  <1>13. \A v \in Workers : v # w => (At(v, "exchange") => work[v].state # s)
    BY <1>3 DEF IndInv, AloneInv, s
  <1>14. /\ exchanged'[s] = 1
         /\ \A r \in States : r # s => exchanged'[r] = exchanged[r]
    BY <1>3, <1>5 DEF IndInv, TypeOK
  <1>15. g # 0 /\ g \in DOMAIN grants'
    BY <1>2, <1>11
  <1>16. WorkInv'
    <2>1. WorkFacts(w)'
      BY <1>3, <1>8, <1>10, <1>11, <1>15 DEF WorkFacts, At
    <2>2. \A v \in Workers : v # w => WorkFacts(v)'
      BY <1>5, <1>10, <1>11, <1>13, <1>14 DEF IndInv, WorkInv, WorkFacts, At
    <2> QED BY <2>1, <2>2 DEF WorkInv
  <1>17. AloneInv'
    BY <1>8, <1>10 DEF IndInv, AloneInv, At
  <1>18. StateInv'
    BY <1>3, <1>5, <1>14, OAuthAssumption DEF IndInv, StateInv
  <1>19. CredsInv'
    BY <1>5, <1>11 DEF IndInv, CredsInv
  <1> QED BY <1>12, <1>16, <1>17, <1>18, <1>19 DEF IndInv

-----------------------------------------------------------------------------
\* What a request of user u holds reaches the row of u alone.
LEMMA RowWritten ==
    ASSUME IndInv, NEW u \in Users, NEW c \in Creds,
           c.grant # 0 => c.grant \in DOMAIN grants /\ grants[c.grant].user = u,
           creds' = [creds EXCEPT ![u] = c], UNCHANGED grants
    PROVE  creds' \in [Users -> Creds] /\ CredsInv'
  <1>1. creds'[u] = c /\ \A v \in Users : v # u => creds'[v] = creds[v]
    BY DEF IndInv, TypeOK
  <1> QED BY <1>1 DEF IndInv, TypeOK, CredsInv

\* A row that changes leaves states, grants and requests alone.
LEMMA OnlyRowChanges ==
    ASSUME IndInv, UNCHANGED <<states, grants, begun, exchanged, work>>,
           creds' \in [Users -> Creds], CredsInv'
    PROVE  IndInv'
  <1>1. TypeOK'
    BY DEF IndInv, TypeOK, At
  <1>2. WorkInv' /\ AloneInv' /\ StateInv'
    BY DEF IndInv, WorkInv, WorkFacts, AloneInv, StateInv, At
  <1> QED BY <1>1, <1>2 DEF IndInv

\* mcp_credentials stores credentials of no grant.
LEMMA ReplaceStep ==
    ASSUME IndInv, NEW u \in Users, Replace(u)
    PROVE  IndInv'
  <1>1. creds' \in [Users -> Creds] /\ CredsInv'
    BY NoWorkTyped, RowWritten DEF Replace, NoCreds
  <1> QED BY <1>1, OnlyRowChanges DEF Replace

\* The access token of a row ages.
LEMMA AgeStep ==
    ASSUME IndInv, NEW u \in Users, Age(u)
    PROVE  IndInv'
  <1> DEFINE c == [creds[u] EXCEPT !.fresh = FALSE]
  <1>1. creds[u] \in Creds
    BY DEF IndInv, TypeOK
  <1>2. c \in Creds /\ c.grant = creds[u].grant
    BY <1>1 DEF Creds
  <1>3. creds' = [creds EXCEPT ![u] = c]
    BY DEF Age
  <1> HIDE DEF c
  <1>4. creds' \in [Users -> Creds] /\ CredsInv'
    <2>1. c.grant # 0 => c.grant \in DOMAIN grants /\ grants[c.grant].user = u
      BY <1>2 DEF IndInv, CredsInv
    <2> QED BY <1>2, <1>3, <2>1, RowWritten DEF Age
  <1> QED BY <1>4, OnlyRowChanges DEF Age

\* A request that holds credentials writes them to the row of its user.
LEMMA WritesOwnRow ==
    ASSUME IndInv, NEW w \in Workers, work[w].pc \in {"connect", "store"},
           creds' = [creds EXCEPT ![work[w].user] = work[w].creds], UNCHANGED grants
    PROVE  creds' \in [Users -> Creds] /\ CredsInv'
  <1>1. work[w].user \in Users /\ work[w].creds \in Creds
    BY DEF IndInv, TypeOK, WorkInv, WorkFacts, Work
  <1>2. work[w].creds.grant \in DOMAIN grants /\ grants[work[w].creds.grant].user = work[w].user
    BY DEF IndInv, WorkInv, WorkFacts
  <1> QED BY <1>1, <1>2, RowWritten

\* The callback stores what it exchanged (upsert_user_credentials) and is over.
LEMMA ConnectStep ==
    ASSUME IndInv, NEW w \in Workers, Connect(w)
    PROVE  IndInv'
  <1>1. creds' \in [Users -> Creds] /\ CredsInv'
    BY WritesOwnRow DEF Connect, At
  <1>2. work'[w] = NoWork /\ \A v \in Workers : v # w => work'[v] = work[v]
    BY DEF Connect, End, IndInv, TypeOK
  <1>3. TypeOK'
    BY <1>1, <1>2, NoWorkTyped DEF Connect, End, IndInv, TypeOK, At
  <1>4. WorkInv' /\ AloneInv'
    BY <1>2 DEF Connect, IndInv, WorkInv, WorkFacts, AloneInv, At, NoWork, NoCreds
  <1>5. StateInv'
    BY DEF Connect, IndInv, StateInv
  <1> QED BY <1>1, <1>3, <1>4, <1>5 DEF IndInv

\* A refresh stores what was read with the new tokens over it.
LEMMA StoreStep ==
    ASSUME IndInv, NEW w \in Workers, Store(w)
    PROVE  IndInv'
  <1> DEFINE d == [work[w] EXCEPT !.pc = "use"]
  <1>1. creds' \in [Users -> Creds] /\ CredsInv'
    BY WritesOwnRow DEF Store, At
  <1>2. work[w] \in Work
    BY DEF IndInv, TypeOK
  <1>3. d \in Work /\ d.pc = "use" /\ d.user = work[w].user /\ d.creds = work[w].creds
    BY <1>2 DEF Work, Steps
  <1>4. work' = [work EXCEPT ![w] = d]
    BY DEF Store, Goto
  <1> HIDE DEF d
  <1>5. work'[w] = d /\ \A v \in Workers : v # w => work'[v] = work[v]
    BY <1>4 DEF IndInv, TypeOK
  <1>6. TypeOK'
    BY <1>1, <1>3, <1>4, <1>5 DEF Store, IndInv, TypeOK, At
  <1>7. WorkInv' /\ AloneInv'
    BY <1>3, <1>5 DEF Store, IndInv, WorkInv, WorkFacts, AloneInv, At
  <1>8. StateInv'
    BY DEF Store, IndInv, StateInv
  <1> QED BY <1>1, <1>6, <1>7, <1>8 DEF IndInv

\* A redeemed refresh token is the grant's next one, of the same user.
LEMMA RedeemStep ==
    ASSUME IndInv, NEW w \in Workers, Redeem(w)
    PROVE  IndInv'
  <1> DEFINE g == work[w].creds.grant
             next == grants[g].newest + 1
             c == [[work[w].creds EXCEPT !.token = next] EXCEPT !.fresh = TRUE]
             d == [work[w] EXCEPT !.pc = "store", !.creds = c]
  <1>1. CASE Goto(w, "use") /\ UNCHANGED grants
    BY <1>1, GotoStep DEF Redeem, At
  <1>2. CASE /\ grants' = [grants EXCEPT ![g].newest = next]
             /\ work' = [work EXCEPT ![w].pc = "store", ![w].creds.token = next,
                                     ![w].creds.fresh = TRUE]
    <2>1. PICK n \in 0..MaxGrants : grants \in [1..n -> Grant]
      BY DEF IndInv, TypeOK
    <2>2. g \in DOMAIN grants /\ grants[g] \in Grant /\ next \in Nat
      BY <2>1 DEF Redeem, At, IndInv, WorkInv, WorkFacts, Grant
    <2>3. work[w] \in Work /\ work[w].creds \in Creds
      BY DEF IndInv, TypeOK, Work
    <2>4. work' = [work EXCEPT ![w] = d]
      BY <1>2, <2>3 DEF IndInv, TypeOK, Work, Creds
    <2>5. c \in Creds /\ c.grant = g
      BY <2>2, <2>3 DEF Creds
    <2> HIDE DEF c
    <2>6. d \in Work /\ d.pc = "store" /\ d.user = work[w].user /\ d.creds.grant = g
      BY <2>3, <2>5 DEF Work, Steps
    <2>7. /\ grants' \in [1..n -> Grant]
          /\ \A h \in DOMAIN grants : h \in DOMAIN grants' /\ grants'[h].user = grants[h].user
      BY <1>2, <2>1, <2>2 DEF Grant
    <2> HIDE DEF d, g, next
    <2>8. work'[w] = d /\ \A v \in Workers : v # w => work'[v] = work[v]
      BY <2>4 DEF IndInv, TypeOK
    <2>9. TypeOK'
      BY <2>4, <2>6, <2>7, <2>8 DEF Redeem, IndInv, TypeOK, At
    <2>10. WorkInv'
      <3>1. WorkFacts(w)'
        BY <2>6, <2>7, <2>8 DEF Redeem, IndInv, WorkInv, WorkFacts, At, g
      <3>2. \A v \in Workers : v # w => WorkFacts(v)'
        BY <2>7, <2>8 DEF Redeem, IndInv, WorkInv, WorkFacts, At
      <3> QED BY <3>1, <3>2 DEF WorkInv
    <2>11. AloneInv'
      BY <2>6, <2>8 DEF IndInv, AloneInv, At
    <2>12. StateInv' /\ CredsInv'
      BY <2>7 DEF Redeem, IndInv, StateInv, CredsInv
    <2> QED BY <2>9, <2>10, <2>11, <2>12 DEF IndInv
  <1> QED BY <1>1, <1>2 DEF Redeem

-----------------------------------------------------------------------------
\* Nothing changes at all.
LEMMA StutterStep ==
    ASSUME IndInv, UNCHANGED vars
    PROVE  IndInv'
  <1>1. TypeOK'
    BY DEF vars, IndInv, TypeOK, At
  <1>2. WorkInv' /\ AloneInv' /\ StateInv' /\ CredsInv'
    BY DEF vars, IndInv, WorkInv, WorkFacts, AloneInv, StateInv, CredsInv, At
  <1> QED BY <1>1, <1>2 DEF IndInv

\* Every step keeps the invariant.
LEMMA NextIndInv == IndInv /\ [Next]_vars => IndInv'
  <1> SUFFICES ASSUME IndInv, [Next]_vars PROVE IndInv'
    OBVIOUS
  <1>1. ASSUME NEW w \in Workers, Check(w) PROVE IndInv'
    BY <1>1, GotoStep DEF Check, At
  <1>2. ASSUME NEW w \in Workers, Use(w) \/ Fail(w) PROVE IndInv'
    BY <1>2, EndStep DEF Use, Fail
  <1>3. CASE UNCHANGED vars
    BY <1>3, StutterStep
  <1> QED BY <1>1, <1>2, <1>3, StartStep, ReplaceStep, AgeStep, ExpireStep, CallbackStep,
             ReadStep, ExchangeStep, ConnectStep, RedeemStep, StoreStep DEF Next

-----------------------------------------------------------------------------
\* Flows, grants, rows and requests stay consistent with each other.
THEOREM Inductive == Spec => []IndInv
  BY InitIndInv, NextIndInv, PTL DEF Spec

\* The tables, Microsoft and the requests stay well formed.
THEOREM TypeCorrect == Spec => []TypeOK
  <1>1. IndInv => TypeOK
    BY DEF IndInv
  <1> QED BY <1>1, Inductive, PTL

\* No interleaving of flows, refreshes and tool calls gives a user the
\* credentials of another (microsoft_callback, inject_user_credentials).
THEOREM CredentialsStayOwn == Spec => []CredentialsAreOwn
  <1>1. IndInv => CredentialsAreOwn
    BY DEF IndInv, WorkInv, WorkFacts, CredsInv, CredentialsAreOwn
  <1> QED BY <1>1, Inductive, PTL

\* A flow connects at most once, however often its callback is sent
\* (consume_oauth_state).
THEOREM FlowsConnectOnce == Spec => []StatesAreUsedOnce
  <1>1. IndInv => StatesAreUsedOnce
    BY DEF IndInv, StateInv, StatesAreUsedOnce
  <1> QED BY <1>1, Inductive, PTL
=============================================================================
