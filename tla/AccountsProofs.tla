--------------------------- MODULE AccountsProofs ---------------------------
(***************************************************************************)
(* Proofs, for any number of accounts, tokens and calls, that an email has *)
(* one account, that a reset leaves no session of an older login behind,   *)
(* and that a token that reset a password is not found again.              *)
(***************************************************************************)
EXTENDS Accounts, FiniteSetTheorems, TLAPS

\* What a call holds: an account that is there and a password it had, a token of
\* its own that only its email knows, or a token and the user of it.
WorkFacts(w) ==
    /\ At(w, "idle") => work[w] = NoWork
    /\ At(w, "register") => work[w].email \in Emails
    /\ At(w, "login") => work[w].user \in DOMAIN users
    /\ At(w, "forgot") => /\ work[w].token \in DOMAIN tokens
                          /\ tokens[work[w].token].status = "mailed"
    /\ At(w, "reset") => /\ work[w].token \in DOMAIN tokens
                         /\ tokens[work[w].token].status # "mailed"
                         /\ work[w].user = tokens[work[w].token].user

WorkInv == \A w \in Workers : WorkFacts(w)

\* Each token is made by one call.
AloneInv ==
    \A v, w \in Workers :
        At(v, "forgot") /\ At(w, "forgot") /\ work[v].token = work[w].token => v = w

\* A token that can be found, now or once it is made or mailed, was never used.
TokenInv ==
    /\ \A t \in DOMAIN tokens : tokens[t].user \in DOMAIN users
    /\ \A t \in TokenIds :
          (t \in DOMAIN tokens => tokens[t].status \in {"mailed", "valid"}) => resets[t] = 0

\* The inductive invariant.
IndInv ==
    /\ TypeOK /\ WorkInv /\ AloneInv /\ TokenInv
    /\ OneAccountPerEmail /\ OldSessionsWereOvertaken

-----------------------------------------------------------------------------
LEMMA BoundsTyped ==
    /\ MaxUsers \in Nat /\ MaxTokens \in Nat /\ MaxSessions \in Nat /\ MaxResets \in Nat
  BY AccountsAssumption

LEMMA NoWorkTyped == NoWork \in Work
  BY BoundsTyped DEF NoWork, Work

\* No account, no token and no call at the start (Init).
LEMMA InitIndInv == Init => IndInv
  <1> SUFFICES ASSUME Init PROVE IndInv
    OBVIOUS
  <1>1. /\ users \in [1..0 -> User] /\ tokens \in [1..0 -> Token]
        /\ DOMAIN users = {} /\ DOMAIN tokens = {}
    BY DEF Init
  <1>2. \A w \in Workers : work[w] = NoWork /\ At(w, "idle")
    BY DEF Init, At, NoWork
  <1>3. TypeOK
    <2>1. 0 \in 0..MaxUsers /\ 0 \in 0..MaxTokens /\ created \in 0..MaxSessions
      BY BoundsTyped DEF Init
    <2>2. sessions \subseteq Session /\ resets \in [TokenIds -> Nat] /\ work \in [Workers -> Work]
      BY NoWorkTyped DEF Init
    <2> QED BY <1>1, <1>2, <2>1, <2>2 DEF TypeOK
  <1>4. WorkInv /\ AloneInv
    BY <1>2 DEF WorkInv, WorkFacts, AloneInv, At
  <1>6. TokenInv
    BY <1>1 DEF Init, TokenInv
  <1>7. OneAccountPerEmail /\ OldSessionsWereOvertaken
    BY <1>1 DEF Init, OneAccountPerEmail, OldSessionsWereOvertaken
  <1> QED BY <1>3, <1>4, <1>6, <1>7 DEF IndInv

\* A call that begins, or ends without a reset: nothing outside changes.
LEMMA CallGoesOn ==
    ASSUME IndInv, NEW w \in Workers, NEW d \in Work,
           work' = [work EXCEPT ![w] = d],
           UNCHANGED <<users, sessions, tokens, created, resets>>,
           d.kind # "forgot",
           WorkFacts(w)',
           TokenInv'
    PROVE  IndInv'
  <1>1. work'[w] = d /\ \A v \in Workers : v # w => work'[v] = work[v]
    BY DEF IndInv, TypeOK
  <1>2. TypeOK'
    BY <1>1 DEF IndInv, TypeOK, WorkFacts, At
  <1>3. WorkInv'
    BY <1>1 DEF IndInv, WorkInv, WorkFacts, At
  <1>4. AloneInv'
    BY <1>1 DEF IndInv, AloneInv, At
  <1>5. OneAccountPerEmail' /\ OldSessionsWereOvertaken'
    BY DEF IndInv, OneAccountPerEmail, OldSessionsWereOvertaken
  <1> QED BY <1>2, <1>3, <1>4, <1>5 DEF IndInv

\* With the same tokens and resets, and no account gone, TokenInv stays.
LEMMA TokensKept ==
    ASSUME IndInv, UNCHANGED <<tokens, resets>>, DOMAIN users \subseteq DOMAIN users'
    PROVE  TokenInv'
  BY DEF IndInv, TokenInv

-----------------------------------------------------------------------------
\* A call fails, or a login or a registration found out too late.
LEMMA EndsUnchanged ==
    ASSUME IndInv, NEW w \in Workers, End(w),
           UNCHANGED <<users, sessions, tokens, created, resets>>
    PROVE  IndInv'
  <1>1. work'[w] = NoWork /\ \A v \in Workers : v # w => work'[v] = work[v]
    BY DEF End, IndInv, TypeOK
  <1>2. WorkFacts(w)'
    BY <1>1 DEF WorkFacts, At, NoWork
  <1>3. TokenInv'
    BY TokensKept
  <1> QED BY <1>2, <1>3, NoWorkTyped, CallGoesOn DEF End, NoWork

\* register_user and login_user read what their call then holds.
LEMMA BeginRegisterStep ==
    ASSUME IndInv, NEW w \in Workers, NEW e \in Emails, BeginRegister(w, e)
    PROVE  IndInv'
  <1> DEFINE d == [NoWork EXCEPT !.kind = "register", !.email = e]
  <1>1. d \in Work /\ d.kind = "register" /\ d.email = e
    BY NoWorkTyped DEF NoWork, Work, Kinds
  <1>2. work' = [work EXCEPT ![w] = d]
    BY DEF BeginRegister, Start
  <1> HIDE DEF d
  <1>3. work'[w] = d /\ \A v \in Workers : v # w => work'[v] = work[v]
    BY <1>2 DEF IndInv, TypeOK
  <1>4. WorkFacts(w)'
    BY <1>1, <1>3 DEF WorkFacts, At
  <1>5. TokenInv'
    BY TokensKept DEF BeginRegister
  <1> QED BY <1>1, <1>2, <1>4, <1>5, CallGoesOn DEF BeginRegister

\* The accounts there are have an id, an email and a password.
LEMMA UserTyped ==
    ASSUME IndInv, NEW u \in DOMAIN users
    PROVE  u \in UserIds /\ users[u] \in User
  <1>1. PICK n \in 0..MaxUsers : users \in [1..n -> User]
    BY DEF IndInv, TypeOK
  <1> QED BY <1>1, BoundsTyped DEF UserIds

LEMMA TokenTyped ==
    ASSUME IndInv, NEW t \in DOMAIN tokens
    PROVE  t \in TokenIds /\ tokens[t] \in Token
  <1>1. PICK n \in 0..MaxTokens : tokens \in [1..n -> Token]
    BY DEF IndInv, TypeOK
  <1> QED BY <1>1, BoundsTyped DEF TokenIds

LEMMA BeginLoginStep ==
    ASSUME IndInv, NEW w \in Workers, NEW u \in DOMAIN users, BeginLogin(w, u)
    PROVE  IndInv'
  <1> DEFINE d == [NoWork EXCEPT !.kind = "login", !.user = u, !.password = users[u].password]
  <1>1. u \in 0..MaxUsers /\ users[u].password \in 0..MaxResets
    BY UserTyped, BoundsTyped DEF UserIds, User
  <1>2. d \in Work /\ d.kind = "login" /\ d.user = u
    BY <1>1, NoWorkTyped DEF NoWork, Work, Kinds
  <1>3. work' = [work EXCEPT ![w] = d]
    BY DEF BeginLogin, Start
  <1> HIDE DEF d
  <1>4. work'[w] = d /\ \A v \in Workers : v # w => work'[v] = work[v]
    BY <1>3 DEF IndInv, TypeOK
  <1>5. WorkFacts(w)'
    BY <1>2, <1>4 DEF WorkFacts, At, BeginLogin
  <1>6. TokenInv'
    BY TokensKept DEF BeginLogin
  <1> QED BY <1>2, <1>3, <1>5, <1>6, CallGoesOn DEF BeginLogin

\* reset_password found the token valid.
LEMMA BeginResetStep ==
    ASSUME IndInv, NEW w \in Workers, NEW t \in DOMAIN tokens, BeginReset(w, t)
    PROVE  IndInv'
  <1> DEFINE d == [NoWork EXCEPT !.kind = "reset", !.user = tokens[t].user, !.token = t]
  <1>1. /\ t \in TokenIds /\ t \in 0..MaxTokens
        /\ tokens[t].user \in 0..MaxUsers
    BY TokenTyped, UserTyped, BoundsTyped
       DEF TokenIds, UserIds, Token, IndInv, TokenInv, BeginReset
  <1>2. d \in Work /\ d.kind = "reset" /\ d.user = tokens[t].user /\ d.token = t
    BY <1>1, NoWorkTyped DEF NoWork, Work, Kinds
  <1>3. work' = [work EXCEPT ![w] = d]
    BY DEF BeginReset, Start
  <1> HIDE DEF d
  <1>4. work'[w] = d /\ \A v \in Workers : v # w => work'[v] = work[v]
    BY <1>3 DEF IndInv, TypeOK
  <1>5. WorkFacts(w)'
    BY <1>2, <1>4 DEF WorkFacts, At, BeginReset
  <1>6. TokenInv'
    BY TokensKept DEF BeginReset
  <1> QED BY <1>2, <1>3, <1>5, <1>6, CallGoesOn DEF BeginReset

-----------------------------------------------------------------------------
\* A call that ends without having been a reset leaves the others' facts.
LEMMA OthersKept ==
    ASSUME IndInv, NEW w \in Workers, End(w),
           DOMAIN users \subseteq DOMAIN users',
           \A t \in DOMAIN tokens : t \in DOMAIN tokens' /\ tokens'[t].user = tokens[t].user,
           \A t \in DOMAIN tokens : \A v \in Workers :
               v # w /\ At(v, "forgot") /\ work[v].token = t => tokens'[t].status = "mailed",
           \A t \in DOMAIN tokens : tokens[t].status # "mailed" => tokens'[t].status # "mailed"
    PROVE  WorkInv' /\ AloneInv' /\ work' \in [Workers -> Work]
           /\ \A v \in Workers : At(v, "idle")' => work'[v] = NoWork
  <1>1. work'[w] = NoWork /\ \A v \in Workers : v # w => work'[v] = work[v]
    BY DEF End, IndInv, TypeOK
  <1>2. WorkFacts(w)'
    BY <1>1 DEF WorkFacts, At, NoWork
  <1>3. ASSUME NEW v \in Workers, v # w PROVE WorkFacts(v)'
    BY <1>1, <1>3 DEF IndInv, WorkInv, WorkFacts, At
  <1>4. AloneInv'
    BY <1>1 DEF IndInv, AloneInv, At, NoWork
  <1>5. work' \in [Workers -> Work]
    BY NoWorkTyped DEF End, IndInv, TypeOK
  <1>6. \A v \in Workers : At(v, "idle")' => work'[v] = NoWork
    BY <1>1 DEF IndInv, TypeOK, At
  <1> QED BY <1>2, <1>3, <1>4, <1>5, <1>6 DEF WorkInv

\* create_session adds one session, of a password there can be.
LEMMA SessionTyped ==
    ASSUME IndInv, NEW u \in UserIds, NEW password \in 0..MaxResets,
           CreateSession(u, password)
    PROVE  /\ created' \in 0..MaxSessions /\ sessions' \subseteq Session
           /\ \A s \in sessions' : s \in sessions \/
                  /\ s.user = u /\ s.password = password
                  /\ s.late = (u \in DOMAIN users /\ password # users[u].password)
  <1>1. created \in 0..MaxSessions /\ created < MaxSessions /\ created' = created + 1
    BY DEF IndInv, TypeOK, CreateSession
  <1>2. created' \in 1..MaxSessions
    BY <1>1, BoundsTyped
  <1> DEFINE s == [id |-> created', user |-> u, password |-> password,
                   late |-> u \in DOMAIN users /\ password # users[u].password]
  <1>3. s \in Session
    BY <1>2 DEF Session
  <1>4. sessions' = sessions \cup {s}
    BY DEF CreateSession
  <1> QED BY <1>2, <1>3, <1>4, BoundsTyped DEF IndInv, TypeOK

\* login_user makes a session of the password it verified.
LEMMA LoginStep ==
    ASSUME IndInv, NEW w \in Workers, Login(w)
    PROVE  IndInv'
  <1> DEFINE u == work[w].user
             password == work[w].password
  <1>1. u \in DOMAIN users /\ u \in UserIds /\ password \in 0..MaxResets
    BY UserTyped DEF Login, IndInv, WorkInv, WorkFacts, TypeOK, Work
  <1>2. CreateSession(u, password) /\ UNCHANGED <<users, tokens, resets>> /\ End(w)
    BY DEF Login
  <1> HIDE DEF u, password
  <1>3. TypeOK' /\ WorkInv' /\ AloneInv'
    <2>1. \A t \in DOMAIN tokens : \A v \in Workers :
              v # w /\ At(v, "forgot") /\ work[v].token = t => tokens'[t].status = "mailed"
      BY <1>2 DEF IndInv, WorkInv, WorkFacts
    <2>2. /\ WorkInv' /\ AloneInv' /\ work' \in [Workers -> Work]
          /\ \A v \in Workers : At(v, "idle")' => work'[v] = NoWork
      BY <1>2, <2>1, OthersKept
    <2>3. created' \in 0..MaxSessions /\ sessions' \subseteq Session
      BY <1>1, <1>2, SessionTyped
    <2> QED BY <1>2, <2>2, <2>3 DEF IndInv, TypeOK
  <1>4. TokenInv'
    BY <1>2, TokensKept
  <1>5. OneAccountPerEmail'
    BY <1>2 DEF IndInv, OneAccountPerEmail
  <1>6. OldSessionsWereOvertaken'
    <2>1. \A s \in sessions' : s \in sessions \/
              (s.user = u /\ s.late = (password # users[u].password) /\ s.password = password)
      BY <1>1, <1>2, SessionTyped
    <2> QED BY <1>1, <1>2, <2>1 DEF IndInv, OldSessionsWereOvertaken
  <1> QED BY <1>3, <1>4, <1>5, <1>6 DEF IndInv

\* register_user inserts an account with an email and an id that are new.
LEMMA RegisterStep ==
    ASSUME IndInv, NEW w \in Workers, Register(w)
    PROVE  IndInv'
  <1> DEFINE u == Cardinality(DOMAIN users) + 1
             e == work[w].email
             account == [email |-> e, password |-> 0]
  <1>1. CASE ~CreateUser(e)
    BY <1>1, EndsUnchanged DEF Register
  <1>2. CASE CreateUser(e)
    <2>1. PICK n \in 0..MaxUsers : users \in [1..n -> User]
      BY DEF IndInv, TypeOK
    <2>2. n \in Nat /\ DOMAIN users = 1..n /\ Cardinality(1..n) = n
      BY <2>1, BoundsTyped, FS_Interval
    <2>3. u = n + 1 /\ u \notin DOMAIN users
      BY <2>2
    <2>4. /\ u <= MaxUsers /\ users' = Put(users, u, account) /\ CreateSession(u, 0)
          /\ UNCHANGED <<tokens, resets>> /\ End(w)
      BY <1>2 DEF Register
    <2>5. e \in Emails /\ \A v \in DOMAIN users : users[v].email # e
      BY <1>2 DEF Register, CreateUser, WithEmail, IndInv, WorkInv, WorkFacts
    <2> HIDE DEF u, e
    <2>6. u \in UserIds /\ 0 \in 0..MaxResets /\ account \in User
      BY <2>2, <2>3, <2>4, <2>5, BoundsTyped DEF UserIds, User
    <2>7. /\ users' \in [1..u -> User] /\ DOMAIN users' = DOMAIN users \cup {u}
          /\ users'[u] = account /\ \A v \in DOMAIN users : users'[v] = users[v]
      BY <2>1, <2>2, <2>3, <2>4, <2>6 DEF Put
    <2>8. u \in 0..MaxUsers
      BY <2>6, BoundsTyped DEF UserIds
    <2>9. TypeOK' /\ WorkInv' /\ AloneInv'
      <3>1. \A t \in DOMAIN tokens : \A v \in Workers :
                v # w /\ At(v, "forgot") /\ work[v].token = t => tokens'[t].status = "mailed"
        BY <2>4 DEF IndInv, WorkInv, WorkFacts
      <3>2. /\ WorkInv' /\ AloneInv' /\ work' \in [Workers -> Work]
            /\ \A v \in Workers : At(v, "idle")' => work'[v] = NoWork
        BY <2>4, <2>7, <3>1, OthersKept
      <3>3. created' \in 0..MaxSessions /\ sessions' \subseteq Session
        BY <2>4, <2>6, SessionTyped
      <3> QED BY <2>4, <2>7, <2>8, <3>2, <3>3 DEF IndInv, TypeOK
    <2>10. TokenInv'
      BY <2>4, <2>7, TokensKept
    <2>11. OneAccountPerEmail'
      BY <2>5, <2>7 DEF IndInv, OneAccountPerEmail
    <2>12. OldSessionsWereOvertaken'
      <3>1. \A s \in sessions' : s \in sessions \/ (s.user = u /\ s.password = 0)
        BY <2>4, <2>6, SessionTyped
      <3>2. \A s \in sessions : s.user \in DOMAIN users' /\ users'[s.user] = users[s.user]
        BY <2>7 DEF IndInv, OldSessionsWereOvertaken
      <3> QED BY <2>7, <3>1, <3>2 DEF IndInv, OldSessionsWereOvertaken
    <2> QED BY <2>9, <2>10, <2>11, <2>12 DEF IndInv
  <1> QED BY <1>1, <1>2

\* A session ends.
LEMMA LogoutStep ==
    ASSUME IndInv, NEW s \in sessions, Logout(s)
    PROVE  IndInv'
  <1>1. sessions' \subseteq sessions /\ UNCHANGED <<users, tokens, created, resets, work>>
    BY DEF Logout
  <1>2. TypeOK'
    BY <1>1 DEF IndInv, TypeOK, At
  <1>3. WorkInv' /\ AloneInv' /\ TokenInv'
    BY <1>1 DEF IndInv, WorkInv, WorkFacts, AloneInv, TokenInv, At
  <1>4. OneAccountPerEmail' /\ OldSessionsWereOvertaken'
    BY <1>1 DEF IndInv, OneAccountPerEmail, OldSessionsWereOvertaken
  <1> QED BY <1>2, <1>3, <1>4 DEF IndInv

-----------------------------------------------------------------------------
\* The tokens change, but neither whom they are of nor what can be found.
LEMMA StatusChanges ==
    ASSUME IndInv, NEW t \in DOMAIN tokens, NEW status \in {"valid", "used", "expired"},
           tokens' = [tokens EXCEPT ![t].status = status]
    PROVE  /\ \E n \in 0..MaxTokens : tokens' \in [1..n -> Token]
           /\ DOMAIN tokens' = DOMAIN tokens
           /\ \A r \in DOMAIN tokens : tokens'[r].user = tokens[r].user
           /\ tokens'[t].status = status
           /\ \A r \in DOMAIN tokens : r # t => tokens'[r] = tokens[r]
  <1>1. PICK n \in 0..MaxTokens : tokens \in [1..n -> Token]
    BY DEF IndInv, TypeOK
  <1>2. tokens' \in [1..n -> Token]
    BY <1>1 DEF Token
  <1>3. /\ DOMAIN tokens' = DOMAIN tokens
        /\ \A r \in DOMAIN tokens : tokens'[r].user = tokens[r].user
        /\ tokens'[t].status = status
        /\ \A r \in DOMAIN tokens : r # t => tokens'[r] = tokens[r]
    BY <1>1 DEF Token
  <1> QED BY <1>1, <1>2, <1>3

\* request_password_reset makes a token that no call knows.
LEMMA BeginForgotStep ==
    ASSUME IndInv, NEW w \in Workers, NEW u \in DOMAIN users, BeginForgot(w, u)
    PROVE  IndInv'
  <1> DEFINE t == Cardinality(DOMAIN tokens) + 1
             token == [user |-> u, status |-> "mailed"]
             d == [NoWork EXCEPT !.kind = "forgot", !.user = u, !.token = t]
  <1>1. PICK n \in 0..MaxTokens : tokens \in [1..n -> Token]
    BY DEF IndInv, TypeOK
  <1>2. n \in Nat /\ DOMAIN tokens = 1..n /\ Cardinality(1..n) = n
    BY <1>1, BoundsTyped, FS_Interval
  <1>3. t = n + 1 /\ t \notin DOMAIN tokens
    BY <1>2
  <1>4. /\ t <= MaxTokens /\ tokens' = Put(tokens, t, token) /\ work' = [work EXCEPT ![w] = d]
        /\ At(w, "idle") /\ UNCHANGED <<users, sessions, created, resets>>
    BY DEF BeginForgot, Start
  <1> HIDE DEF t
  <1>5. t \in TokenIds /\ t \in 0..MaxTokens /\ u \in UserIds /\ u \in 0..MaxUsers
    BY <1>2, <1>3, <1>4, BoundsTyped, UserTyped DEF TokenIds, UserIds
  <1>6. token \in Token /\ token.user = u /\ token.status = "mailed"
    BY <1>5 DEF Token
  <1>7. d \in Work /\ d.kind = "forgot" /\ d.token = t
    BY <1>5, NoWorkTyped DEF NoWork, Work, Kinds
  <1> HIDE DEF d, token
  <1>8. /\ tokens' \in [1..t -> Token] /\ DOMAIN tokens' = DOMAIN tokens \cup {t}
        /\ tokens'[t] = token /\ \A r \in DOMAIN tokens : tokens'[r] = tokens[r]
    BY <1>1, <1>2, <1>3, <1>4, <1>6 DEF Put
  <1>9. work'[w] = d /\ \A v \in Workers : v # w => work'[v] = work[v]
    BY <1>4 DEF IndInv, TypeOK
  <1>10. TypeOK'
    BY <1>4, <1>5, <1>7, <1>8, <1>9 DEF IndInv, TypeOK, At
  <1>11. WorkInv'
    <2>1. WorkFacts(w)'
      BY <1>6, <1>7, <1>8, <1>9 DEF WorkFacts, At
    <2>2. \A v \in Workers : v # w => WorkFacts(v)'
      BY <1>4, <1>8, <1>9 DEF IndInv, WorkInv, WorkFacts, At
    <2> QED BY <2>1, <2>2 DEF WorkInv
  <1>12. AloneInv'
    BY <1>3, <1>7, <1>9 DEF IndInv, WorkInv, WorkFacts, AloneInv, At
  <1>13. TokenInv'
    <2>1. \A r \in DOMAIN tokens' : tokens'[r].user \in DOMAIN users'
      BY <1>4, <1>6, <1>8 DEF IndInv, TokenInv
    <2>2. \A r \in TokenIds :
              (r \in DOMAIN tokens' => tokens'[r].status \in {"mailed", "valid"}) => resets[r] = 0
      BY <1>3, <1>8 DEF IndInv, TokenInv
    <2> QED BY <1>4, <2>1, <2>2 DEF TokenInv
  <1>14. OneAccountPerEmail' /\ OldSessionsWereOvertaken'
    BY <1>4 DEF IndInv, OneAccountPerEmail, OldSessionsWereOvertaken
  <1> QED BY <1>10, <1>11, <1>12, <1>13, <1>14 DEF IndInv

\* The call commits: its token, which nobody used, can be found.
LEMMA ForgotStep ==
    ASSUME IndInv, NEW w \in Workers, Forgot(w)
    PROVE  IndInv'
  <1> DEFINE t == work[w].token
  <1>1. /\ At(w, "forgot") /\ t \in DOMAIN tokens /\ tokens[t].status = "mailed"
        /\ tokens' = [tokens EXCEPT ![t].status = "valid"]
        /\ End(w) /\ UNCHANGED <<users, sessions, created, resets>>
    BY DEF Forgot, IndInv, WorkInv, WorkFacts
  <1>2. \A v \in Workers : v # w /\ At(v, "forgot") => work[v].token # t
    BY <1>1 DEF IndInv, AloneInv
  <1> HIDE DEF t
  <1>3. /\ \E n \in 0..MaxTokens : tokens' \in [1..n -> Token]
        /\ DOMAIN tokens' = DOMAIN tokens
        /\ \A r \in DOMAIN tokens : tokens'[r].user = tokens[r].user
        /\ tokens'[t].status = "valid"
        /\ \A r \in DOMAIN tokens : r # t => tokens'[r] = tokens[r]
    BY <1>1, StatusChanges
  <1>4. TypeOK' /\ WorkInv' /\ AloneInv'
    <2>1. \A r \in DOMAIN tokens : \A v \in Workers :
              v # w /\ At(v, "forgot") /\ work[v].token = r => tokens'[r].status = "mailed"
      BY <1>2, <1>3 DEF IndInv, WorkInv, WorkFacts
    <2>2. \A r \in DOMAIN tokens : tokens[r].status # "mailed" => tokens'[r].status # "mailed"
      BY <1>3
    <2>3. /\ WorkInv' /\ AloneInv' /\ work' \in [Workers -> Work]
          /\ \A v \in Workers : At(v, "idle")' => work'[v] = NoWork
      BY <1>1, <1>3, <2>1, <2>2, OthersKept
    <2> QED BY <1>1, <1>3, <2>3 DEF IndInv, TypeOK
  <1>5. TokenInv'
    BY <1>1, <1>3 DEF IndInv, TokenInv
  <1>6. OneAccountPerEmail' /\ OldSessionsWereOvertaken'
    BY <1>1 DEF IndInv, OneAccountPerEmail, OldSessionsWereOvertaken
  <1> QED BY <1>4, <1>5, <1>6 DEF IndInv

\* A token runs out.
LEMMA ExpireStep ==
    ASSUME IndInv, NEW t \in DOMAIN tokens, Expire(t)
    PROVE  IndInv'
  <1>1. /\ tokens[t].status = "valid" /\ tokens' = [tokens EXCEPT ![t].status = "expired"]
        /\ UNCHANGED <<users, sessions, created, resets, work>>
    BY DEF Expire
  <1>2. /\ \E n \in 0..MaxTokens : tokens' \in [1..n -> Token]
        /\ DOMAIN tokens' = DOMAIN tokens
        /\ \A r \in DOMAIN tokens : tokens'[r].user = tokens[r].user
        /\ tokens'[t].status = "expired"
        /\ \A r \in DOMAIN tokens : r # t => tokens'[r] = tokens[r]
    BY <1>1, StatusChanges
  <1>3. TypeOK'
    BY <1>1, <1>2 DEF IndInv, TypeOK, At
  <1>4. WorkInv' /\ AloneInv'
    BY <1>1, <1>2 DEF IndInv, WorkInv, WorkFacts, AloneInv, At
  <1>5. TokenInv'
    BY <1>1, <1>2 DEF IndInv, TokenInv, At
  <1>6. OneAccountPerEmail' /\ OldSessionsWereOvertaken'
    BY <1>1 DEF IndInv, OneAccountPerEmail, OldSessionsWereOvertaken
  <1> QED BY <1>3, <1>4, <1>5, <1>6 DEF IndInv

\* A reset: one more made with its token, which is not found any more.
LEMMA ResetStep ==
    ASSUME IndInv, NEW w \in Workers, Reset(w)
    PROVE  IndInv'
  <1> DEFINE t == work[w].token
             u == work[w].user
  <1>1. /\ At(w, "reset") /\ t \in DOMAIN tokens /\ u = tokens[t].user
        /\ u \in DOMAIN users /\ t \in TokenIds
    BY TokenTyped DEF Reset, IndInv, WorkInv, WorkFacts, TokenInv
  <1>2. /\ users[u].password < MaxResets /\ users' = [users EXCEPT ![u].password = @ + 1]
        /\ tokens' = [tokens EXCEPT ![t].status = "used"]
        /\ sessions' = {s \in sessions : s.user # u}
        /\ resets' = [resets EXCEPT ![t] = @ + 1]
        /\ End(w) /\ created' = created
    BY DEF Reset
  <1>3. \A v \in Workers : At(v, "forgot") => work[v].token # t
    BY <1>1 DEF IndInv, WorkInv, WorkFacts
  <1>4. work[w].token = t
    OBVIOUS
  <1> HIDE DEF t, u
  <1>5. /\ \E n \in 0..MaxTokens : tokens' \in [1..n -> Token]
        /\ DOMAIN tokens' = DOMAIN tokens
        /\ \A r \in DOMAIN tokens : tokens'[r].user = tokens[r].user
        /\ tokens'[t].status = "used"
        /\ \A r \in DOMAIN tokens : r # t => tokens'[r] = tokens[r]
    BY <1>1, <1>2, StatusChanges
  <1>6. PICK n \in 0..MaxUsers : users \in [1..n -> User]
    BY DEF IndInv, TypeOK
  <1>7. users[u] \in User /\ users[u].password + 1 \in 0..MaxResets
    BY <1>1, <1>2, UserTyped, BoundsTyped DEF User
  <1>8. /\ users' \in [1..n -> User] /\ DOMAIN users' = DOMAIN users
        /\ \A v \in DOMAIN users : users'[v].email = users[v].email
        /\ \A v \in DOMAIN users : v # u => users'[v] = users[v]
    BY <1>1, <1>2, <1>6, <1>7 DEF User
  <1>9. resets[t] \in Nat /\ resets' \in [TokenIds -> Nat]
        /\ resets'[t] = resets[t] + 1 /\ \A r \in TokenIds : r # t => resets'[r] = resets[r]
    BY <1>1, <1>2 DEF IndInv, TypeOK
  <1>10. WorkInv' /\ AloneInv' /\ work' \in [Workers -> Work]
         /\ \A v \in Workers : At(v, "idle")' => work'[v] = NoWork
    <2>1. \A r \in DOMAIN tokens : \A v \in Workers :
              v # w /\ At(v, "forgot") /\ work[v].token = r => tokens'[r].status = "mailed"
      BY <1>3, <1>5 DEF IndInv, WorkInv, WorkFacts
    <2>2. \A r \in DOMAIN tokens : tokens[r].status # "mailed" => tokens'[r].status # "mailed"
      BY <1>5
    <2> QED BY <1>2, <1>5, <1>8, <2>1, <2>2, OthersKept
  <1>11. TypeOK'
    BY <1>2, <1>5, <1>8, <1>9, <1>10 DEF IndInv, TypeOK
  <1>12. TokenInv'
    <2>1. \A r \in TokenIds :
              (r \in DOMAIN tokens' => tokens'[r].status \in {"mailed", "valid"}) => resets'[r] = 0
      BY <1>1, <1>5, <1>9 DEF IndInv, TokenInv
    <2>2. \A r \in DOMAIN tokens' : tokens'[r].user \in DOMAIN users'
      BY <1>5, <1>8 DEF IndInv, TokenInv
    <2> QED BY <2>1, <2>2 DEF TokenInv
  <1>13. OneAccountPerEmail'
    BY <1>8 DEF IndInv, OneAccountPerEmail
  <1>14. OldSessionsWereOvertaken'
    BY <1>2, <1>8 DEF IndInv, OldSessionsWereOvertaken
  <1> QED BY <1>10, <1>11, <1>12, <1>13, <1>14 DEF IndInv

-----------------------------------------------------------------------------
\* Nothing changes at all.
LEMMA StutterStep ==
    ASSUME IndInv, UNCHANGED vars
    PROVE  IndInv'
  <1>1. TypeOK'
    BY DEF vars, IndInv, TypeOK, At
  <1>2. WorkInv' /\ AloneInv' /\ TokenInv'
    BY DEF vars, IndInv, WorkInv, WorkFacts, AloneInv, TokenInv, At
  <1>3. OneAccountPerEmail' /\ OldSessionsWereOvertaken'
    BY DEF vars, IndInv, OneAccountPerEmail, OldSessionsWereOvertaken
  <1> QED BY <1>1, <1>2, <1>3 DEF IndInv

\* Every step keeps the invariant.
LEMMA NextIndInv == IndInv /\ [Next]_vars => IndInv'
  <1> SUFFICES ASSUME IndInv, [Next]_vars PROVE IndInv'
    OBVIOUS
  <1>1. ASSUME NEW w \in Workers, Fail(w) PROVE IndInv'
    BY <1>1, EndsUnchanged DEF Fail
  <1>2. CASE UNCHANGED vars
    BY <1>2, StutterStep
  <1> QED BY <1>1, <1>2, BeginRegisterStep, BeginLoginStep, BeginForgotStep, BeginResetStep,
             RegisterStep, LoginStep, ForgotStep, ResetStep, LogoutStep, ExpireStep DEF Next

-----------------------------------------------------------------------------
\* Accounts, sessions, tokens and calls stay consistent with each other.
THEOREM Inductive == Spec => []IndInv
  BY InitIndInv, NextIndInv, PTL DEF Spec

\* The tables and the calls stay well formed (auth/store.py).
THEOREM TypeCorrect == Spec => []TypeOK
  <1>1. IndInv => TypeOK
    BY DEF IndInv
  <1> QED BY <1>1, Inductive, PTL

\* Registrations that race never make two accounts of one email
\* (register_user, and the unique users.email).
THEOREM EmailsAreUnique == Spec => []OneAccountPerEmail
  <1>1. IndInv => OneAccountPerEmail
    BY DEF IndInv
  <1> QED BY <1>1, Inductive, PTL

\* A session that outlives a reset is one the reset overtook at its login
\* (delete_user_sessions).
THEOREM ResetsRevokeSessions == Spec => []OldSessionsWereOvertaken
  <1>1. IndInv => OldSessionsWereOvertaken
    BY DEF IndInv
  <1> QED BY <1>1, Inductive, PTL

\* A token that has reset a password is not found again, for any number of tokens
\* and calls (mark_password_reset_token_used).
THEOREM UsedTokensStaySpent == Spec => UsedTokensAreNotFound
  <1>1. ASSUME IndInv, NEW w \in Workers, NEW t \in DOMAIN tokens, BeginReset(w, t)
        PROVE  resets[t] = 0
    BY <1>1, TokenTyped DEF BeginReset, IndInv, TokenInv
  <1>2. IndInv => [\A w \in Workers : \A t \in DOMAIN tokens : BeginReset(w, t) => resets[t] = 0]_vars
    BY <1>1
  <1> QED BY <1>2, Inductive, PTL DEF UsedTokensAreNotFound
=============================================================================
