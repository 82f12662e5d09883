------------------------------ MODULE Accounts ------------------------------
(***************************************************************************)
(* Accounts, sessions and password resets: auth/service.py over the tables *)
(* of auth/store.py, as the routes of auth/router.py use them.             *)
(*                                                                         *)
(* A call is one READ COMMITTED transaction: it reads when it begins, and  *)
(* between its read and its writes it verifies or hashes a password, which *)
(* takes long on purpose (PASSWORD_ITERATIONS), or sends an email.  Its    *)
(* writes take effect together when it commits: two resets of one user     *)
(* wait for each other at the user's row, so nothing comes between them.   *)
(*                                                                         *)
(* A password is named by how many resets the user had before it.          *)
(*                                                                         *)
(* An operator right before the definition it resembles, with a qualified  *)
(* name (ResetKeepsSessions, ...), is a defect the properties must notice. *)
(***************************************************************************)
EXTENDS Integers, FiniteSets

CONSTANTS
    Emails,         \* addresses, as normalize_email leaves them
    Workers,        \* concurrent calls
    MaxUsers, MaxTokens, MaxSessions, MaxResets     \* bounds: rows ever made, resets

ASSUME AccountsAssumption ==
    /\ "none" \notin Emails
    /\ {MaxUsers, MaxTokens, MaxSessions, MaxResets} \subseteq Nat

VARIABLES
    users,      \* table users: id -> its email and the number of its password
    sessions,   \* table user_sessions that have not expired
    tokens,     \* table password_reset_tokens: id -> its user and its status
    created,    \* ids of sessions ever made
    resets,     \* token -> resets made with it (observed, not in the program)
    work        \* the transaction of each worker

vars == <<users, sessions, tokens, created, resets, work>>

-----------------------------------------------------------------------------
UserIds == 1..MaxUsers
TokenIds == 1..MaxTokens
User == [email : Emails, password : 0..MaxResets]
Session == [id : 1..MaxSessions, user : UserIds, password : 0..MaxResets, late : BOOLEAN]
Token == [user : UserIds, status : {"mailed", "valid", "used", "expired"}]
Kinds == {"register", "login", "forgot", "reset"}

\* The user and the password a call read, and its reset token.
Work == [kind : Kinds \cup {"idle"}, email : Emails \cup {"none"}, user : 0..MaxUsers,
         password : 0..MaxResets, token : 0..MaxTokens]
NoWork == [kind |-> "idle", email |-> "none", user |-> 0, password |-> 0, token |-> 0]

At(w, kind) == work[w].kind = kind
Start(w, record) == work' = [work EXCEPT ![w] = record]
End(w) == work' = [work EXCEPT ![w] = NoWork]
WithEmail(e) == {u \in DOMAIN users : users[u].email = e}
Put(f, x, y) == [z \in DOMAIN f \cup {x} |-> IF z = x THEN y ELSE f[z]]

\* create_session, of a user and of the password the call knew.
CreateSession(u, password) ==
    /\ created < MaxSessions
    /\ created' = created + 1
    /\ sessions' = sessions \cup {[id |-> created', user |-> u, password |-> password,
                                  late |-> u \in DOMAIN users /\ password # users[u].password]}

-----------------------------------------------------------------------------
\* register_user reads the user of the email (409 if there is one) ...
BeginRegister(w, e) ==
    /\ At(w, "idle") /\ WithEmail(e) = {}
    /\ Start(w, [NoWork EXCEPT !.kind = "register", !.email = e])
    /\ UNCHANGED <<users, sessions, tokens, created, resets>>

CreateUserUnchecked(e) == TRUE

\* ... and another call may have made it by now: users.email is unique.
CreateUser(e) == WithEmail(e) = {}

Register(w) ==
    LET u == Cardinality(DOMAIN users) + 1 IN
    /\ At(w, "register")
    /\ IF CreateUser(work[w].email)
       THEN /\ u <= MaxUsers
            /\ users' = Put(users, u, [email |-> work[w].email, password |-> 0])
            /\ CreateSession(u, 0)
       ELSE UNCHANGED <<users, sessions, created>>
    /\ End(w)
    /\ UNCHANGED <<tokens, resets>>

\* login_user reads the hash and verifies the password against it ...
BeginLogin(w, u) ==
    /\ At(w, "idle")
    /\ Start(w, [NoWork EXCEPT !.kind = "login", !.user = u, !.password = users[u].password])
    /\ UNCHANGED <<users, sessions, tokens, created, resets>>

\* ... and makes a session, whatever the hash is by then.
Login(w) ==
    /\ At(w, "login")
    /\ CreateSession(work[w].user, work[w].password)
    /\ End(w)
    /\ UNCHANGED <<users, tokens, resets>>

\* logout deletes the session of its cookie; or the session expires.
Logout(s) ==
    /\ sessions' = sessions \ {s}
    /\ UNCHANGED <<users, tokens, created, resets, work>>

-----------------------------------------------------------------------------
\* request_password_reset makes a token and sends its link before it commits.
BeginForgot(w, u) ==
    LET t == Cardinality(DOMAIN tokens) + 1 IN
    /\ At(w, "idle")
    /\ t <= MaxTokens
    /\ tokens' = Put(tokens, t, [user |-> u, status |-> "mailed"])
    /\ Start(w, [NoWork EXCEPT !.kind = "forgot", !.user = u, !.token = t])
    /\ UNCHANGED <<users, sessions, created, resets>>

Forgot(w) ==
    /\ At(w, "forgot")
    /\ tokens' = [tokens EXCEPT ![work[w].token].status = "valid"]
    /\ End(w)
    /\ UNCHANGED <<users, sessions, created, resets>>

\* reset_password reads the user of a valid token, and hashes the new password ...
BeginReset(w, t) ==
    /\ At(w, "idle") /\ tokens[t].status = "valid"
    /\ Start(w, [NoWork EXCEPT !.kind = "reset", !.user = tokens[t].user, !.token = t])
    /\ UNCHANGED <<users, sessions, tokens, created, resets>>

ResetKeepsToken(w) ==
    /\ At(w, "reset")
    /\ users[work[w].user].password < MaxResets
    /\ users' = [users EXCEPT ![work[w].user].password = @ + 1]
    /\ sessions' = {s \in sessions : s.user # work[w].user}
    /\ resets' = [resets EXCEPT ![work[w].token] = @ + 1]
    /\ End(w)
    /\ UNCHANGED <<created, tokens>>

ResetKeepsSessions(w) ==
    /\ At(w, "reset")
    /\ users[work[w].user].password < MaxResets
    /\ users' = [users EXCEPT ![work[w].user].password = @ + 1]
    /\ tokens' = [tokens EXCEPT ![work[w].token].status = "used"]
    /\ resets' = [resets EXCEPT ![work[w].token] = @ + 1]
    /\ End(w)
    /\ UNCHANGED <<created, sessions>>

\* ... update_user_password, mark_password_reset_token_used and
\* delete_user_sessions, whatever the token is by then.
Reset(w) ==
    /\ At(w, "reset")
    /\ users[work[w].user].password < MaxResets
    /\ users' = [users EXCEPT ![work[w].user].password = @ + 1]
    /\ tokens' = [tokens EXCEPT ![work[w].token].status = "used"]
    /\ sessions' = {s \in sessions : s.user # work[w].user}
    /\ resets' = [resets EXCEPT ![work[w].token] = @ + 1]
    /\ End(w)
    /\ UNCHANGED created

Expire(t) ==
    /\ tokens[t].status = "valid"
    /\ tokens' = [tokens EXCEPT ![t].status = "expired"]
    /\ UNCHANGED <<users, sessions, created, resets, work>>

\* A call fails before it commits, or the password or the mail server does not
\* let it go on; a link sent before stays sent.
Fail(w) ==
    /\ ~At(w, "idle")
    /\ End(w)
    /\ UNCHANGED <<users, sessions, tokens, created, resets>>

-----------------------------------------------------------------------------
Init ==
    /\ users = [u \in {} |-> {}] /\ tokens = [t \in {} |-> {}]
    /\ sessions = {} /\ created = 0
    /\ resets = [t \in TokenIds |-> 0]
    /\ work = [w \in Workers |-> NoWork]

Next ==
    \/ \E w \in Workers :
          \/ \E e \in Emails : BeginRegister(w, e)
          \/ \E u \in DOMAIN users : BeginLogin(w, u) \/ BeginForgot(w, u)
          \/ \E t \in DOMAIN tokens : BeginReset(w, t)
          \/ Register(w) \/ Login(w) \/ Forgot(w) \/ Reset(w) \/ Fail(w)
    \/ \E s \in sessions : Logout(s)
    \/ \E t \in DOMAIN tokens : Expire(t)

Spec == Init /\ [][Next]_vars

-----------------------------------------------------------------------------
\* Type invariant: the tables and the calls, of which an ended one keeps nothing.
TypeOK ==
    /\ \E n \in 0..MaxUsers : users \in [1..n -> User]
    /\ \E n \in 0..MaxTokens : tokens \in [1..n -> Token]
    /\ sessions \subseteq Session
    /\ created \in 0..MaxSessions
    /\ resets \in [TokenIds -> Nat]
    /\ work \in [Workers -> Work]
    /\ \A w \in Workers : At(w, "idle") => work[w] = NoWork

\* Two registrations of one email that both find it free make one account
\* (test_register_rejects_duplicate_email_case_insensitively, in a race).
OneAccountPerEmail ==
    \A u, v \in DOMAIN users : users[u].email = users[v].email => u = v

\* A session that knows an old password is one whose login a reset overtook: a
\* reset revokes all others, of its own user (delete_user_sessions).
OldSessionsWereOvertaken ==
    \A s \in sessions :
        /\ s.user \in DOMAIN users
        /\ s.late \/ s.password = users[s.user].password

\* A token that has reset a password is not found by any call that asks for it
\* after that (mark_password_reset_token_used, and the status that
\* get_valid_password_reset_user_id asks for), whatever else is under way.  Those
\* that found it before may still use it.
UsedTokensAreNotFound ==
    [][\A w \in Workers : \A t \in DOMAIN tokens : BeginReset(w, t) => resets[t] = 0]_vars
=============================================================================
