--------------------------- MODULE AuthSessions ---------------------------
(***************************************************************************)
(* auth-service (auth_service.py, user_repository.py): accounts, refresh     *)
(* tokens, password resets and MFA.                                         *)
(*                                                                          *)
(* A request reads its rows, tests them, writes, and get_db commits after    *)
(* the handler; an exception rolls everything back, what the handler wrote   *)
(* on purpose before it raised too. The UPDATE of a user names the version   *)
(* of the row as the request first read it. Only refresh and logout leave    *)
(* the row of the user alone. What a request writes counts as one step: the  *)
(* locks of the rows it writes keep writers of the same rows out.           *)
(***************************************************************************)
EXTENDS DbSessions, Integers, FiniteSets

CONSTANTS
    Users,          \* email addresses, and the accounts registered for them
    Passwords,
    Secrets,        \* MFA secrets
    Roles,
    Tokens,         \* bound: refresh tokens ever issued, by jti
    ResetTokens,    \* bound: password reset tokens ever issued
    MaxAttempts,    \* MAX_LOGIN_ATTEMPTS
    MaxVersion      \* bound: rows of users change while below this version

ASSUME AuthAssumption ==
    /\ MaxAttempts \in Nat \ {0} /\ MaxVersion \in Nat
    /\ None \notin Tokens \cup Secrets \cup Users

VARIABLES
    user,           \* auth.users
    token,          \* auth.refresh_tokens
    reset,          \* auth.password_reset_tokens
    authReq,        \* the state of each session
    proved,         \* history: the secret whose code the user showed last, by user
    wrong           \* history: wrong passwords since the last login, by user

authVars == <<user, token, reset, authReq, proved, wrong>>

User == [password: Passwords, role: Roles, banned: BOOLEAN, mfa: BOOLEAN,
         secret: Secrets \cup {None}, failed: Nat, locked: BOOLEAN, version: Nat]

\* password, from and raced are history: the password that opened the session, the token
\* that was rotated, and whether it, or one before it, was revoked during its refresh.
Token == [u: Users, live: BOOLEAN, password: Passwords, from: Tokens \cup {None}, raced: BOOLEAN]
Reset == [u: Users, used: BOOLEAN, times: Nat, raced: BOOLEAN]

ASSUME NoRowAssumption == None \notin User \cup Token \cup Reset

\* The requests between their reads and their writes. arg is what the client wants:
\* a password, a secret, a role, a ban, or nothing.
UserReq == [pc: {"login", "verify", "update"}, u: Users, row: User, arg: {None}]
             \cup [pc: {"change"}, u: Users, row: User, arg: Passwords]
             \cup [pc: {"setup"}, u: Users, row: User, arg: Secrets]
             \cup [pc: {"role"}, u: Users, row: User, arg: Roles]
             \cup [pc: {"ban"}, u: Users, row: User, arg: BOOLEAN]
RegisterReq == [pc: {"register"}, u: Users, arg: Passwords]
RefreshReq == [pc: {"rotate", "issue"}, t: Tokens]
FindReq == [pc: {"find"}, k: ResetTokens, arg: Passwords]
ResetReq == [pc: {"reset"}, k: ResetTokens, u: Users, row: User, arg: Passwords]

AuthTypeOK ==
    /\ user \in [Users -> User \cup {None}]
    /\ token \in [Tokens -> Token \cup {None}]
    /\ reset \in [ResetTokens -> Reset \cup {None}]
    /\ authReq \in [Sessions -> {Idle} \cup UserReq \cup RegisterReq \cup RefreshReq
                                  \cup FindReq \cup ResetReq]
    /\ proved \in [Users -> Secrets \cup {None}]
    /\ wrong \in [Users -> 0..MaxAttempts]

AuthInit ==
    /\ user = [u \in Users |-> None]
    /\ token = [t \in Tokens |-> None]
    /\ reset = [k \in ResetTokens |-> None]
    /\ authReq = [s \in Sessions |-> Idle]
    /\ proved = [u \in Users |-> None]
    /\ wrong = [u \in Users |-> 0]

-----------------------------------------------------------------------------
(* Repositories *)

Ask(s, req) ==
    /\ authReq[s] = Idle
    /\ authReq' = [authReq EXCEPT ![s] = req]
    /\ UNCHANGED <<user, token, reset, proved, wrong>>

Answer(s) == authReq' = [authReq EXCEPT ![s] = Idle]

\* get_db, for a handler that wrote and then raised: the session is rolled back.
AfterError(before, written) == before

\* RefreshTokenRepository.create
Issue(t, tokens, u, password, from, raced) ==
    [tokens EXCEPT ![t] = [u |-> u, live |-> TRUE, password |-> password,
                           from |-> from, raced |-> raced]]

\* RefreshTokenRepository.revoke_all_for_user
RevokeAll(tokens, u) ==
    [t \in Tokens |-> IF tokens[t] # None /\ tokens[t].u = u
                      THEN [tokens[t] EXCEPT !.live = FALSE] ELSE tokens[t]]

\* Mutant: the version is read again instead of being the one of the row that was tested.
BugUpdatable(q) == TRUE

\* UserRepository.update: WHERE version is the one read. No row is a ConflictError.
Updatable(q) == user[q.u].version = q.row.version

\* UserRepository.increment_failed_login
CountFailure(row) ==
    [row EXCEPT !.failed = @ + 1, !.locked = @ \/ row.failed + 1 >= MaxAttempts,
                !.version = @ + 1]

\* Mutant: a failure is taken back instead of all of them.
BugCountLogin(row) == [row EXCEPT !.failed = @ - 1, !.locked = FALSE, !.version = @ + 2]

\* UserRepository.reset_failed_login, and the update that follows it
CountLogin(row) == [row EXCEPT !.failed = 0, !.locked = FALSE, !.version = @ + 2]

Save(q, row) == user' = [user EXCEPT ![q.u] = row]
Bump(row) == [row EXCEPT !.version = @ + 1]

-----------------------------------------------------------------------------
(* register, login, refresh, logout *)

ReadRegister(s, u, password) ==
    /\ user[u] = None
    /\ Ask(s, [pc |-> "register", u |-> u, arg |-> password])

\* The INSERT fails when the email has been registered since.
CommitRegister(s, t, role) ==
    LET q == authReq[s]
    IN  /\ q.pc = "register"
        /\ IF user[q.u] = None
           THEN /\ token[t] = None
                /\ Save(q, [password |-> q.arg, role |-> role, banned |-> FALSE, mfa |-> FALSE,
                            secret |-> None, failed |-> 0, locked |-> FALSE, version |-> 1])
                /\ token' = Issue(t, token, q.u, q.arg, None, FALSE)
           ELSE UNCHANGED <<user, token>>
        /\ Answer(s)
        /\ UNCHANGED <<reset, proved, wrong>>

\* Whose account is banned or locked is refused before the password is looked at.
\* Of the users with MFA, only those who send a code of their secret get this far.
ReadLogin(s, u, password) ==
    /\ user[u] # None /\ ~user[u].banned /\ ~user[u].locked
    /\ user[u].password = password
    /\ user[u].version < MaxVersion
    /\ Ask(s, [pc |-> "login", u |-> u, row |-> user[u], arg |-> None])

\* A wrong password is counted, and the account locked at the limit; then the
\* AuthenticationError is raised.
LoginWrongPassword(u, password) ==
    /\ user[u] # None /\ ~user[u].banned /\ ~user[u].locked
    /\ user[u].password # password
    /\ user' = [user EXCEPT ![u] = AfterError(@, CountFailure(@))]
    /\ wrong' = [wrong EXCEPT ![u] = IF @ < MaxAttempts THEN @ + 1 ELSE @]
    /\ UNCHANGED <<token, reset, authReq, proved>>

CommitLogin(s, t) ==
    LET q == authReq[s]
    IN  /\ q.pc = "login"
        /\ IF Updatable(q)
           THEN /\ token[t] = None
                /\ Save(q, CountLogin(q.row))
                /\ token' = Issue(t, token, q.u, q.row.password, None, FALSE)
                /\ wrong' = [wrong EXCEPT ![q.u] = 0]
           ELSE UNCHANGED <<user, token, wrong>>
        /\ Answer(s)
        /\ UNCHANGED <<reset, proved>>

\* The first SELECT: the token is known and not revoked.
ReadToken(s, t) ==
    /\ token[t] # None /\ token[t].live
    /\ Ask(s, [pc |-> "rotate", t |-> t])

\* A token that was revoked: all tokens of the user are, and the error is raised.
ReuseToken(s, t) ==
    /\ authReq[s] = Idle
    /\ token[t] # None /\ ~token[t].live
    /\ token' = AfterError(token, RevokeAll(token, token[t].u))
    /\ UNCHANGED <<user, reset, authReq, proved, wrong>>

\* The second SELECT, of the user.
CheckTokenUser(s) ==
    LET q == authReq[s]
    IN  /\ q.pc = "rotate"
        /\ authReq' = [authReq EXCEPT ![s] =
                         IF user[token[q.t].u].banned THEN Idle ELSE [q EXCEPT !.pc = "issue"]]
        /\ UNCHANGED <<user, token, reset, proved, wrong>>

\* Mutant: the rotated token is not revoked.
BugCommitRefresh(s, t) ==
    LET q == authReq[s]
        old == token[q.t]
    IN  /\ q.pc = "issue"
        /\ token[t] = None
        /\ token' = Issue(t, token, old.u, old.password, q.t, old.raced \/ ~old.live)
        /\ Answer(s)
        /\ UNCHANGED <<user, reset, proved, wrong>>

\* revoke(jti), whatever became of the token since it was read, and its successor.
CommitRefresh(s, t) ==
    LET q == authReq[s]
        old == token[q.t]
    IN  /\ q.pc = "issue"
        /\ token[t] = None
        /\ token' = Issue(t, [token EXCEPT ![q.t].live = FALSE],
                          old.u, old.password, q.t, old.raced \/ ~old.live)
        /\ Answer(s)
        /\ UNCHANGED <<user, reset, proved, wrong>>

Logout(u) ==
    /\ user[u] # None
    /\ token' = RevokeAll(token, u)
    /\ UNCHANGED <<user, reset, authReq, proved, wrong>>

-----------------------------------------------------------------------------
(* Requests that read and change the row of a user *)

ReadUser(s, u, op, arg) ==
    /\ user[u] # None
    /\ user[u].version < MaxVersion
    /\ Ask(s, [pc |-> op, u |-> u, row |-> user[u], arg |-> arg])

\* change_password, by somebody who knows the current one
ReadForChange(s, u, password) == user[u].password # password /\ ReadUser(s, u, "change", password)

\* Secrets are drawn at random: never one that was seen before.
ReadForSetup(s, u, secret) ==
    /\ ~user[u].mfa
    /\ \A v \in Users : user[v] # None => user[v].secret # secret
    /\ \A r \in Sessions : authReq[r].pc = "setup" => authReq[r].arg # secret
    /\ ReadUser(s, u, "setup", secret)

\* The client repeats the secret and shows a code of it; both tests are on the row read.
ReadForVerify(s, u) == ~user[u].mfa /\ user[u].secret # None /\ ReadUser(s, u, "verify", None)

ReadForBan(s, u, banned) ==
    /\ ~(user[u].role = "superadmin" /\ banned)
    /\ ReadUser(s, u, "ban", banned)

ReadRequest(s, u) ==
    /\ user[u] # None
    /\ \/ \E password \in Passwords : ReadForChange(s, u, password)
       \/ \E secret \in Secrets : ReadForSetup(s, u, secret)
       \/ ReadForVerify(s, u)
       \/ ReadUser(s, u, "update", None)
       \/ \E role \in Roles : ReadUser(s, u, "role", role)
       \/ \E banned \in BOOLEAN : ReadForBan(s, u, banned)

\* The writes of a request whose row is still the one it read; nothing otherwise.
\* row is the new row, tokens what becomes of the refresh tokens.
CommitUser(s, row, tokens) ==
    LET q == authReq[s]
    IN  /\ IF Updatable(q)
           THEN user' = [user EXCEPT ![q.u] = Bump(row)] /\ token' = tokens
           ELSE UNCHANGED <<user, token>>
        /\ Answer(s)
        /\ UNCHANGED wrong

\* Mutant: the sessions are left alone.
BugCommitChange(s) ==
    LET q == authReq[s]
    IN  /\ q.pc = "change"
        /\ CommitUser(s, [user[q.u] EXCEPT !.password = q.arg], token)
        /\ UNCHANGED <<reset, proved>>

CommitChange(s) ==
    LET q == authReq[s]
    IN  /\ q.pc = "change"
        /\ CommitUser(s, [user[q.u] EXCEPT !.password = q.arg], RevokeAll(token, q.u))
        /\ UNCHANGED <<reset, proved>>

\* setup_mfa stores the secret at once; MFA stays off until it is proved.
CommitSetup(s) ==
    LET q == authReq[s]
    IN  /\ q.pc = "setup"
        /\ CommitUser(s, [user[q.u] EXCEPT !.secret = q.arg], token)
        /\ UNCHANGED <<reset, proved>>

CommitVerify(s) ==
    LET q == authReq[s]
    IN  /\ q.pc = "verify"
        /\ CommitUser(s, [user[q.u] EXCEPT !.mfa = TRUE], token)
        /\ proved' = IF Updatable(q) THEN [proved EXCEPT ![q.u] = q.row.secret] ELSE proved
        /\ UNCHANGED reset

\* update_me: name and telephone number, which no property is about.
CommitUpdate(s) ==
    LET q == authReq[s]
    IN  /\ q.pc = "update"
        /\ CommitUser(s, user[q.u], token)
        /\ UNCHANGED <<reset, proved>>

\* admin_update_role: a banned user may be promoted too.
CommitRole(s) ==
    LET q == authReq[s]
    IN  /\ q.pc = "role"
        /\ CommitUser(s, [user[q.u] EXCEPT !.role = q.arg], token)
        /\ UNCHANGED <<reset, proved>>

CommitBan(s) ==
    LET q == authReq[s]
    IN  /\ q.pc = "ban"
        /\ CommitUser(s, [user[q.u] EXCEPT !.banned = q.arg],
                      IF q.arg THEN RevokeAll(token, q.u) ELSE token)
        /\ UNCHANGED <<reset, proved>>

-----------------------------------------------------------------------------
(* request_password_reset and reset_password *)

RequestReset(u, k) ==
    /\ user[u] # None /\ reset[k] = None
    /\ reset' = [reset EXCEPT ![k] = [u |-> u, used |-> FALSE, times |-> 0, raced |-> FALSE]]
    /\ UNCHANGED <<user, token, authReq, proved, wrong>>

Holds(s, k) == authReq[s].pc \in {"find", "reset"} /\ authReq[s].k = k

\* The first SELECT, of the token. Requests that hold it at the same time race.
ReadReset(s, k, password) ==
    /\ authReq[s] = Idle
    /\ reset[k] # None /\ ~reset[k].used
    /\ authReq' = [authReq EXCEPT ![s] = [pc |-> "find", k |-> k, arg |-> password]]
    /\ reset' = IF \E r \in Sessions : Holds(r, k) THEN [reset EXCEPT ![k].raced = TRUE]
                                                   ELSE reset
    /\ UNCHANGED <<user, token, proved, wrong>>

\* The second SELECT, of its user.
ReadResetUser(s) ==
    LET q == authReq[s]
        u == reset[q.k].u
    IN  /\ q.pc = "find"
        /\ user[u].version < MaxVersion
        /\ authReq' = [authReq EXCEPT ![s] = [pc |-> "reset", k |-> q.k, u |-> u,
                                              row |-> user[u], arg |-> q.arg]]
        /\ UNCHANGED <<user, token, reset, proved, wrong>>

\* Mutant: the reset token is not marked as used.
BugMarkUsed(row) == [row EXCEPT !.times = @ + 1]

\* PasswordResetRepository.mark_used
MarkUsed(row) == [row EXCEPT !.used = TRUE, !.times = @ + 1]

CommitReset(s) ==
    LET q == authReq[s]
    IN  /\ q.pc = "reset"
        /\ CommitUser(s, [user[q.u] EXCEPT !.password = q.arg], RevokeAll(token, q.u))
        /\ reset' = IF Updatable(q) THEN [reset EXCEPT ![q.k] = MarkUsed(@)] ELSE reset
        /\ UNCHANGED proved

AuthNext ==
    \/ \E u \in Users :
         \/ Logout(u)
         \/ \E password \in Passwords : LoginWrongPassword(u, password)
         \/ \E k \in ResetTokens : RequestReset(u, k)
    \/ \E s \in Sessions :
         \/ \E u \in Users : ReadRequest(s, u)
         \/ \E u \in Users, password \in Passwords :
              ReadRegister(s, u, password) \/ ReadLogin(s, u, password)
         \/ \E t \in Tokens :
              \/ \E role \in Roles \ {"admin", "superadmin"} : CommitRegister(s, t, role)
              \/ CommitLogin(s, t) \/ ReadToken(s, t) \/ ReuseToken(s, t) \/ CommitRefresh(s, t)
         \/ \E k \in ResetTokens, password \in Passwords : ReadReset(s, k, password)
         \/ CheckTokenUser(s) \/ CommitChange(s) \/ CommitSetup(s) \/ CommitVerify(s)
         \/ CommitUpdate(s) \/ CommitRole(s) \/ CommitBan(s) \/ ReadResetUser(s) \/ CommitReset(s)

AuthSpec == AuthInit /\ [][AuthNext]_authVars

-----------------------------------------------------------------------------
(* Properties *)

\* A session that is still open was opened with the password the user has now, and the
\* user is not banned: however logins and refreshes race with a change of password, a
\* reset or a ban, only a refresh that was under way when its token was revoked gets by.
SessionsAreCurrent ==
    \A t \in Tokens : token[t] # None /\ token[t].live /\ ~token[t].raced =>
        /\ token[t].password = user[token[t].u].password
        /\ ~user[token[t].u].banned

\* A refresh token has one successor, unless it is rotated twice at the same time.
RotatedOnce ==
    \A t1, t2 \in Tokens :
        /\ token[t1] # None /\ token[t2] # None
        /\ token[t1].from # None /\ token[t1].from = token[t2].from
        /\ ~token[t1].raced /\ ~token[t2].raced
        => t1 = t2

\* MFA is on only with the secret whose code the user has shown, though a setup in
\* another window may replace the secret at any time before.
MfaIsProved ==
    \A u \in Users : user[u] # None /\ user[u].mfa =>
        user[u].secret # None /\ user[u].secret = proved[u]

\* A link to reset a password works once, unless it is followed twice at the same time.
ResetOnce ==
    \A k \in ResetTokens : reset[k] # None /\ ~reset[k].raced => reset[k].times <= 1

\* Nobody who is a superadmin at that moment is banned, even if promoted meanwhile.
SuperadminsAreNotBanned ==
    [][\A u \in Users : user[u] # None /\ user[u].role = "superadmin" /\ ~user[u].banned =>
         ~user'[u].banned]_authVars

\* Sessions, links and MFA of an account keep to what the account is now, however its
\* requests and those of administrators race.
AuthSafety ==
    /\ [](/\ AuthTypeOK
         /\ SessionsAreCurrent
         /\ RotatedOnce
         /\ MfaIsProved
         /\ ResetOnce)
    /\ SuperadminsAreNotBanned

-----------------------------------------------------------------------------
(* Promises that the code does not keep: see README.md.                        *)

\* Five wrong passwords lock the account.
LockedAfterFailures ==
    \A u \in Users : user[u] # None /\ wrong[u] >= MaxAttempts => user[u].locked

\* A change of password ends all sessions.
NoSessionSurvives ==
    \A t \in Tokens : token[t] # None /\ token[t].live =>
        token[t].password = user[token[t].u].password
=============================================================================
