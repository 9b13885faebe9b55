------------------------- MODULE UserServicesProofs -------------------------
(***************************************************************************)
(* Theorems about the users of the shop: their sessions with auth-service and *)
(* connections with chat-service, their reviews and votes, their wishlists,  *)
(* and the blocks that fraud-service puts on addresses; for any number of     *)
(* users, passwords, secrets, tokens, sessions, connections and rows.        *)
(***************************************************************************)
EXTENDS AuthSessions, ChatHub, Reviews, Fraud, Wishlists, FiniteSetTheorems, TLAPS

-----------------------------------------------------------------------------
(* AuthSessions: what the requests have read *)

AnyReq == {Idle} \cup UserReq \cup RegisterReq \cup RefreshReq \cup FindReq \cup ResetReq

HasRow == {"login", "verify", "update", "change", "setup", "role", "ban", "reset"}

\* What a request knows of the rows: the row it has read is the one in the table as
\* long as the version is, and it passed the tests of its handler.
Knows(q, users, tokens, resets) ==
    /\ q.pc \in HasRow =>
         /\ users[q.u] # None
         /\ q.row.version <= users[q.u].version
         /\ q.row.version = users[q.u].version => users[q.u] = q.row
         /\ q.pc = "login" => ~q.row.banned
         /\ q.pc = "setup" => ~q.row.mfa
         /\ q.pc = "verify" => q.row.secret # None
         /\ q.pc = "ban" => ~(q.row.role = "superadmin" /\ q.arg)
    /\ q.pc \in {"rotate", "issue"} => tokens[q.t] # None
    /\ q.pc \in {"find", "reset"} => resets[q.k] # None

AllKnow == \A s \in Sessions : Knows(authReq[s], user, token, reset)

\* Tokens and reset tokens belong to users that are there, and a rotated token is dead.
RowsHaveUsers ==
    /\ \A t \in Tokens : token[t] # None =>
         /\ user[token[t].u] # None
         /\ token[t].from # None =>
              token[token[t].from] # None /\ ~token[token[t].from].live
    /\ \A k \in ResetTokens : reset[k] # None => user[reset[k].u] # None

\* A reset token nobody raced for is held by one request at most, and not after its use.
ResetsHeldOnce ==
    \A k \in ResetTokens : reset[k] # None /\ ~reset[k].raced =>
        /\ reset[k].times = IF reset[k].used THEN 1 ELSE 0
        /\ \A s \in Sessions : Holds(s, k) => ~reset[k].used
        /\ \A s, r \in Sessions : Holds(s, k) /\ Holds(r, k) => s = r

IInv ==
    /\ AuthTypeOK /\ AllKnow /\ RowsHaveUsers /\ ResetsHeldOnce
    /\ SessionsAreCurrent /\ RotatedOnce /\ MfaIsProved

\* The step of SuperadminsAreNotBanned.
BansSpare ==
    \A u \in Users : user[u] # None /\ user[u].role = "superadmin" /\ ~user[u].banned =>
        ~user'[u].banned

-----------------------------------------------------------------------------
(* Requests *)

LEMMA ReqKinds ==
    ASSUME NEW q \in AnyReq
    PROVE  /\ q.pc \in HasRow \ {"reset"} => q \in UserReq /\ q.u \in Users /\ q.row \in User
           /\ q.pc = "change" => q.arg \in Passwords
           /\ q.pc = "setup" => q.arg \in Secrets
           /\ q.pc = "role" => q.arg \in Roles
           /\ q.pc = "ban" => q.arg \in BOOLEAN
           /\ q.pc = "register" => q \in RegisterReq
           /\ q.pc \in {"rotate", "issue"} => q \in RefreshReq
           /\ q.pc = "find" => q \in FindReq
           /\ q.pc = "reset" => q \in ResetReq
  BY DEF AnyReq, Idle, UserReq, RegisterReq, RefreshReq, FindReq, ResetReq, HasRow

LEMMA TypeParts ==
    ASSUME AuthTypeOK
    PROVE  /\ user \in [Users -> User \cup {None}]
           /\ token \in [Tokens -> Token \cup {None}]
           /\ reset \in [ResetTokens -> Reset \cup {None}]
           /\ authReq \in [Sessions -> AnyReq]
           /\ proved \in [Users -> Secrets \cup {None}]
           /\ wrong \in [Users -> 0..MaxAttempts]
  BY DEF AuthTypeOK, AnyReq

LEMMA IdleFacts == Idle \in AnyReq /\ Idle.pc = "idle"
  BY DEF AnyReq, Idle

\* Rows of users only move to later versions; other rows stay.
UsersAdvance ==
    \A u \in Users : user[u] # None =>
        /\ user'[u] # None
        /\ user'[u] = user[u] \/ user'[u].version > user[u].version

RowsStay ==
    /\ \A t \in Tokens : token[t] # None => token'[t] # None
    /\ \A k \in ResetTokens : reset[k] # None => reset'[k] # None

LEMMA KnowledgeLasts ==
    ASSUME AuthTypeOK, AuthTypeOK', UsersAdvance, RowsStay, NEW q \in AnyReq,
           Knows(q, user, token, reset)
    PROVE  Knows(q, user', token', reset')
<1>1. CASE q.pc \in HasRow
  <2>1. q.u \in Users /\ q.row \in User
    BY <1>1, ReqKinds DEF HasRow, ResetReq
  <2>2. user[q.u] \in User /\ user'[q.u] \in User
    BY <1>1, <2>1, TypeParts DEF Knows, UsersAdvance, AuthTypeOK
  <2>3. q.row.version \in Nat /\ user[q.u].version \in Nat /\ user'[q.u].version \in Nat
    BY <2>1, <2>2 DEF User
  <2>4. /\ user'[q.u] # None
        /\ q.row.version <= user'[q.u].version
        /\ q.row.version = user'[q.u].version => user'[q.u] = q.row
    BY <1>1, <2>1, <2>3 DEF Knows, UsersAdvance
  <2>5. q.pc = "reset" => reset'[q.k] # None
    BY <1>1, ReqKinds DEF Knows, RowsStay, ResetReq
  <2>. QED BY <1>1, <2>4, <2>5 DEF Knows, HasRow
<1>2. CASE q.pc \in {"rotate", "issue"}
  <2>1. q.t \in Tokens
    BY <1>2, ReqKinds DEF RefreshReq
  <2>. QED BY <1>2, <2>1 DEF Knows, RowsStay, HasRow
<1>3. CASE q.pc = "find"
  <2>1. q.k \in ResetTokens
    BY <1>3, ReqKinds DEF FindReq
  <2>. QED BY <1>3, <2>1 DEF Knows, RowsStay, HasRow
<1>4. CASE q.pc \notin HasRow \cup {"rotate", "issue", "find"}
  BY <1>4 DEF Knows, HasRow
<1>. QED BY <1>1, <1>2, <1>3, <1>4

\* A step of session s that leaves it with request x keeps AllKnow if x knows.
LEMMA AllKnowLasts ==
    ASSUME IInv, AuthTypeOK', UsersAdvance, RowsStay, NEW s \in Sessions, NEW x \in AnyReq,
           authReq' = [authReq EXCEPT ![s] = x], Knows(x, user', token', reset')
    PROVE  AllKnow'
<1>. SUFFICES ASSUME NEW g \in Sessions PROVE Knows(authReq'[g], user', token', reset')
  BY DEF AllKnow
<1>1. CASE g = s
  BY <1>1, TypeParts DEF IInv
<1>2. CASE g # s
  <2>1. authReq'[g] = authReq[g] /\ authReq[g] \in AnyReq
    BY <1>2, TypeParts DEF IInv
  <2>2. Knows(authReq[g], user, token, reset)
    BY DEF IInv, AllKnow
  <2>. QED BY <2>1, <2>2, KnowledgeLasts DEF IInv
<1>. QED BY <1>1, <1>2

\* A step that changes nothing but the request of s, and takes no reset token.
LEMMA RequestOnly ==
    ASSUME IInv, NEW s \in Sessions, NEW x \in AnyReq,
           authReq' = [authReq EXCEPT ![s] = x],
           UNCHANGED <<user, token, reset, proved, wrong>>,
           Knows(x, user, token, reset),
           x.pc \in {"find", "reset"} => Holds(s, x.k)
    PROVE  IInv' /\ BansSpare
<1>1. AuthTypeOK'
  BY DEF IInv, AuthTypeOK, AnyReq
<1>2. UsersAdvance /\ RowsStay
  BY DEF UsersAdvance, RowsStay
<1>3. AllKnow'
  BY <1>1, <1>2, AllKnowLasts
<1>4. ResetsHeldOnce'
  <2>1. \A g \in Sessions, k \in ResetTokens : Holds(g, k)' => Holds(g, k)
    BY TypeParts DEF IInv, Holds
  <2>. QED BY <2>1 DEF IInv, ResetsHeldOnce
<1>. QED BY <1>1, <1>3, <1>4
     DEF IInv, RowsHaveUsers, SessionsAreCurrent, RotatedOnce, MfaIsProved, BansSpare

-----------------------------------------------------------------------------
(* Initial states, and the actions that only move a request on *)

LEMMA InitLemma == AuthInit => IInv
<1>. SUFFICES ASSUME AuthInit PROVE IInv
  OBVIOUS
<1>1. AuthTypeOK
  BY AuthAssumption DEF AuthInit, AuthTypeOK
<1>2. AllKnow
  BY IdleFacts DEF AuthInit, AllKnow, Knows, HasRow
<1>. QED BY <1>1, <1>2 DEF IInv, AuthInit, RowsHaveUsers, ResetsHeldOnce,
                           SessionsAreCurrent, RotatedOnce, MfaIsProved

LEMMA AskLemma ==
    ASSUME IInv, NEW s \in Sessions, NEW x \in AnyReq, Ask(s, x),
           Knows(x, user, token, reset), x.pc \notin {"find", "reset"}
    PROVE  IInv' /\ BansSpare
  BY RequestOnly DEF Ask

LEMMA ReadRegisterStep ==
    ASSUME IInv, NEW s \in Sessions, NEW u \in Users, NEW password \in Passwords,
           ReadRegister(s, u, password)
    PROVE  IInv' /\ BansSpare
<1>. DEFINE x == [pc |-> "register", u |-> u, arg |-> password]
<1>1. x \in AnyReq /\ Knows(x, user, token, reset)
  BY DEF AnyReq, RegisterReq, Knows, HasRow
<1>. QED BY <1>1, AskLemma DEF ReadRegister

LEMMA ReadUserStep ==
    ASSUME IInv, NEW s \in Sessions, NEW u \in Users, NEW op, NEW arg,
           op \in HasRow \ {"reset"}, user[u] # None,
           [pc |-> op, u |-> u, row |-> user[u], arg |-> arg] \in UserReq,
           op = "login" => ~user[u].banned,
           op = "setup" => ~user[u].mfa,
           op = "verify" => user[u].secret # None,
           op = "ban" => ~(user[u].role = "superadmin" /\ arg),
           Ask(s, [pc |-> op, u |-> u, row |-> user[u], arg |-> arg])
    PROVE  IInv' /\ BansSpare
<1>. DEFINE x == [pc |-> op, u |-> u, row |-> user[u], arg |-> arg]
<1>1. user[u] \in User
  BY TypeParts DEF IInv
<1>2. x \in AnyReq
  BY DEF AnyReq
<1>3. Knows(x, user, token, reset)
  BY <1>1 DEF Knows, HasRow, User
<1>. QED BY <1>2, <1>3, AskLemma DEF HasRow

LEMMA ReadLoginStep ==
    ASSUME IInv, NEW s \in Sessions, NEW u \in Users, NEW password \in Passwords,
           ReadLogin(s, u, password)
    PROVE  IInv' /\ BansSpare
<1>1. user[u] \in User
  BY TypeParts DEF IInv, ReadLogin
<1>2. [pc |-> "login", u |-> u, row |-> user[u], arg |-> None] \in UserReq
  BY <1>1 DEF UserReq
<1>. QED BY <1>2, ReadUserStep DEF ReadLogin, HasRow

LEMMA ReadRequestStep ==
    ASSUME IInv, NEW s \in Sessions, NEW u \in Users, ReadRequest(s, u)
    PROVE  IInv' /\ BansSpare
<1>1. user[u] \in User
  BY TypeParts DEF IInv, ReadRequest
<1>2. ASSUME NEW password \in Passwords, ReadForChange(s, u, password)
      PROVE  IInv' /\ BansSpare
  <2>1. [pc |-> "change", u |-> u, row |-> user[u], arg |-> password] \in UserReq
    BY <1>1 DEF UserReq
  <2>. QED BY <1>2, <2>1, ReadUserStep DEF ReadForChange, ReadUser, HasRow
<1>3. ASSUME NEW secret \in Secrets, ReadForSetup(s, u, secret)
      PROVE  IInv' /\ BansSpare
  <2>1. [pc |-> "setup", u |-> u, row |-> user[u], arg |-> secret] \in UserReq
    BY <1>1 DEF UserReq
  <2>. QED BY <1>3, <2>1, ReadUserStep DEF ReadForSetup, ReadUser, HasRow
<1>4. ASSUME ReadForVerify(s, u)
      PROVE  IInv' /\ BansSpare
  <2>1. [pc |-> "verify", u |-> u, row |-> user[u], arg |-> None] \in UserReq
    BY <1>1 DEF UserReq
  <2>. QED BY <1>4, <2>1, ReadUserStep DEF ReadForVerify, ReadUser, HasRow
<1>5. ASSUME ReadUser(s, u, "update", None)
      PROVE  IInv' /\ BansSpare
  <2>1. [pc |-> "update", u |-> u, row |-> user[u], arg |-> None] \in UserReq
    BY <1>1 DEF UserReq
  <2>. QED BY <1>5, <2>1, ReadUserStep DEF ReadUser, HasRow
<1>6. ASSUME NEW role \in Roles, ReadUser(s, u, "role", role)
      PROVE  IInv' /\ BansSpare
  <2>1. [pc |-> "role", u |-> u, row |-> user[u], arg |-> role] \in UserReq
    BY <1>1 DEF UserReq
  <2>. QED BY <1>6, <2>1, ReadUserStep DEF ReadUser, HasRow
<1>7. ASSUME NEW banned \in BOOLEAN, ReadForBan(s, u, banned)
      PROVE  IInv' /\ BansSpare
  <2>1. [pc |-> "ban", u |-> u, row |-> user[u], arg |-> banned] \in UserReq
    BY <1>1 DEF UserReq
  <2>. QED BY <1>7, <2>1, ReadUserStep DEF ReadForBan, ReadUser, HasRow
<1>. QED BY <1>2, <1>3, <1>4, <1>5, <1>6, <1>7 DEF ReadRequest

LEMMA ReadTokenStep ==
    ASSUME IInv, NEW s \in Sessions, NEW t \in Tokens, ReadToken(s, t)
    PROVE  IInv' /\ BansSpare
<1>. DEFINE x == [pc |-> "rotate", t |-> t]
<1>1. x \in AnyReq /\ Knows(x, user, token, reset)
  BY DEF AnyReq, RefreshReq, Knows, HasRow, ReadToken
<1>. QED BY <1>1, AskLemma DEF ReadToken

LEMMA CheckTokenUserStep ==
    ASSUME IInv, NEW s \in Sessions, CheckTokenUser(s)
    PROVE  IInv' /\ BansSpare
<1>. DEFINE q == authReq[s]
            x == IF user[token[q.t].u].banned THEN Idle ELSE [q EXCEPT !.pc = "issue"]
<1>1. q \in RefreshReq /\ q.pc = "rotate"
  BY ReqKinds, TypeParts DEF IInv, CheckTokenUser
<1>2. [q EXCEPT !.pc = "issue"] \in RefreshReq /\ [q EXCEPT !.pc = "issue"].t = q.t
      /\ [q EXCEPT !.pc = "issue"].pc = "issue"
  BY <1>1 DEF RefreshReq
<1>3. Knows(q, user, token, reset)
  BY DEF IInv, AllKnow
<1>4. x \in AnyReq /\ x.pc \in {"idle", "issue"} /\ (x.pc = "issue" => x.t = q.t)
  BY <1>2, IdleFacts DEF AnyReq
<1>5. Knows(x, user, token, reset)
  <2>. HIDE DEF x
  <2>. QED BY <1>1, <1>3, <1>4 DEF Knows, HasRow
<1>6. authReq' = [authReq EXCEPT ![s] = x] /\ UNCHANGED <<user, token, reset, proved, wrong>>
  BY DEF CheckTokenUser
<1>. HIDE DEF x
<1>. QED BY <1>4, <1>5, <1>6, RequestOnly

LEMMA ReadResetUserStep ==
    ASSUME IInv, NEW s \in Sessions, ReadResetUser(s)
    PROVE  IInv' /\ BansSpare
<1>. DEFINE q == authReq[s]
            u == reset[q.k].u
            x == [pc |-> "reset", k |-> q.k, u |-> u, row |-> user[u], arg |-> q.arg]
<1>1. q \in FindReq /\ q.pc = "find" /\ q.k \in ResetTokens
  BY ReqKinds, TypeParts DEF IInv, ReadResetUser, FindReq
<1>2. reset[q.k] # None
  BY <1>1 DEF IInv, AllKnow, Knows
<1>3. u \in Users /\ user[u] # None /\ user[u] \in User
  BY <1>1, <1>2, TypeParts DEF IInv, RowsHaveUsers, Reset
<1>4. x \in AnyReq
  BY <1>1, <1>3 DEF AnyReq, ResetReq, FindReq
<1>5. Knows(x, user, token, reset)
  BY <1>2, <1>3 DEF Knows, HasRow, User
<1>6. x.pc = "reset" /\ x.k = q.k /\ Holds(s, q.k)
  BY <1>1 DEF Holds
<1>7. authReq' = [authReq EXCEPT ![s] = x] /\ UNCHANGED <<user, token, reset, proved, wrong>>
  BY DEF ReadResetUser
<1>. HIDE DEF x
<1>. QED BY <1>4, <1>5, <1>6, <1>7, RequestOnly

-----------------------------------------------------------------------------
(* Tokens *)

\* What any request but a rotation does to tokens that are there: they may die.
Wane(before, after) ==
    \A t \in Tokens : before[t] # None =>
        /\ after[t] # None
        /\ after[t].u = before[t].u /\ after[t].password = before[t].password
        /\ after[t].from = before[t].from /\ after[t].raced = before[t].raced
        /\ after[t].live => before[t].live

NoneIssued(before, after) == \A t \in Tokens : before[t] = None => after[t] = None

AllDead(tokens, u) == \A t \in Tokens : tokens[t] # None /\ tokens[t].u = u => ~tokens[t].live

LEMMA RevokeAllFacts ==
    ASSUME NEW tokens \in [Tokens -> Token \cup {None}], NEW u
    PROVE  /\ RevokeAll(tokens, u) \in [Tokens -> Token \cup {None}]
           /\ Wane(tokens, RevokeAll(tokens, u))
           /\ NoneIssued(tokens, RevokeAll(tokens, u))
           /\ AllDead(RevokeAll(tokens, u), u)
<1>1. ASSUME NEW t \in Tokens, tokens[t] # None
      PROVE  [tokens[t] EXCEPT !.live = FALSE] \in Token
  BY <1>1 DEF Token
<1>. QED BY <1>1, NoRowAssumption DEF RevokeAll, Wane, NoneIssued, AllDead, Token

-----------------------------------------------------------------------------
(* Reset tokens *)

SameResets(before, after) ==
    \A k \in ResetTokens :
        /\ before[k] = None <=> after[k] = None
        /\ before[k] # None => after[k].u = before[k].u

\* When session s is done, and the reset tokens are left alone.
LEMMA ResetsUntouched ==
    ASSUME IInv, NEW s \in Sessions, authReq' = [authReq EXCEPT ![s] = Idle], UNCHANGED reset
    PROVE  /\ reset' \in [ResetTokens -> Reset \cup {None}]
           /\ SameResets(reset, reset') /\ ResetsHeldOnce'
<1>1. \A g \in Sessions, k \in ResetTokens : Holds(g, k)' => Holds(g, k)
  BY TypeParts, IdleFacts DEF IInv, Holds
<1>. QED BY <1>1, TypeParts DEF IInv, ResetsHeldOnce, SameResets

\* A step that rewrites the row of v, issues no token, and keeps to the rules below.
LEMMA RowWritten ==
    ASSUME IInv, NEW s \in Sessions, NEW v \in Users, user[v] # None,
           NEW row \in User, row.version > user[v].version,
           user' = [user EXCEPT ![v] = row],
           token' \in [Tokens -> Token \cup {None}],
           Wane(token, token'), NoneIssued(token, token'),
           authReq' = [authReq EXCEPT ![s] = Idle],
           reset' \in [ResetTokens -> Reset \cup {None}],
           SameResets(reset, reset'), ResetsHeldOnce',
           proved' \in [Users -> Secrets \cup {None}], UNCHANGED wrong,
           \A u \in Users \ {v} : proved'[u] = proved[u],
           \/ AllDead(token', v)
           \/ row.password = user[v].password /\ (row.banned => user[v].banned),
           row.mfa => row.secret # None /\ row.secret = proved'[v],
           user[v].role = "superadmin" /\ ~user[v].banned => ~row.banned
    PROVE  IInv' /\ BansSpare
<1>1. row # None
  BY NoRowAssumption
<1>2. \A u \in Users : user'[u] = IF u = v THEN row ELSE user[u]
  BY TypeParts DEF IInv
<1>3. AuthTypeOK'
  BY <1>2, TypeParts, IdleFacts DEF IInv, AuthTypeOK, AnyReq
<1>4. UsersAdvance /\ RowsStay
  BY <1>1, <1>2 DEF UsersAdvance, RowsStay, Wane, SameResets
<1>5. AllKnow'
  <2>1. Knows(Idle, user', token', reset')
    BY IdleFacts DEF Knows, HasRow
  <2>. QED BY <1>3, <1>4, <2>1, IdleFacts, AllKnowLasts
<1>6. RowsHaveUsers'
  BY <1>1, <1>2, TypeParts DEF IInv, RowsHaveUsers, Wane, NoneIssued, SameResets, Token
<1>7. SessionsAreCurrent'
  <2>. SUFFICES ASSUME NEW t \in Tokens, token'[t] # None, token'[t].live, ~token'[t].raced
                PROVE  /\ token'[t].password = user'[token'[t].u].password
                       /\ ~user'[token'[t].u].banned
    BY DEF SessionsAreCurrent
  <2>1. token[t] # None /\ token[t].live /\ ~token[t].raced /\ token[t].u = token'[t].u
        /\ token[t].password = token'[t].password
    BY DEF Wane, NoneIssued
  <2>2. token[t].password = user[token[t].u].password /\ ~user[token[t].u].banned
    BY <2>1 DEF IInv, SessionsAreCurrent
  <2>3. token[t].u \in Users
    BY <2>1, TypeParts DEF IInv, Token
  <2>. QED BY <1>2, <2>1, <2>2, <2>3 DEF AllDead
<1>8. RotatedOnce'
  BY DEF IInv, RotatedOnce, Wane, NoneIssued
<1>9. MfaIsProved'
  BY <1>2 DEF IInv, MfaIsProved
<1>10. BansSpare
  BY <1>2 DEF BansSpare
<1>. QED BY <1>3, <1>5, <1>6, <1>7, <1>8, <1>9, <1>10 DEF IInv

-----------------------------------------------------------------------------
(* Writes of the requests that have read the row of a user *)

LEMMA ReadRowFacts ==
    ASSUME IInv, NEW s \in Sessions, authReq[s].pc \in HasRow
    PROVE  /\ authReq[s] \in AnyReq /\ authReq[s].u \in Users /\ authReq[s].row \in User
           /\ Knows(authReq[s], user, token, reset)
           /\ user[authReq[s].u] # None /\ user[authReq[s].u] \in User
           /\ Updatable(authReq[s]) => user[authReq[s].u] = authReq[s].row
<1>1. authReq[s] \in AnyReq /\ Knows(authReq[s], user, token, reset)
  BY TypeParts DEF IInv, AllKnow
<1>2. authReq[s].u \in Users /\ authReq[s].row \in User
  BY <1>1, ReqKinds DEF HasRow, ResetReq
<1>. QED BY <1>1, <1>2, TypeParts DEF IInv, Knows, Updatable

LEMMA ConflictStep ==
    ASSUME IInv, NEW s \in Sessions, UNCHANGED <<user, token, reset, proved, wrong>>, Answer(s)
    PROVE  IInv' /\ BansSpare
<1>1. Knows(Idle, user, token, reset)
  BY IdleFacts DEF Knows, HasRow
<1>. QED BY <1>1, IdleFacts, RequestOnly DEF Answer

\* CommitUser, of a row that keeps its version and of tokens that may have been revoked.
LEMMA CommitUserStep ==
    ASSUME IInv, NEW s \in Sessions, authReq[s].pc \in HasRow,
           NEW row, NEW tokens, CommitUser(s, row, tokens),
           reset' \in [ResetTokens -> Reset \cup {None}],
           SameResets(reset, reset'), ResetsHeldOnce', ~Updatable(authReq[s]) => UNCHANGED reset,
           tokens = token \/ tokens = RevokeAll(token, authReq[s].u),
           proved' \in [Users -> Secrets \cup {None}],
           \A u \in Users \ {authReq[s].u} : proved'[u] = proved[u],
           ~Updatable(authReq[s]) => UNCHANGED proved,
           Updatable(authReq[s]) =>
             /\ row \in User /\ row.version = user[authReq[s].u].version
             /\ \/ tokens = RevokeAll(token, authReq[s].u)
                \/ /\ row.password = user[authReq[s].u].password
                   /\ row.banned => user[authReq[s].u].banned
             /\ row.mfa => row.secret # None /\ row.secret = proved'[authReq[s].u]
             /\ user[authReq[s].u].role = "superadmin" /\ ~user[authReq[s].u].banned
                  => ~row.banned
    PROVE  IInv' /\ BansSpare
<1>1. CASE ~Updatable(authReq[s])
  BY <1>1, ConflictStep DEF CommitUser
<1>2. CASE Updatable(authReq[s])
  <2>1. /\ Bump(row) \in User /\ Bump(row).version > user[authReq[s].u].version
        /\ Bump(row).password = row.password /\ Bump(row).banned = row.banned
        /\ Bump(row).mfa = row.mfa /\ Bump(row).secret = row.secret
    BY <1>2 DEF Bump, User
  <2>2. /\ tokens \in [Tokens -> Token \cup {None}] /\ Wane(token, tokens)
        /\ NoneIssued(token, tokens)
        /\ tokens = RevokeAll(token, authReq[s].u) => AllDead(tokens, authReq[s].u)
    <3>1. CASE tokens = token
      BY <3>1, RevokeAllFacts, TypeParts DEF IInv, Wane, NoneIssued
    <3>2. CASE tokens = RevokeAll(token, authReq[s].u)
      BY <3>2, RevokeAllFacts, TypeParts DEF IInv
    <3>. QED BY <3>1, <3>2
  <2>3. authReq[s].u \in Users /\ user[authReq[s].u] # None
    BY ReadRowFacts
  <2>4. /\ user' = [user EXCEPT ![authReq[s].u] = Bump(row)] /\ token' = tokens
        /\ authReq' = [authReq EXCEPT ![s] = Idle] /\ UNCHANGED wrong
    BY <1>2 DEF CommitUser, Answer
  <2>. QED BY <1>2, <2>1, <2>2, <2>3, <2>4, RowWritten
<1>. QED BY <1>1, <1>2

LEMMA CommitChangeStep ==
    ASSUME IInv, NEW s \in Sessions, CommitChange(s)
    PROVE  IInv' /\ BansSpare
<1>. DEFINE row == [user[authReq[s].u] EXCEPT !.password = authReq[s].arg]
<1>1. authReq[s].pc = "change" /\ authReq[s].pc \in HasRow
  BY DEF CommitChange, HasRow
<1>2. authReq[s].arg \in Passwords /\ authReq[s].u \in Users /\ user[authReq[s].u] \in User
      /\ user[authReq[s].u] # None
  BY <1>1, ReadRowFacts, ReqKinds
<1>3. /\ row \in User /\ row.version = user[authReq[s].u].version
      /\ row.banned = user[authReq[s].u].banned /\ row.mfa = user[authReq[s].u].mfa
      /\ row.secret = user[authReq[s].u].secret
  BY <1>2 DEF User
<1>4. /\ CommitUser(s, row, RevokeAll(token, authReq[s].u)) /\ UNCHANGED <<reset, proved>>
      /\ authReq' = [authReq EXCEPT ![s] = Idle]
  BY DEF CommitChange, CommitUser, Answer
<1>5. row.mfa => row.secret # None /\ row.secret = proved'[authReq[s].u]
  BY <1>2, <1>3, <1>4 DEF IInv, MfaIsProved
<1>. HIDE DEF row
<1>. QED BY <1>1, <1>3, <1>4, <1>5, ResetsUntouched, CommitUserStep, TypeParts DEF IInv

LEMMA CommitSetupStep ==
    ASSUME IInv, NEW s \in Sessions, CommitSetup(s)
    PROVE  IInv' /\ BansSpare
<1>. DEFINE row == [user[authReq[s].u] EXCEPT !.secret = authReq[s].arg]
<1>1. authReq[s].pc = "setup" /\ authReq[s].pc \in HasRow
  BY DEF CommitSetup, HasRow
<1>2. authReq[s].arg \in Secrets /\ authReq[s].u \in Users /\ user[authReq[s].u] \in User
      /\ user[authReq[s].u] # None
  BY <1>1, ReadRowFacts, ReqKinds
<1>3. /\ row \in User /\ row.version = user[authReq[s].u].version
      /\ row.banned = user[authReq[s].u].banned /\ row.mfa = user[authReq[s].u].mfa
      /\ row.password = user[authReq[s].u].password
  BY <1>2 DEF User
<1>4. /\ CommitUser(s, row, token) /\ UNCHANGED <<reset, proved>>
      /\ authReq' = [authReq EXCEPT ![s] = Idle]
  BY DEF CommitSetup, CommitUser, Answer
<1>5. Updatable(authReq[s]) => ~row.mfa
  BY <1>1, <1>3, ReadRowFacts DEF Knows
<1>. HIDE DEF row
<1>. QED BY <1>1, <1>3, <1>4, <1>5, ResetsUntouched, CommitUserStep, TypeParts DEF IInv

LEMMA CommitVerifyStep ==
    ASSUME IInv, NEW s \in Sessions, CommitVerify(s)
    PROVE  IInv' /\ BansSpare
<1>. DEFINE row == [user[authReq[s].u] EXCEPT !.mfa = TRUE]
<1>1. authReq[s].pc = "verify" /\ authReq[s].pc \in HasRow
  BY DEF CommitVerify, HasRow
<1>2. /\ authReq[s].u \in Users /\ user[authReq[s].u] \in User /\ user[authReq[s].u] # None
      /\ authReq[s].row \in User /\ authReq[s].row.secret # None
      /\ Updatable(authReq[s]) => user[authReq[s].u] = authReq[s].row
  BY <1>1, ReadRowFacts DEF Knows
<1>3. /\ row \in User /\ row.version = user[authReq[s].u].version
      /\ row.banned = user[authReq[s].u].banned /\ row.secret = user[authReq[s].u].secret
      /\ row.password = user[authReq[s].u].password
  BY <1>2 DEF User
<1>4. /\ CommitUser(s, row, token) /\ UNCHANGED reset
      /\ authReq' = [authReq EXCEPT ![s] = Idle]
      /\ proved' = IF Updatable(authReq[s])
                   THEN [proved EXCEPT ![authReq[s].u] = authReq[s].row.secret] ELSE proved
  BY DEF CommitVerify, CommitUser, Answer
<1>5. /\ proved' \in [Users -> Secrets \cup {None}]
      /\ \A u \in Users \ {authReq[s].u} : proved'[u] = proved[u]
      /\ Updatable(authReq[s]) => row.secret # None /\ row.secret = proved'[authReq[s].u]
  BY <1>2, <1>3, <1>4, TypeParts DEF IInv, User
<1>. HIDE DEF row
<1>. QED BY <1>1, <1>3, <1>4, <1>5, ResetsUntouched, CommitUserStep

LEMMA CommitUpdateStep ==
    ASSUME IInv, NEW s \in Sessions, CommitUpdate(s)
    PROVE  IInv' /\ BansSpare
<1>1. authReq[s].pc \in HasRow
  BY DEF CommitUpdate, HasRow
<1>2. authReq[s].u \in Users /\ user[authReq[s].u] \in User /\ user[authReq[s].u] # None
  BY <1>1, ReadRowFacts
<1>3. /\ CommitUser(s, user[authReq[s].u], token) /\ UNCHANGED <<reset, proved>>
      /\ authReq' = [authReq EXCEPT ![s] = Idle]
  BY DEF CommitUpdate, CommitUser, Answer
<1>4. user[authReq[s].u].mfa =>
        user[authReq[s].u].secret # None /\ user[authReq[s].u].secret = proved'[authReq[s].u]
  BY <1>2, <1>3 DEF IInv, MfaIsProved
<1>. QED BY <1>1, <1>2, <1>3, <1>4, ResetsUntouched, CommitUserStep, TypeParts DEF IInv

LEMMA CommitRoleStep ==
    ASSUME IInv, NEW s \in Sessions, CommitRole(s)
    PROVE  IInv' /\ BansSpare
<1>. DEFINE row == [user[authReq[s].u] EXCEPT !.role = authReq[s].arg]
<1>1. authReq[s].pc = "role" /\ authReq[s].pc \in HasRow
  BY DEF CommitRole, HasRow
<1>2. authReq[s].arg \in Roles /\ authReq[s].u \in Users /\ user[authReq[s].u] \in User
      /\ user[authReq[s].u] # None
  BY <1>1, ReadRowFacts, ReqKinds
<1>3. /\ row \in User /\ row.version = user[authReq[s].u].version
      /\ row.banned = user[authReq[s].u].banned /\ row.mfa = user[authReq[s].u].mfa
      /\ row.password = user[authReq[s].u].password /\ row.secret = user[authReq[s].u].secret
  BY <1>2 DEF User
<1>4. /\ CommitUser(s, row, token) /\ UNCHANGED <<reset, proved>>
      /\ authReq' = [authReq EXCEPT ![s] = Idle]
  BY DEF CommitRole, CommitUser, Answer
<1>5. row.mfa => row.secret # None /\ row.secret = proved'[authReq[s].u]
  BY <1>2, <1>3, <1>4 DEF IInv, MfaIsProved
<1>. HIDE DEF row
<1>. QED BY <1>1, <1>3, <1>4, <1>5, ResetsUntouched, CommitUserStep, TypeParts DEF IInv

LEMMA CommitBanStep ==
    ASSUME IInv, NEW s \in Sessions, CommitBan(s)
    PROVE  IInv' /\ BansSpare
<1>. DEFINE row == [user[authReq[s].u] EXCEPT !.banned = authReq[s].arg]
            tokens == IF authReq[s].arg THEN RevokeAll(token, authReq[s].u) ELSE token
<1>1. authReq[s].pc = "ban" /\ authReq[s].pc \in HasRow
  BY DEF CommitBan, HasRow
<1>2. authReq[s].arg \in BOOLEAN /\ authReq[s].u \in Users /\ user[authReq[s].u] \in User
      /\ user[authReq[s].u] # None
  BY <1>1, ReadRowFacts, ReqKinds
<1>3. /\ row \in User /\ row.version = user[authReq[s].u].version
      /\ row.banned = authReq[s].arg /\ row.mfa = user[authReq[s].u].mfa
      /\ row.password = user[authReq[s].u].password /\ row.secret = user[authReq[s].u].secret
  BY <1>2 DEF User
<1>4. /\ CommitUser(s, row, tokens) /\ UNCHANGED <<reset, proved>>
      /\ authReq' = [authReq EXCEPT ![s] = Idle]
  BY DEF CommitBan, CommitUser, Answer
<1>5. row.mfa => row.secret # None /\ row.secret = proved'[authReq[s].u]
  BY <1>2, <1>3, <1>4 DEF IInv, MfaIsProved
<1>6. Updatable(authReq[s]) =>
        (user[authReq[s].u].role = "superadmin" /\ ~user[authReq[s].u].banned => ~row.banned)
  BY <1>1, <1>3, ReadRowFacts DEF Knows
<1>7. row.banned => tokens = RevokeAll(token, authReq[s].u)
  BY <1>3
<1>8. tokens = token \/ tokens = RevokeAll(token, authReq[s].u)
  OBVIOUS
<1>. HIDE DEF row, tokens
<1>. QED BY <1>1, <1>3, <1>4, <1>5, <1>6, <1>7, <1>8, ResetsUntouched, CommitUserStep, TypeParts
     DEF IInv

LEMMA MarkUsedFacts ==
    ASSUME NEW row \in Reset
    PROVE  /\ MarkUsed(row) \in Reset /\ MarkUsed(row) # None
           /\ MarkUsed(row).u = row.u /\ MarkUsed(row).raced = row.raced
           /\ MarkUsed(row).used /\ MarkUsed(row).times = row.times + 1
<1>. DEFINE used == [row EXCEPT !.used = TRUE]
<1>1. used \in Reset /\ used.u = row.u /\ used.raced = row.raced /\ used.used
      /\ used.times = row.times
  BY DEF Reset
<1>2. MarkUsed(row) = [used EXCEPT !.times = row.times + 1]
  BY DEF MarkUsed, Reset
<1>. HIDE DEF used
<1>3. row.times + 1 \in Nat
  BY DEF Reset
<1>. DEFINE times == row.times + 1
<1>. HIDE DEF times
<1>4. times \in Nat /\ MarkUsed(row) = [used EXCEPT !.times = times]
  BY <1>2, <1>3 DEF times
<1>5. MarkUsed(row) \in Reset
  BY <1>1, <1>4 DEF Reset
<1>6. /\ MarkUsed(row).u = used.u /\ MarkUsed(row).raced = used.raced
      /\ MarkUsed(row).used = used.used /\ MarkUsed(row).times = row.times + 1
  BY <1>1, <1>2 DEF Reset
<1>. QED BY <1>1, <1>5, <1>6, NoRowAssumption

LEMMA CommitResetStep ==
    ASSUME IInv, NEW s \in Sessions, CommitReset(s)
    PROVE  IInv' /\ BansSpare
<1>. DEFINE row == [user[authReq[s].u] EXCEPT !.password = authReq[s].arg]
<1>0. PICK k : k = authReq[s].k
  OBVIOUS
<1>1. authReq[s].pc = "reset" /\ authReq[s].pc \in HasRow
  BY DEF CommitReset, HasRow
<1>2. /\ authReq[s].arg \in Passwords /\ k \in ResetTokens /\ reset[k] \in Reset /\ reset[k] # None
      /\ authReq[s].u \in Users /\ user[authReq[s].u] \in User /\ user[authReq[s].u] # None
  BY <1>0, <1>1, ReadRowFacts, ReqKinds, TypeParts DEF IInv, Knows, ResetReq
<1>3. /\ row \in User /\ row.version = user[authReq[s].u].version
      /\ row.banned = user[authReq[s].u].banned /\ row.mfa = user[authReq[s].u].mfa
      /\ row.secret = user[authReq[s].u].secret
  BY <1>2 DEF User
<1>4. /\ CommitUser(s, row, RevokeAll(token, authReq[s].u)) /\ UNCHANGED proved
      /\ authReq' = [authReq EXCEPT ![s] = Idle]
      /\ reset' = IF Updatable(authReq[s]) THEN [reset EXCEPT ![k] = MarkUsed(@)] ELSE reset
  BY <1>0 DEF CommitReset, CommitUser, Answer
<1>5. row.mfa => row.secret # None /\ row.secret = proved'[authReq[s].u]
  BY <1>2, <1>3, <1>4 DEF IInv, MfaIsProved
<1>6. CASE ~Updatable(authReq[s])
  <2>. HIDE DEF row
  <2>. QED BY <1>1, <1>3, <1>4, <1>5, <1>6, ResetsUntouched, CommitUserStep, TypeParts DEF IInv
<1>7. CASE Updatable(authReq[s])
  <2>1. /\ MarkUsed(reset[k]) \in Reset /\ MarkUsed(reset[k]) # None
        /\ MarkUsed(reset[k]).u = reset[k].u /\ MarkUsed(reset[k]).raced = reset[k].raced
        /\ MarkUsed(reset[k]).used /\ MarkUsed(reset[k]).times = reset[k].times + 1
    BY <1>2, MarkUsedFacts
  <2>2. \A j \in ResetTokens : reset'[j] = IF j = k THEN MarkUsed(reset[k]) ELSE reset[j]
    BY <1>2, <1>4, <1>7, TypeParts DEF IInv
  <2>3. reset' \in [ResetTokens -> Reset \cup {None}] /\ SameResets(reset, reset')
    BY <1>2, <1>4, <1>7, <2>1, <2>2, TypeParts DEF IInv, SameResets
  <2>4. /\ \A g \in Sessions, j \in ResetTokens : Holds(g, j)' => Holds(g, j) /\ g # s
        /\ Holds(s, k)
    BY <1>0, <1>1, <1>4, TypeParts, IdleFacts DEF IInv, Holds
  <2>5. ResetsHeldOnce'
    <3>. SUFFICES ASSUME NEW j \in ResetTokens, reset'[j] # None, ~reset'[j].raced
                  PROVE  /\ reset'[j].times = IF reset'[j].used THEN 1 ELSE 0
                         /\ \A g \in Sessions : Holds(g, j)' => ~reset'[j].used
                         /\ \A g, r \in Sessions : Holds(g, j)' /\ Holds(r, j)' => g = r
      BY DEF ResetsHeldOnce
    <3>1. CASE j = k
      <4>1. ~reset[k].raced /\ ~reset[k].used /\ reset[k].times = 0
        BY <1>2, <2>1, <2>2, <2>4, <3>1 DEF IInv, ResetsHeldOnce
      <4>2. \A g \in Sessions : ~Holds(g, k)'
        BY <1>2, <2>4, <4>1 DEF IInv, ResetsHeldOnce
      <4>3. reset'[k].times = 1 /\ reset'[k].used
        BY <1>2, <2>1, <2>2, <4>1
      <4>. QED BY <3>1, <4>2, <4>3
    <3>2. CASE j # k
      BY <2>2, <2>4, <3>2 DEF IInv, ResetsHeldOnce
    <3>. QED BY <3>1, <3>2
  <2>. HIDE DEF row
  <2>. QED BY <1>1, <1>3, <1>4, <1>5, <1>7, <2>3, <2>5, CommitUserStep, TypeParts DEF IInv
<1>. QED BY <1>6, <1>7

-----------------------------------------------------------------------------
(* Actions that change no row of a user *)

LEMMA KnowledgeKept ==
    ASSUME IInv, AuthTypeOK', UsersAdvance, RowsStay, UNCHANGED authReq
    PROVE  AllKnow'
  BY KnowledgeLasts, TypeParts DEF IInv, AllKnow

LEMMA LogoutStep ==
    ASSUME IInv, NEW u \in Users, Logout(u)
    PROVE  IInv' /\ BansSpare
<1>1. /\ token' = RevokeAll(token, u) /\ token' \in [Tokens -> Token \cup {None}]
      /\ Wane(token, token') /\ NoneIssued(token, token')
  BY RevokeAllFacts, TypeParts DEF IInv, Logout
<1>2. UNCHANGED <<user, reset, authReq, proved, wrong>>
  BY DEF Logout
<1>3. AuthTypeOK'
  BY <1>1, <1>2 DEF IInv, AuthTypeOK
<1>4. AllKnow'
  BY <1>1, <1>2, <1>3, KnowledgeKept DEF UsersAdvance, RowsStay, Wane
<1>5. RowsHaveUsers'
  BY <1>1, <1>2, TypeParts DEF IInv, RowsHaveUsers, Wane, NoneIssued, Token
<1>6. ResetsHeldOnce'
  BY <1>2 DEF IInv, ResetsHeldOnce, Holds
<1>7. SessionsAreCurrent' /\ RotatedOnce'
  BY <1>1, <1>2 DEF IInv, SessionsAreCurrent, RotatedOnce, Wane, NoneIssued
<1>. QED BY <1>2, <1>3, <1>4, <1>5, <1>6, <1>7 DEF IInv, MfaIsProved, BansSpare

LEMMA LoginWrongPasswordStep ==
    ASSUME IInv, NEW u \in Users, NEW password \in Passwords, LoginWrongPassword(u, password)
    PROVE  IInv' /\ BansSpare
<1>1. user' = user /\ UNCHANGED <<token, reset, authReq, proved>>
  BY TypeParts DEF IInv, LoginWrongPassword, AfterError
<1>2. wrong' \in [Users -> 0..MaxAttempts]
  BY TypeParts, AuthAssumption DEF IInv, LoginWrongPassword
<1>3. AuthTypeOK'
  BY <1>1, <1>2 DEF IInv, AuthTypeOK
<1>4. AllKnow'
  BY <1>1 DEF IInv, AllKnow
<1>. QED BY <1>1, <1>3, <1>4 DEF IInv, RowsHaveUsers, ResetsHeldOnce, Holds, SessionsAreCurrent,
                               RotatedOnce, MfaIsProved, BansSpare

LEMMA ReuseTokenStep ==
    ASSUME IInv, NEW s \in Sessions, NEW t \in Tokens, ReuseToken(s, t)
    PROVE  IInv' /\ BansSpare
<1>1. UNCHANGED authVars
  BY DEF ReuseToken, AfterError, authVars
<1>. QED BY <1>1 DEF authVars, IInv, AuthTypeOK, AllKnow, RowsHaveUsers, ResetsHeldOnce, Holds,
                     SessionsAreCurrent, RotatedOnce, MfaIsProved, BansSpare

LEMMA RequestResetStep ==
    ASSUME IInv, NEW u \in Users, NEW k \in ResetTokens, RequestReset(u, k)
    PROVE  IInv' /\ BansSpare
<1>. DEFINE row == [u |-> u, used |-> FALSE, times |-> 0, raced |-> FALSE]
<1>1. row \in Reset /\ row # None
  <2>1. row \in Reset
    BY DEF Reset
  <2>. QED BY <2>1, NoRowAssumption
<1>2. \A j \in ResetTokens : reset'[j] = IF j = k THEN row ELSE reset[j]
  BY TypeParts DEF IInv, RequestReset
<1>3. UNCHANGED <<user, token, authReq, proved, wrong>> /\ user[u] # None /\ reset[k] = None
  BY DEF RequestReset
<1>4. reset' \in [ResetTokens -> Reset \cup {None}]
  BY <1>1, TypeParts DEF IInv, RequestReset
<1>5. AuthTypeOK'
  BY <1>3, <1>4 DEF IInv, AuthTypeOK
<1>6. AllKnow'
  BY <1>1, <1>2, <1>3, <1>5, KnowledgeKept DEF UsersAdvance, RowsStay
<1>7. RowsHaveUsers'
  BY <1>1, <1>2, <1>3 DEF IInv, RowsHaveUsers
<1>8. \A g \in Sessions : ~Holds(g, k)
  <2>. SUFFICES ASSUME NEW g \in Sessions, Holds(g, k) PROVE FALSE
    OBVIOUS
  <2>1. Knows(authReq[g], user, token, reset)
    BY DEF IInv, AllKnow
  <2>. QED BY <1>3, <2>1 DEF Knows, Holds
<1>9. ResetsHeldOnce'
  <2>1. \A g \in Sessions, j \in ResetTokens : Holds(g, j)' <=> Holds(g, j)
    BY <1>3 DEF Holds
  <2>. QED BY <1>2, <1>8, <2>1 DEF IInv, ResetsHeldOnce
<1>. QED BY <1>3, <1>5, <1>6, <1>7, <1>9
     DEF IInv, SessionsAreCurrent, RotatedOnce, MfaIsProved, BansSpare

LEMMA ReadResetStep ==
    ASSUME IInv, NEW s \in Sessions, NEW k \in ResetTokens, NEW password \in Passwords,
           ReadReset(s, k, password)
    PROVE  IInv' /\ BansSpare
<1>. DEFINE x == [pc |-> "find", k |-> k, arg |-> password]
            held == \E r \in Sessions : Holds(r, k)
<1>1. /\ UNCHANGED <<user, token, proved, wrong>> /\ authReq' = [authReq EXCEPT ![s] = x]
      /\ reset' = IF held THEN [reset EXCEPT ![k].raced = TRUE] ELSE reset
      /\ reset[k] # None /\ ~reset[k].used /\ authReq[s] = Idle
  BY DEF ReadReset
<1>2. reset[k] \in Reset
  BY <1>1, TypeParts DEF IInv
<1>3. /\ [reset[k] EXCEPT !.raced = TRUE] \in Reset
      /\ [reset[k] EXCEPT !.raced = TRUE].raced
      /\ [reset[k] EXCEPT !.raced = TRUE].u = reset[k].u
  BY <1>2 DEF Reset
<1>4. /\ reset' \in [ResetTokens -> Reset \cup {None}]
      /\ reset'[k] # None /\ reset'[k].u = reset[k].u
      /\ held => reset'[k].raced
      /\ ~held => reset' = reset
      /\ \A j \in ResetTokens \ {k} : reset'[j] = reset[j]
  BY <1>1, <1>3, NoRowAssumption, TypeParts DEF IInv
<1>5. x \in AnyReq
  BY DEF AnyReq, FindReq
<1>6. AuthTypeOK'
  BY <1>1, <1>4, <1>5, TypeParts DEF IInv, AuthTypeOK, AnyReq
<1>7. UsersAdvance /\ RowsStay
  BY <1>1, <1>4 DEF UsersAdvance, RowsStay
<1>8. Knows(x, user', token', reset')
  BY <1>4 DEF Knows, HasRow
<1>9. AllKnow'
  BY <1>1, <1>5, <1>6, <1>7, <1>8, AllKnowLasts
<1>10. RowsHaveUsers'
  BY <1>1, <1>4 DEF IInv, RowsHaveUsers
<1>11. ResetsHeldOnce'
  <2>1. \A g \in Sessions, j \in ResetTokens :
          Holds(g, j)' => (g = s /\ j = k) \/ (g # s /\ Holds(g, j))
    BY <1>1, TypeParts DEF IInv, Holds
  <2>2. CASE held
    BY <1>4, <2>1, <2>2 DEF IInv, ResetsHeldOnce
  <2>3. CASE ~held
    BY <1>1, <1>4, <2>1, <2>3 DEF IInv, ResetsHeldOnce
  <2>. QED BY <2>2, <2>3
<1>. QED BY <1>1, <1>6, <1>9, <1>10, <1>11
     DEF IInv, SessionsAreCurrent, RotatedOnce, MfaIsProved, BansSpare

-----------------------------------------------------------------------------
(* Actions that issue a token *)

LEMMA IssueFacts ==
    ASSUME NEW tokens \in [Tokens -> Token \cup {None}], NEW t \in Tokens, NEW v \in Users,
           NEW password \in Passwords, NEW from \in Tokens \cup {None}, NEW raced \in BOOLEAN
    PROVE  /\ Issue(t, tokens, v, password, from, raced) \in [Tokens -> Token \cup {None}]
           /\ Issue(t, tokens, v, password, from, raced)[t] \in Token
           /\ Issue(t, tokens, v, password, from, raced)[t] =
                [u |-> v, live |-> TRUE, password |-> password, from |-> from, raced |-> raced]
           /\ \A j \in Tokens \ {t} : Issue(t, tokens, v, password, from, raced)[j] = tokens[j]
  BY DEF Issue, Token

\* mid is what the request makes of the tokens there are before it issues t to v.
LEMMA TokenIssued ==
    ASSUME IInv, NEW s \in Sessions, NEW t \in Tokens, NEW v \in Users,
           NEW mid \in [Tokens -> Token \cup {None}], Wane(token, mid), NoneIssued(token, mid),
           NEW password \in Passwords, NEW from \in Tokens \cup {None}, NEW raced \in BOOLEAN,
           token[t] = None, token' = Issue(t, mid, v, password, from, raced),
           from # None => /\ mid[from] # None /\ ~mid[from].live
                          /\ raced \/ token[from].live,
           user' \in [Users -> User \cup {None}], UsersAdvance, user'[v] # None,
           \A u \in Users \ {v} : user'[u] = user[u],
           user[v] # None => /\ user'[v].password = user[v].password
                             /\ user'[v].banned => user[v].banned,
           ~raced => password = user'[v].password /\ ~user'[v].banned,
           authReq' = [authReq EXCEPT ![s] = Idle], UNCHANGED <<reset, proved>>,
           wrong' \in [Users -> 0..MaxAttempts], MfaIsProved'
    PROVE  IInv' /\ BansSpare
<1>1. /\ token' \in [Tokens -> Token \cup {None}] /\ token'[t] \in Token
      /\ token'[t] = [u |-> v, live |-> TRUE, password |-> password, from |-> from,
                      raced |-> raced]
      /\ \A j \in Tokens \ {t} : token'[j] = mid[j]
  BY IssueFacts
<1>2. token'[t] # None
  BY <1>1, NoRowAssumption
<1>3. AuthTypeOK'
  BY <1>1, TypeParts, IdleFacts DEF IInv, AuthTypeOK, AnyReq
<1>4. RowsStay
  BY <1>1, <1>2 DEF RowsStay, Wane
<1>5. AllKnow'
  <2>1. Knows(Idle, user', token', reset')
    BY IdleFacts DEF Knows, HasRow
  <2>. QED BY <1>3, <1>4, <2>1, IdleFacts, AllKnowLasts
<1>6. RowsHaveUsers'
  <2>1. ASSUME NEW j \in Tokens, token'[j] # None
        PROVE  /\ user'[token'[j].u] # None
               /\ token'[j].from # None =>
                    token'[token'[j].from] # None /\ ~token'[token'[j].from].live
    <3>1. CASE j = t
      <4>1. token'[j].u = v /\ token'[j].from = from
        BY <1>1, <3>1
      <4>2. from # None => from # t /\ from \in Tokens
        BY DEF Wane, NoneIssued
      <4>. QED BY <1>1, <4>1, <4>2
    <3>2. CASE j # t
      <4>1. token[j] # None /\ token'[j].u = token[j].u /\ token'[j].from = token[j].from
        BY <1>1, <2>1, <3>2 DEF Wane, NoneIssued
      <4>2. token[j].u \in Users /\ token[j].from \in Tokens \cup {None}
        BY <4>1, TypeParts DEF IInv, Token
      <4>3. user[token[j].u] # None /\ (token[j].from # None =>
              token[token[j].from] # None /\ ~token[token[j].from].live)
        BY <4>1 DEF IInv, RowsHaveUsers
      <4>4. token[j].from # None => token[j].from # t /\ token[j].from \in Tokens
        BY <4>2, <4>3
      <4>. QED BY <1>1, <4>1, <4>2, <4>3, <4>4 DEF UsersAdvance, Wane
    <3>. QED BY <3>1, <3>2
  <2>2. \A k \in ResetTokens : reset'[k] # None => user'[reset'[k].u] # None
    BY TypeParts DEF IInv, RowsHaveUsers, UsersAdvance, Reset
  <2>. QED BY <2>1, <2>2 DEF RowsHaveUsers
<1>7. ResetsHeldOnce'
  BY ResetsUntouched
<1>8. SessionsAreCurrent'
  <2>. SUFFICES ASSUME NEW j \in Tokens, token'[j] # None, token'[j].live, ~token'[j].raced
                PROVE  /\ token'[j].password = user'[token'[j].u].password
                       /\ ~user'[token'[j].u].banned
    BY DEF SessionsAreCurrent
  <2>1. CASE j = t
    <3>1. token'[j].u = v /\ token'[j].password = password /\ ~raced
      BY <1>1, <2>1
    <3>. QED BY <3>1
  <2>2. CASE j # t
    <3>1. token[j] # None /\ token[j].live /\ ~token[j].raced /\ token[j].u = token'[j].u
          /\ token[j].password = token'[j].password
      BY <1>1, <2>2 DEF Wane, NoneIssued
    <3>2. token[j].password = user[token[j].u].password /\ ~user[token[j].u].banned
          /\ user[token[j].u] # None /\ token[j].u \in Users
      BY <3>1, TypeParts DEF IInv, SessionsAreCurrent, RowsHaveUsers, Token
    <3>. QED BY <3>1, <3>2
  <2>. QED BY <2>1, <2>2
<1>9. RotatedOnce'
  <2>1. \A j \in Tokens \ {t} : token'[j] # None =>
          /\ token[j] # None /\ token'[j].from = token[j].from
          /\ token'[j].raced = token[j].raced
    BY <1>1 DEF Wane, NoneIssued
  <2>2. token'[t].from = from /\ token'[t].raced = raced
    BY <1>1
  <2>3. ~raced /\ from # None => \A j \in Tokens \ {t} : token'[j] # None => token'[j].from # from
    BY <2>1 DEF IInv, RowsHaveUsers
  <2>. QED BY <2>1, <2>2, <2>3 DEF IInv, RotatedOnce
<1>10. BansSpare
  BY DEF BansSpare
<1>. QED BY <1>3, <1>5, <1>6, <1>7, <1>8, <1>9, <1>10 DEF IInv

LEMMA CommitRegisterStep ==
    ASSUME IInv, NEW s \in Sessions, NEW t \in Tokens, NEW role \in Roles,
           CommitRegister(s, t, role)
    PROVE  IInv' /\ BansSpare
<1>. DEFINE row == [password |-> authReq[s].arg, role |-> role, banned |-> FALSE, mfa |-> FALSE,
                    secret |-> None, failed |-> 0, locked |-> FALSE, version |-> 1]
<1>1. authReq[s].pc = "register" /\ authReq[s].u \in Users /\ authReq[s].arg \in Passwords
  BY ReqKinds, TypeParts DEF IInv, CommitRegister, RegisterReq
<1>2. CASE user[authReq[s].u] # None
  BY <1>2, ConflictStep DEF CommitRegister
<1>3. CASE user[authReq[s].u] = None
  <2>1. /\ token[t] = None /\ user' = [user EXCEPT ![authReq[s].u] = row]
        /\ token' = Issue(t, token, authReq[s].u, authReq[s].arg, None, FALSE)
        /\ authReq' = [authReq EXCEPT ![s] = Idle] /\ UNCHANGED <<reset, proved, wrong>>
    BY <1>3 DEF CommitRegister, Save, Answer
  <2>2. row \in User /\ row # None /\ row.password = authReq[s].arg /\ ~row.banned /\ ~row.mfa
    <3>1. row \in User
      BY <1>1 DEF User
    <3>. QED BY <3>1, NoRowAssumption
  <2>. HIDE DEF row
  <2>3. \A u \in Users : user'[u] = IF u = authReq[s].u THEN row ELSE user[u]
    BY <2>1, TypeParts DEF IInv
  <2>4. user' \in [Users -> User \cup {None}] /\ UsersAdvance
    BY <1>3, <2>1, <2>2, <2>3, TypeParts DEF IInv, UsersAdvance
  <2>5. MfaIsProved'
    BY <2>1, <2>2, <2>3 DEF IInv, MfaIsProved
  <2>6. Wane(token, token) /\ NoneIssued(token, token)
    BY DEF Wane, NoneIssued
  <2>. QED BY <1>1, <1>3, <2>1, <2>2, <2>3, <2>4, <2>5, <2>6, TokenIssued, TypeParts DEF IInv
<1>. QED BY <1>2, <1>3

LEMMA CountLoginFacts ==
    ASSUME NEW row \in User
    PROVE  /\ CountLogin(row) \in User /\ CountLogin(row).version = row.version + 2
           /\ CountLogin(row).password = row.password /\ CountLogin(row).banned = row.banned
           /\ CountLogin(row).mfa = row.mfa /\ CountLogin(row).secret = row.secret
<1>. DEFINE r1 == [row EXCEPT !.failed = 0]
            r2 == [r1 EXCEPT !.locked = FALSE]
            version == row.version + 2
<1>1. /\ r1 \in User /\ r1.password = row.password /\ r1.banned = row.banned
      /\ r1.mfa = row.mfa /\ r1.secret = row.secret
  BY DEF User
<1>2. CountLogin(row) = [r2 EXCEPT !.version = version]
  BY DEF CountLogin, User
<1>3. version \in Nat
  BY DEF User
<1>. HIDE DEF r1, version
<1>4. /\ r2 \in User /\ r2.password = row.password /\ r2.banned = row.banned
      /\ r2.mfa = row.mfa /\ r2.secret = row.secret
  BY <1>1 DEF User
<1>. HIDE DEF r2
<1>5. /\ CountLogin(row) \in User /\ CountLogin(row).version = version
      /\ CountLogin(row).password = row.password /\ CountLogin(row).banned = row.banned
      /\ CountLogin(row).mfa = row.mfa /\ CountLogin(row).secret = row.secret
  BY <1>2, <1>3, <1>4 DEF User
<1>. QED BY <1>5 DEF version

LEMMA CommitLoginStep ==
    ASSUME IInv, NEW s \in Sessions, NEW t \in Tokens, CommitLogin(s, t)
    PROVE  IInv' /\ BansSpare
<1>. DEFINE row == CountLogin(authReq[s].row)
<1>1. authReq[s].pc = "login" /\ authReq[s].pc \in HasRow
  BY DEF CommitLogin, HasRow
<1>2. /\ authReq[s].u \in Users /\ authReq[s].row \in User /\ user[authReq[s].u] # None
      /\ Updatable(authReq[s]) => user[authReq[s].u] = authReq[s].row
      /\ ~authReq[s].row.banned
  BY <1>1, ReadRowFacts DEF Knows
<1>3. CASE ~Updatable(authReq[s])
  BY <1>3, ConflictStep DEF CommitLogin
<1>4. CASE Updatable(authReq[s])
  <2>1. /\ token[t] = None /\ user' = [user EXCEPT ![authReq[s].u] = row]
        /\ token' = Issue(t, token, authReq[s].u, authReq[s].row.password, None, FALSE)
        /\ wrong' = [wrong EXCEPT ![authReq[s].u] = 0]
        /\ authReq' = [authReq EXCEPT ![s] = Idle] /\ UNCHANGED <<reset, proved>>
    BY <1>4 DEF CommitLogin, Save, Answer
  <2>2. /\ row \in User /\ row # None /\ row.version > authReq[s].row.version
        /\ row.password = authReq[s].row.password /\ row.banned = authReq[s].row.banned
        /\ row.mfa = authReq[s].row.mfa /\ row.secret = authReq[s].row.secret
    BY <1>2, CountLoginFacts, NoRowAssumption DEF User
  <2>. HIDE DEF row
  <2>3. \A u \in Users : user'[u] = IF u = authReq[s].u THEN row ELSE user[u]
    BY <2>1, TypeParts DEF IInv
  <2>4. user' \in [Users -> User \cup {None}] /\ UsersAdvance
    BY <1>2, <1>4, <2>1, <2>2, <2>3, TypeParts DEF IInv, UsersAdvance
  <2>5. MfaIsProved'
    BY <1>2, <1>4, <2>1, <2>2, <2>3 DEF IInv, MfaIsProved
  <2>6. Wane(token, token) /\ NoneIssued(token, token)
    BY DEF Wane, NoneIssued
  <2>7. wrong' \in [Users -> 0..MaxAttempts] /\ authReq[s].row.password \in Passwords
    BY <1>2, <2>1, TypeParts, AuthAssumption DEF IInv, User
  <2>. QED BY <1>2, <1>4, <2>1, <2>2, <2>3, <2>4, <2>5, <2>6, <2>7, TokenIssued, TypeParts
           DEF IInv
<1>. QED BY <1>3, <1>4

LEMMA CommitRefreshStep ==
    ASSUME IInv, NEW s \in Sessions, NEW t \in Tokens, CommitRefresh(s, t)
    PROVE  IInv' /\ BansSpare
<1>0. PICK from : from = authReq[s].t
  OBVIOUS
<1>. DEFINE old == token[from]
            mid == [token EXCEPT ![from].live = FALSE]
            raced == old.raced \/ ~old.live
<1>1. authReq[s].pc = "issue" /\ from \in Tokens /\ from # None /\ old # None
  <2>1. authReq[s].pc = "issue" /\ authReq[s] \in RefreshReq
    BY ReqKinds, TypeParts DEF IInv, CommitRefresh
  <2>2. Knows(authReq[s], user, token, reset)
    BY DEF IInv, AllKnow
  <2>. QED BY <1>0, <2>1, <2>2, AuthAssumption DEF Knows, RefreshReq
<1>2. old \in Token /\ user[old.u] # None
  BY <1>1, TypeParts DEF IInv, RowsHaveUsers
<1>3. /\ token[t] = None /\ token' = Issue(t, mid, old.u, old.password, from, raced)
      /\ authReq' = [authReq EXCEPT ![s] = Idle] /\ UNCHANGED <<user, reset, proved, wrong>>
  BY <1>0 DEF CommitRefresh, Answer
<1>4. [old EXCEPT !.live = FALSE] \in Token /\ [old EXCEPT !.live = FALSE] # None
  BY <1>2, NoRowAssumption DEF Token
<1>5. /\ mid \in [Tokens -> Token \cup {None}] /\ Wane(token, mid) /\ NoneIssued(token, mid)
      /\ mid[from] # None /\ ~mid[from].live
  <2>1. mid[from] = [old EXCEPT !.live = FALSE] /\ \A j \in Tokens \ {from} : mid[j] = token[j]
    BY <1>1, TypeParts DEF IInv
  <2>2. mid \in [Tokens -> Token \cup {None}]
    BY <1>1, <1>4, TypeParts DEF IInv
  <2>3. ~mid[from].live /\ mid[from].u = old.u /\ mid[from].password = old.password
        /\ mid[from].from = old.from /\ mid[from].raced = old.raced
    BY <1>2, <2>1 DEF Token
  <2>4. Wane(token, mid) /\ NoneIssued(token, mid)
    BY <1>1, <1>4, <2>1, <2>3 DEF Wane, NoneIssued
  <2>. QED BY <1>4, <2>1, <2>2, <2>3, <2>4
<1>6. /\ old.u \in Users /\ old.password \in Passwords /\ raced \in BOOLEAN
      /\ raced \/ token[from].live
      /\ ~raced => old.password = user'[old.u].password /\ ~user'[old.u].banned
  BY <1>1, <1>2, <1>3 DEF Token, IInv, SessionsAreCurrent
<1>7. /\ user' \in [Users -> User \cup {None}] /\ wrong' \in [Users -> 0..MaxAttempts]
      /\ UsersAdvance /\ MfaIsProved'
  BY <1>3, TypeParts DEF IInv, UsersAdvance, MfaIsProved
<1>. HIDE DEF old, mid, raced
<1>. QED BY <1>1, <1>2, <1>3, <1>5, <1>6, <1>7, TokenIssued

-----------------------------------------------------------------------------
(* The theorems of AuthSessions *)

LEMMA NextLemma == IInv /\ [AuthNext]_authVars => IInv' /\ (BansSpare \/ UNCHANGED authVars)
<1>. SUFFICES ASSUME IInv, [AuthNext]_authVars
              PROVE  IInv' /\ (BansSpare \/ UNCHANGED authVars)
  OBVIOUS
<1>1. CASE UNCHANGED authVars
  BY <1>1 DEF authVars, IInv, AuthTypeOK, AllKnow, RowsHaveUsers, ResetsHeldOnce, Holds,
              SessionsAreCurrent, RotatedOnce, MfaIsProved
<1>2. ASSUME NEW u \in Users,
             \/ Logout(u)
             \/ \E password \in Passwords : LoginWrongPassword(u, password)
             \/ \E k \in ResetTokens : RequestReset(u, k)
      PROVE  IInv' /\ BansSpare
  BY <1>2, LogoutStep, LoginWrongPasswordStep, RequestResetStep
<1>3. ASSUME NEW s \in Sessions, NEW u \in Users, ReadRequest(s, u)
      PROVE  IInv' /\ BansSpare
  BY <1>3, ReadRequestStep
<1>4. ASSUME NEW s \in Sessions, NEW u \in Users, NEW password \in Passwords,
             ReadRegister(s, u, password) \/ ReadLogin(s, u, password)
      PROVE  IInv' /\ BansSpare
  BY <1>4, ReadRegisterStep, ReadLoginStep
<1>5. ASSUME NEW s \in Sessions, NEW t \in Tokens,
             \/ \E role \in Roles \ {"admin", "superadmin"} : CommitRegister(s, t, role)
             \/ CommitLogin(s, t) \/ ReadToken(s, t) \/ ReuseToken(s, t) \/ CommitRefresh(s, t)
      PROVE  IInv' /\ BansSpare
  BY <1>5, CommitRegisterStep, CommitLoginStep, ReadTokenStep, ReuseTokenStep, CommitRefreshStep
<1>6. ASSUME NEW s \in Sessions, NEW k \in ResetTokens, NEW password \in Passwords,
             ReadReset(s, k, password)
      PROVE  IInv' /\ BansSpare
  BY <1>6, ReadResetStep
<1>7. ASSUME NEW s \in Sessions,
             \/ CheckTokenUser(s) \/ CommitChange(s) \/ CommitSetup(s) \/ CommitVerify(s)
             \/ CommitUpdate(s) \/ CommitRole(s) \/ CommitBan(s)
             \/ ReadResetUser(s) \/ CommitReset(s)
      PROVE  IInv' /\ BansSpare
  BY <1>7, CheckTokenUserStep, CommitChangeStep, CommitSetupStep, CommitVerifyStep,
     CommitUpdateStep, CommitRoleStep, CommitBanStep, ReadResetUserStep, CommitResetStep
<1>. QED BY <1>1, <1>2, <1>3, <1>4, <1>5, <1>6, <1>7 DEF AuthNext

THEOREM Invariance == AuthSpec => []IInv
  BY InitLemma, NextLemma, PTL DEF AuthSpec

\* The state of auth-service is always of its type: requests in flight included.
THEOREM TypeCorrect == AuthSpec => []AuthTypeOK
<1>1. IInv => AuthTypeOK
  BY DEF IInv
<1>. QED BY <1>1, Invariance, PTL

\* Every open session was opened with the password of now, by a user who is not banned,
\* unless its token was revoked while a refresh of it was under way.
THEOREM OpenSessionsAreCurrent == AuthSpec => []SessionsAreCurrent
<1>1. IInv => SessionsAreCurrent
  BY DEF IInv
<1>. QED BY <1>1, Invariance, PTL

\* Refreshes that do not race give a token one successor.
THEOREM TokensRotateOnce == AuthSpec => []RotatedOnce
<1>1. IInv => RotatedOnce
  BY DEF IInv
<1>. QED BY <1>1, Invariance, PTL

\* Whoever has MFA switched on has shown a code of the secret that is stored.
THEOREM MfaIsOnOnlyIfProved == AuthSpec => []MfaIsProved
<1>1. IInv => MfaIsProved
  BY DEF IInv
<1>. QED BY <1>1, Invariance, PTL

\* A password is reset at most once by a link that no two requests follow at once.
THEOREM LinksWorkOnce == AuthSpec => []ResetOnce
<1>1. IInv => ResetOnce
  BY TypeParts DEF IInv, ResetsHeldOnce, ResetOnce, Reset
<1>. QED BY <1>1, Invariance, PTL

\* No step bans a user who is a superadmin at that moment.
THEOREM SuperadminsAreSpared == AuthSpec => SuperadminsAreNotBanned
<1>1. IInv /\ [AuthNext]_authVars =>
        [\A u \in Users : user[u] # None /\ user[u].role = "superadmin" /\ ~user[u].banned =>
           ~user'[u].banned]_authVars
  BY NextLemma DEF BansSpare
<1>. QED BY <1>1, Invariance, PTL DEF AuthSpec, SuperadminsAreNotBanned

\* All of it at once, for any number of users, tokens, links and sessions in flight.
THEOREM AuthIsSafe == AuthSpec => AuthSafety
<1>1. AuthSpec => []AuthTypeOK /\ []SessionsAreCurrent /\ []RotatedOnce /\ []MfaIsProved /\ []ResetOnce
  BY TypeCorrect, OpenSessionsAreCurrent, TokensRotateOnce, MfaIsOnOnlyIfProved, LinksWorkOnce
<1>. QED BY <1>1, SuperadminsAreSpared, PTL DEF AuthSafety

-----------------------------------------------------------------------------
(* ChatHub: one goroutine closes the channels *)

\* Who is online is known under its own name, with an open channel, and registered.
OnlineIsOpen ==
    \A u \in ChatUsers : online[u] # NoClient =>
        LET c == online[u]
        IN  Connected(c) /\ conn[c].user = u /\ conn[c].open

\* A connection before, in and after its time with Run; one that unregisters reads no more.
Registering(c) == conn[c].reader = "registering" \/ (Due(c) /\ taken.op = "register")

HubKnows(c) ==
    Connected(c) =>
        /\ Registering(c) => conn[c].open /\ ~IsOnline(c) /\ conn[c].reader # "gone"
        /\ ~Registering(c) => IsOnline(c) = conn[c].open
        /\ conn[c].reader = "registering" => ~Due(c)
        /\ Due(c) /\ taken.op = "unregister" => conn[c].reader = "gone"
        /\ conn[c].reader = "gone" /\ ~Due(c) => ~IsOnline(c)

HubInv ==
    /\ ~panicked
    /\ OnlineIsOpen
    /\ \A c \in Conns : HubKnows(c)
    /\ \A c \in Conns : Due(c) => Connected(c)

\* Messages on their way, from the hub's channel to the peer, are in the order of entered.
Elements(s) == {s[i] : i \in DOMAIN s}
InOrder(s) == \A i, j \in DOMAIN s : i < j => Before(s[i], s[j])
Precede(M, N) == \A m \in M, n \in N : Before(m, n)
Held == IF taken.op = "broadcast" THEN {taken.message} ELSE {}

HubInOrder ==
    /\ InOrder(broadcast)
    /\ Held \cup Elements(broadcast) \subseteq Elements(entered)
    /\ Precede(Held, Elements(broadcast))

PeerInOrder(c) ==
    Connected(c) =>
        LET got == Elements(conn[c].got)
            send == Elements(conn[c].send)
        IN  /\ InOrder(conn[c].got) /\ InOrder(conn[c].send)
            /\ Precede(got, send)
            /\ Precede(got \cup send, Held \cup Elements(broadcast))
            /\ got \cup send \subseteq Elements(entered)

OrderInv == HubInOrder /\ \A c \in Conns : PeerInOrder(c)

\* A client that is not with Run yet is in no room; one that lost its place to another, and
\* has not left, is not the only connection of its user.
Replaced(c) == \E d \in Conns \ {c} : Connected(d) /\ conn[d].user = conn[c].user

RoomsKnown(c) ==
    Connected(c) =>
        /\ Registering(c) => conn[c].rooms = {}
        /\ ~conn[c].open /\ conn[c].reader # "gone" => Replaced(c)

RoomsInv == RoomsAreJoined /\ \A c \in Conns : RoomsKnown(c)

\* A reader that waits for the hub's channel has a message.
SendersKnown ==
    \A c \in Conns : Connected(c) /\ conn[c].reader = "sending" => conn[c].out \in Message

ChatInv == ChatTypeOK /\ HubInv /\ OrderInv /\ RoomsInv /\ SendersKnown

LEMMA ConnectedClient ==
    ASSUME ChatTypeOK, NEW c \in Conns
    PROVE  Connected(c) <=> conn[c] \in Client
  BY DEF ChatTypeOK, Connected, Client, Unused

\* What a request leaves alone.
LEMMA HubFrame ==
    ASSUME HubInv, ChatTypeOK, UNCHANGED <<online, panicked>>,
           \A c \in Conns : /\ Connected(c)' = Connected(c)
                            /\ Connected(c) =>
                                 /\ conn'[c].user = conn[c].user /\ conn'[c].open = conn[c].open
                                 /\ \/ conn'[c].reader = conn[c].reader
                                    \/ {conn[c].reader, conn'[c].reader}
                                         \subseteq {"reading", "sending", "leaving"},
           \/ taken' = taken
           \/ {taken.op, taken'.op} \cap {"register", "unregister"} = {}
    PROVE  HubInv'
<1>1. \A c \in Conns : Due(c)' = Due(c) /\ (Due(c) => taken' = taken)
  BY DEF Due
<1>2. \A c \in Conns : Connected(c) => IsOnline(c)' = IsOnline(c)
  BY DEF IsOnline
<1>3. ASSUME NEW c \in Conns PROVE HubKnows(c)'
  <2>1. HubKnows(c) /\ Connected(c)' = Connected(c)
    BY DEF HubInv
  <2>. QED BY <2>1, <1>1, <1>2 DEF HubKnows, Registering
<1>4. OnlineIsOpen'
  BY DEF HubInv, OnlineIsOpen, ChatTypeOK
<1>. QED BY <1>1, <1>3, <1>4 DEF HubInv

LEMMA OrderFrame ==
    ASSUME OrderInv, UNCHANGED <<broadcast, entered>>, Held' = Held,
           \A c \in Conns :
             Connected(c)' =>
               \/ /\ Connected(c)
                  /\ conn'[c].got = conn[c].got /\ conn'[c].send = conn[c].send
               \/ conn'[c].got = <<>> /\ conn'[c].send = <<>>
    PROVE  OrderInv'
<1>1. \A m, n : Before(m, n)' = Before(m, n)
  BY DEF Before
<1>2. HubInOrder'
  BY <1>1 DEF OrderInv, HubInOrder, InOrder, Precede, Elements
<1>3. ASSUME NEW c \in Conns, Connected(c)' PROVE PeerInOrder(c)'
  <2>1. CASE Connected(c) /\ conn'[c].got = conn[c].got /\ conn'[c].send = conn[c].send
    <3>. DEFINE G == conn[c].got
                S == conn[c].send
                B == broadcast
    <3>1. /\ InOrder(G) /\ InOrder(S) /\ Precede(Elements(G), Elements(S))
          /\ Precede(Elements(G) \cup Elements(S), Held \cup Elements(B))
          /\ Elements(G) \cup Elements(S) \subseteq Elements(entered)
      BY <2>1 DEF OrderInv, PeerInOrder
    <3>2. conn'[c].got = G /\ conn'[c].send = S /\ broadcast' = B /\ entered' = entered
          /\ Held' = Held
      BY <2>1
    <3>3. InOrder(G)' /\ InOrder(S)'
      BY <1>1, <3>1, <3>2 DEF InOrder
    <3>4. Elements(G)' = Elements(G) /\ Elements(S)' = Elements(S) /\ Elements(B)' = Elements(B)
          /\ Elements(entered)' = Elements(entered)
      BY <3>2 DEF Elements
    <3>5. Precede(Elements(G), Elements(S))'
          /\ Precede(Elements(G) \cup Elements(S), Held \cup Elements(B))'
      BY <1>1, <3>1, <3>2, <3>4 DEF Precede
    <3>. QED BY <3>1, <3>3, <3>4, <3>5 DEF PeerInOrder
  <2>2. CASE conn'[c].got = <<>> /\ conn'[c].send = <<>>
    <3>1. Elements(conn'[c].got) = {} /\ Elements(conn'[c].send) = {}
      BY <2>2 DEF Elements
    <3>2. InOrder(conn[c].got)' /\ InOrder(conn[c].send)'
      BY <2>2 DEF InOrder
    <3>. QED BY <3>1, <3>2 DEF PeerInOrder, Precede, Elements
  <2>. QED BY <1>3, <2>1, <2>2
<1>4. \A c \in Conns : PeerInOrder(c)'
  BY <1>3 DEF PeerInOrder
<1>. QED BY <1>2, <1>4 DEF OrderInv

LEMMA RoomsFrame ==
    ASSUME RoomsInv, UNCHANGED joined,
           \A c \in Conns : /\ Connected(c)' = Connected(c)
                            /\ Connected(c) =>
                                 /\ conn'[c].user = conn[c].user /\ conn'[c].rooms = conn[c].rooms
                                 /\ Registering(c)' => Registering(c)
                                 /\ ~conn'[c].open /\ conn'[c].reader # "gone" =>
                                      \/ ~conn[c].open /\ conn[c].reader # "gone"
                                      \/ Replaced(c)
    PROVE  RoomsInv'
<1>1. RoomsAreJoined'
  BY DEF RoomsInv, RoomsAreJoined
<1>2. \A c \in Conns : Connected(c) /\ Replaced(c) => Replaced(c)'
  BY DEF Replaced
<1>3. \A c \in Conns : RoomsKnown(c)'
  BY <1>2 DEF RoomsInv, RoomsKnown
<1>. QED BY <1>1, <1>3 DEF RoomsInv

\* One connection changes.
LEMMA ConnType ==
    ASSUME ChatTypeOK, NEW c \in Conns, Connected(c), NEW new \in Client,
           Len(new.send) <= SendBuffer, conn' = [conn EXCEPT ![c] = new]
    PROVE  /\ DOMAIN conn' = Conns
           /\ \A d \in Conns : conn'[d] \in Client \cup {Unused}
           /\ \A d \in Conns : conn'[d].reader # "unused" => Len(conn'[d].send) <= SendBuffer
           /\ \A d \in Conns : Connected(d)' = Connected(d)
           /\ conn'[c] = new /\ \A d \in Conns \ {c} : conn'[d] = conn[d]
<1>1. new.reader # "unused"
  BY DEF Client
<1>. QED BY <1>1 DEF ChatTypeOK, Connected

LEMMA AppendElements ==
    ASSUME NEW s \in Seq(Message), NEW m \in Message
    PROVE  /\ Append(s, m) \in Seq(Message) /\ Len(Append(s, m)) = Len(s) + 1
           /\ Elements(Append(s, m)) = Elements(s) \cup {m}
           /\ InOrder(s) /\ Precede(Elements(s), {m}) => InOrder(Append(s, m))
<1>1. /\ Append(s, m) \in Seq(Message) /\ Len(Append(s, m)) = Len(s) + 1
      /\ DOMAIN Append(s, m) = 1..(Len(s) + 1) /\ DOMAIN s = 1..Len(s) /\ Len(s) \in Nat
      /\ \A i \in 1..Len(s) : Append(s, m)[i] = s[i]
      /\ Append(s, m)[Len(s) + 1] = m
  OBVIOUS
<1>2. Elements(Append(s, m)) = Elements(s) \cup {m}
  BY <1>1 DEF Elements
<1>3. ASSUME InOrder(s), Precede(Elements(s), {m}), NEW i \in 1..(Len(s) + 1),
             NEW j \in 1..(Len(s) + 1), i < j
      PROVE  Before(Append(s, m)[i], Append(s, m)[j])
  <2>1. i \in 1..Len(s)
    BY <1>1, <1>3
  <2>2. CASE j \in 1..Len(s)
    BY <1>1, <1>3, <2>1, <2>2 DEF InOrder
  <2>3. CASE j = Len(s) + 1
    BY <1>1, <1>3, <2>1, <2>3 DEF Elements, Precede
  <2>. QED BY <1>1, <2>2, <2>3
<1>4. InOrder(s) /\ Precede(Elements(s), {m}) => InOrder(Append(s, m))
  BY <1>1, <1>3 DEF InOrder
<1>. QED BY <1>1, <1>2, <1>4

LEMMA TailElements ==
    ASSUME NEW s \in Seq(Message), s # <<>>
    PROVE  /\ Tail(s) \in Seq(Message) /\ Head(s) \in Message /\ Len(Tail(s)) = Len(s) - 1
           /\ Len(s) \in Nat
           /\ Elements(s) = {Head(s)} \cup Elements(Tail(s))
           /\ InOrder(s) => InOrder(Tail(s)) /\ Precede({Head(s)}, Elements(Tail(s)))
<1>1. /\ Tail(s) \in Seq(Message) /\ Head(s) \in Message /\ Len(Tail(s)) = Len(s) - 1
      /\ Len(s) \in Nat /\ Len(s) >= 1 /\ Head(s) = s[1]
      /\ DOMAIN Tail(s) = 1..(Len(s) - 1) /\ DOMAIN s = 1..Len(s)
      /\ \A i \in 1..(Len(s) - 1) : Tail(s)[i] = s[i + 1]
  OBVIOUS
<1>2. Elements(s) = {Head(s)} \cup Elements(Tail(s))
  <2>1. ASSUME NEW i \in 1..Len(s) PROVE s[i] \in {Head(s)} \cup Elements(Tail(s))
    <3>1. CASE i = 1
      BY <1>1, <3>1
    <3>2. CASE i # 1
      <4>1. i - 1 \in 1..(Len(s) - 1) /\ (i - 1) + 1 = i
        BY <1>1, <3>2
      <4>2. Tail(s)[i - 1] = s[i]
        BY <1>1, <4>1
      <4>. QED BY <1>1, <4>1, <4>2 DEF Elements
    <3>. QED BY <3>1, <3>2
  <2>2. ASSUME NEW i \in 1..(Len(s) - 1) PROVE Tail(s)[i] \in Elements(s)
    <3>1. i + 1 \in 1..Len(s) /\ Tail(s)[i] = s[i + 1]
      BY <1>1
    <3>. QED BY <1>1, <3>1 DEF Elements
  <2>3. Head(s) \in Elements(s)
    BY <1>1 DEF Elements
  <2>4. Elements(s) \subseteq {Head(s)} \cup Elements(Tail(s))
    BY <1>1, <2>1 DEF Elements
  <2>5. Elements(Tail(s)) \subseteq Elements(s)
    BY <1>1, <2>2 DEF Elements
  <2>. QED BY <2>3, <2>4, <2>5
<1>3. ASSUME InOrder(s) PROVE InOrder(Tail(s)) /\ Precede({Head(s)}, Elements(Tail(s)))
  <2>1. ASSUME NEW i \in 1..(Len(s) - 1) PROVE Before(Head(s), Tail(s)[i])
    <3>1. i + 1 \in 1..Len(s) /\ 1 \in 1..Len(s) /\ 1 < i + 1
      BY <1>1
    <3>. QED BY <1>1, <1>3, <3>1 DEF InOrder
  <2>2. ASSUME NEW i \in 1..(Len(s) - 1), NEW j \in 1..(Len(s) - 1), i < j
        PROVE  Before(Tail(s)[i], Tail(s)[j])
    <3>1. i + 1 \in 1..Len(s) /\ j + 1 \in 1..Len(s) /\ i + 1 < j + 1
      BY <1>1, <2>2
    <3>2. Before(s[i + 1], s[j + 1])
      BY <1>1, <1>3, <3>1 DEF InOrder
    <3>. QED BY <1>1, <3>2
  <2>. QED BY <1>1, <2>1, <2>2 DEF InOrder, Precede, Elements
<1>. QED BY <1>1, <1>2, <1>3

\* What is entered stays where it is; what comes is after all that is there.
LEMMA EnteredGrows ==
    ASSUME ChatTypeOK, NEW m \in Message, entered' = Append(entered, m)
    PROVE  /\ \A x, y : Before(x, y) => Before(x, y)'
           /\ \A x \in Elements(entered) : Before(x, m)'
           /\ Elements(entered)' = Elements(entered) \cup {m}
<1>1. entered \in Seq(Message)
  BY DEF ChatTypeOK
<1>2. /\ DOMAIN entered' = 1..(Len(entered) + 1) /\ DOMAIN entered = 1..Len(entered)
      /\ Len(entered) \in Nat /\ entered'[Len(entered) + 1] = m
      /\ \A i \in 1..Len(entered) : entered'[i] = entered[i]
  BY <1>1
<1>3. ASSUME NEW x, NEW y, Before(x, y) PROVE Before(x, y)'
  <2>1. PICK i \in DOMAIN entered, j \in DOMAIN entered : i < j /\ entered[i] = x /\ entered[j] = y
    BY <1>3 DEF Before
  <2>2. i \in DOMAIN entered' /\ j \in DOMAIN entered' /\ entered'[i] = x /\ entered'[j] = y
    BY <1>2, <2>1
  <2>. QED BY <2>1, <2>2 DEF Before
<1>4. ASSUME NEW x \in Elements(entered) PROVE Before(x, m)'
  <2>1. PICK i \in DOMAIN entered : entered[i] = x
    BY DEF Elements
  <2>2. i \in DOMAIN entered' /\ Len(entered) + 1 \in DOMAIN entered' /\ i < Len(entered) + 1
        /\ entered'[i] = x /\ entered'[Len(entered) + 1] = m
    BY <1>2, <2>1
  <2>. QED BY <2>2 DEF Before
<1>5. Elements(entered') = Elements(entered) \cup {m}
  <2>1. Elements(Append(entered, m)) = Elements(entered) \cup {m}
    BY <1>1, AppendElements
  <2>. QED BY <2>1
<1>. QED BY <1>3, <1>4, <1>5 DEF Elements

\* A step of the reader or the writer of a connection that is up: what it holds does not
\* grow, and stays in order.
LEMMA PumpStep ==
    ASSUME ChatInv, NEW c \in Conns, Connected(c), NEW new \in Client,
           conn' = [conn EXCEPT ![c] = new], Len(new.send) <= SendBuffer,
           new.user = conn[c].user, new.open = conn[c].open, new.rooms = conn[c].rooms,
           \/ new.reader = conn[c].reader
           \/ {conn[c].reader, new.reader} \subseteq {"reading", "sending", "leaving"},
           InOrder(new.got), InOrder(new.send), Precede(Elements(new.got), Elements(new.send)),
           Elements(new.got) \cup Elements(new.send)
             \subseteq Elements(conn[c].got) \cup Elements(conn[c].send),
           new.reader = "sending" => new.out \in Message,
           UNCHANGED <<online, broadcast, taken, panicked, entered, joined>>,
           post' \in [Posts -> {"new", "stored", "lost"}]
    PROVE  ChatInv'
<1>1. ChatTypeOK /\ HubInv /\ OrderInv /\ RoomsInv /\ SendersKnown
  BY DEF ChatInv
<1>2. /\ DOMAIN conn' = Conns
      /\ \A d \in Conns : conn'[d] \in Client \cup {Unused}
      /\ \A d \in Conns : conn'[d].reader # "unused" => Len(conn'[d].send) <= SendBuffer
      /\ \A d \in Conns : Connected(d)' = Connected(d)
      /\ conn'[c] = new /\ \A d \in Conns \ {c} : conn'[d] = conn[d]
  BY <1>1, ConnType
<1>3. ChatTypeOK'
  BY <1>1, <1>2 DEF ChatTypeOK
<1>4. HubInv'
  BY <1>1, <1>2, HubFrame
<1>5. RoomsInv'
  BY <1>1, <1>2, RoomsFrame DEF Registering, Due
<1>6. /\ \A x, y : Before(x, y)' = Before(x, y)
      /\ Held' = Held /\ broadcast' = broadcast /\ entered' = entered
  BY DEF Before, Held
<1>7. HubInOrder'
  BY <1>1, <1>6 DEF OrderInv, HubInOrder, InOrder, Precede, Elements
<1>8. ASSUME NEW d \in Conns, Connected(d)' PROVE PeerInOrder(d)'
  <2>. DEFINE G == conn'[d].got
              S == conn'[d].send
  <2>1. /\ InOrder(G) /\ InOrder(S) /\ Precede(Elements(G), Elements(S))
        /\ Elements(G) \cup Elements(S) \subseteq Elements(conn[d].got) \cup Elements(conn[d].send)
    <3>1. CASE d = c
      BY <3>1, <1>2
    <3>2. CASE d # c
      BY <3>2, <1>1, <1>2, <1>8 DEF OrderInv, PeerInOrder
    <3>. QED BY <3>1, <3>2
  <2>2. /\ Precede(Elements(conn[d].got) \cup Elements(conn[d].send), Held \cup Elements(broadcast))
        /\ Elements(conn[d].got) \cup Elements(conn[d].send) \subseteq Elements(entered)
    BY <1>1, <1>2, <1>8 DEF OrderInv, PeerInOrder
  <2>3. /\ Precede(Elements(G) \cup Elements(S), Held \cup Elements(broadcast))
        /\ Elements(G) \cup Elements(S) \subseteq Elements(entered)
    BY <2>1, <2>2 DEF Precede
  <2>4. /\ InOrder(conn[d].got)' /\ InOrder(conn[d].send)'
        /\ Precede(Elements(conn[d].got), Elements(conn[d].send))'
    BY <1>6, <2>1 DEF InOrder, Precede, Elements
  <2>5. /\ Precede(Elements(conn[d].got) \cup Elements(conn[d].send), Held \cup Elements(broadcast))'
        /\ (Elements(conn[d].got) \cup Elements(conn[d].send))' \subseteq Elements(entered)'
    <3>1. /\ Elements(broadcast)' = Elements(broadcast) /\ Elements(entered)' = Elements(entered)
          /\ Elements(conn[d].got)' = Elements(G) /\ Elements(conn[d].send)' = Elements(S)
      BY <1>6 DEF Elements
    <3>. QED BY <3>1, <1>6, <2>3 DEF Precede
  <2>. QED BY <2>4, <2>5 DEF PeerInOrder
<1>9. OrderInv'
  BY <1>7, <1>8 DEF OrderInv, PeerInOrder
<1>10. SendersKnown'
  BY <1>1, <1>2 DEF SendersKnown
<1>. QED BY <1>3, <1>4, <1>5, <1>9, <1>10 DEF ChatInv

\* What is known of a client before a step.
LEMMA ClientFacts ==
    ASSUME ChatInv, NEW c \in Conns, Connected(c)
    PROVE  /\ conn[c] \in Client /\ Len(conn[c].send) <= SendBuffer
           /\ conn[c].send \in Seq(Message) /\ conn[c].got \in Seq(Message)
           /\ conn[c].reader = "sending" => conn[c].out \in Message
           /\ InOrder(conn[c].got) /\ InOrder(conn[c].send)
           /\ Precede(Elements(conn[c].got), Elements(conn[c].send))
<1>1. conn[c] \in Client
  BY ConnectedClient DEF ChatInv
<1>2. conn[c].send \in Seq(Message) /\ conn[c].got \in Seq(Message) /\ conn[c].reader # "unused"
  BY <1>1 DEF Client
<1>3. Len(conn[c].send) <= SendBuffer
  BY <1>2 DEF ChatInv, ChatTypeOK
<1>. QED BY <1>1, <1>2, <1>3 DEF ChatInv, OrderInv, PeerInOrder, SendersKnown

LEMMA ReadFailsStep ==
    ASSUME ChatInv, NEW c \in Conns, ReadFails(c)
    PROVE  ChatInv'
<1>. DEFINE new == [conn[c] EXCEPT !.reader = "leaving"]
<1>1. conn[c] \in Client /\ Connected(c)
  BY ConnectedClient DEF ChatInv, ReadFails
<1>2. /\ new \in Client /\ new.reader = "leaving"
      /\ new.user = conn[c].user /\ new.open = conn[c].open /\ new.rooms = conn[c].rooms
      /\ new.got = conn[c].got /\ new.send = conn[c].send
  BY <1>1 DEF Client
<1>3. conn' = [conn EXCEPT ![c] = new] /\ conn[c].reader = "reading"
  BY DEF ReadFails
<1>4. post' \in [Posts -> {"new", "stored", "lost"}]
  BY DEF ReadFails, ChatInv, ChatTypeOK
<1>. HIDE DEF new
<1>5. /\ InOrder(new.got) /\ InOrder(new.send)
      /\ Precede(Elements(new.got), Elements(new.send))
      /\ Elements(new.got) \cup Elements(new.send)
           \subseteq Elements(conn[c].got) \cup Elements(conn[c].send)
      /\ Len(new.send) <= SendBuffer
  BY <1>1, <1>2, ClientFacts
<1>6. {conn[c].reader, new.reader} \subseteq {"reading", "sending", "leaving"}
      /\ UNCHANGED <<online, broadcast, taken, panicked, entered, joined>>
  BY <1>2, <1>3 DEF ReadFails
<1>. QED BY <1>1, <1>2, <1>3, <1>4, <1>5, <1>6, PumpStep

LEMMA ReadMessageStep ==
    ASSUME ChatInv, NEW c \in Conns, NEW p \in Posts, NEW r \in Rooms, ReadMessage(c, p, r)
    PROVE  ChatInv'
<1>. DEFINE half == [conn[c] EXCEPT !.reader = "sending"]
            m == [post |-> p, room |-> r]
            new == [half EXCEPT !.out = m]
<1>1. conn[c] \in Client /\ Connected(c)
  BY ConnectedClient DEF ChatInv, ReadMessage, Reading
<1>2. /\ half \in Client /\ half.reader = "sending"
      /\ half.user = conn[c].user /\ half.open = conn[c].open /\ half.rooms = conn[c].rooms
      /\ half.got = conn[c].got /\ half.send = conn[c].send
  BY <1>1 DEF Client
<1>3. conn' = [conn EXCEPT ![c] = new] /\ conn[c].reader = "reading"
  BY DEF ReadMessage, Reading
<1>4. m \in Message
  BY DEF Message
<1>. HIDE DEF half, m
<1>5. /\ new \in Client /\ new.reader = "sending" /\ new.out \in Message
      /\ new.user = conn[c].user /\ new.open = conn[c].open /\ new.rooms = conn[c].rooms
      /\ new.got = conn[c].got /\ new.send = conn[c].send
  BY <1>2, <1>4 DEF Client
<1>6. post' \in [Posts -> {"new", "stored", "lost"}]
  BY DEF ReadMessage, ChatInv, ChatTypeOK
<1>. HIDE DEF new
<1>7. /\ InOrder(new.got) /\ InOrder(new.send)
      /\ Precede(Elements(new.got), Elements(new.send))
      /\ Elements(new.got) \cup Elements(new.send)
           \subseteq Elements(conn[c].got) \cup Elements(conn[c].send)
      /\ Len(new.send) <= SendBuffer
  BY <1>1, <1>5, ClientFacts
<1>8. {conn[c].reader, new.reader} \subseteq {"reading", "sending", "leaving"}
      /\ UNCHANGED <<online, broadcast, taken, panicked, entered, joined>>
  BY <1>3, <1>5 DEF ReadMessage
<1>. QED BY <1>1, <1>3, <1>5, <1>6, <1>7, <1>8, PumpStep

LEMMA WriteMessageStep ==
    ASSUME ChatInv, NEW c \in Conns, WriteMessage(c)
    PROVE  ChatInv'
<1>. DEFINE G == conn[c].got
            S == conn[c].send
            half == [conn[c] EXCEPT !.send = Tail(S)]
            new == [half EXCEPT !.got = Append(G, Head(S))]
<1>1. Connected(c) /\ S # <<>>
  BY DEF WriteMessage, Writing
<1>2. /\ conn[c] \in Client /\ G \in Seq(Message) /\ S \in Seq(Message) /\ Len(S) <= SendBuffer
      /\ InOrder(G) /\ InOrder(S) /\ Precede(Elements(G), Elements(S))
      /\ conn[c].reader = "sending" => conn[c].out \in Message
  BY <1>1, ClientFacts
<1>3. /\ Tail(S) \in Seq(Message) /\ Head(S) \in Message /\ Len(Tail(S)) = Len(S) - 1
      /\ Len(S) \in Nat /\ Elements(S) = {Head(S)} \cup Elements(Tail(S))
      /\ InOrder(Tail(S)) /\ Precede({Head(S)}, Elements(Tail(S)))
  BY <1>1, <1>2, TailElements
<1>4. Precede(Elements(G), {Head(S)})
  BY <1>2, <1>3 DEF Precede
<1>5. /\ Append(G, Head(S)) \in Seq(Message)
      /\ Elements(Append(G, Head(S))) = Elements(G) \cup {Head(S)}
      /\ InOrder(Append(G, Head(S)))
  BY <1>2, <1>3, <1>4, AppendElements
<1>6. Precede(Elements(Append(G, Head(S))), Elements(Tail(S)))
  BY <1>2, <1>3, <1>5 DEF Precede
<1>7. /\ half \in Client /\ half.reader = conn[c].reader /\ half.out = conn[c].out /\ half.send = Tail(S)
      /\ half.user = conn[c].user /\ half.open = conn[c].open /\ half.rooms = conn[c].rooms
  BY <1>2, <1>3 DEF Client
<1>8. conn' = [conn EXCEPT ![c] = new]
  BY DEF WriteMessage
<1>. HIDE DEF half
<1>9. /\ new \in Client /\ new.reader = conn[c].reader /\ new.out = conn[c].out /\ new.send = Tail(S)
      /\ new.got = Append(G, Head(S))
      /\ new.user = conn[c].user /\ new.open = conn[c].open /\ new.rooms = conn[c].rooms
  BY <1>5, <1>7 DEF Client
<1>10. Len(Tail(S)) <= SendBuffer /\ post' \in [Posts -> {"new", "stored", "lost"}]
  BY <1>2, <1>3, ChatAssumption DEF WriteMessage, ChatInv, ChatTypeOK
<1>11. Elements(new.got) \cup Elements(new.send) \subseteq Elements(G) \cup Elements(S)
  BY <1>3, <1>5, <1>9
<1>. HIDE DEF new
<1>12. /\ InOrder(new.got) /\ InOrder(new.send)
       /\ Precede(Elements(new.got), Elements(new.send))
       /\ Elements(new.got) \cup Elements(new.send)
            \subseteq Elements(conn[c].got) \cup Elements(conn[c].send)
       /\ Len(new.send) <= SendBuffer
  BY <1>3, <1>5, <1>6, <1>9, <1>10, <1>11
<1>13. UNCHANGED <<online, broadcast, taken, panicked, entered, joined>>
  BY DEF WriteMessage
<1>. QED BY <1>1, <1>2, <1>8, <1>9, <1>10, <1>12, <1>13, PumpStep

LEMMA WriterReturnsStep ==
    ASSUME ChatInv, NEW c \in Conns, WriterReturns(c)
    PROVE  ChatInv'
<1>. DEFINE G == conn[c].got
            S == conn[c].send
            half == [conn[c] EXCEPT !.writer = "gone"]
<1>1. Connected(c)
  BY DEF WriterReturns, Writing
<1>2. /\ conn[c] \in Client /\ G \in Seq(Message) /\ S \in Seq(Message) /\ Len(S) <= SendBuffer
      /\ InOrder(G) /\ InOrder(S) /\ Precede(Elements(G), Elements(S))
      /\ conn[c].reader = "sending" => conn[c].out \in Message
  BY <1>1, ClientFacts
<1>3. /\ half \in Client /\ half.reader = conn[c].reader /\ half.out = conn[c].out /\ half.got = G /\ half.send = S
      /\ half.user = conn[c].user /\ half.open = conn[c].open /\ half.rooms = conn[c].rooms
  BY <1>2 DEF Client
<1>4. post' \in [Posts -> {"new", "stored", "lost"}]
  BY DEF WriterReturns, ChatInv, ChatTypeOK
<1>5. CASE conn' = [conn EXCEPT ![c].writer = "gone"]
  <2>1. conn' = [conn EXCEPT ![c] = half]
    BY <1>5
  <2>. HIDE DEF half
  <2>. QED BY <2>1, <1>1, <1>2, <1>3, <1>4, PumpStep DEF WriterReturns
<1>6. CASE S # <<>> /\ conn' = [conn EXCEPT ![c].writer = "gone", ![c].send = Tail(@)]
  <2>. DEFINE new == [half EXCEPT !.send = Tail(S)]
  <2>1. /\ Tail(S) \in Seq(Message) /\ Len(Tail(S)) = Len(S) - 1 /\ Len(S) \in Nat
        /\ Elements(S) = {Head(S)} \cup Elements(Tail(S)) /\ InOrder(Tail(S))
    BY <1>2, <1>6, TailElements
  <2>2. conn' = [conn EXCEPT ![c] = new]
    BY <1>6
  <2>. HIDE DEF half
  <2>3. /\ new \in Client /\ new.reader = conn[c].reader /\ new.out = conn[c].out /\ new.got = G /\ new.send = Tail(S)
        /\ new.user = conn[c].user /\ new.open = conn[c].open /\ new.rooms = conn[c].rooms
    BY <2>1, <1>3 DEF Client
  <2>4. Len(Tail(S)) <= SendBuffer /\ Precede(Elements(G), Elements(Tail(S)))
    BY <2>1, <1>2, ChatAssumption DEF Precede
  <2>5. Elements(new.got) \cup Elements(new.send) \subseteq Elements(G) \cup Elements(S)
    BY <2>1, <2>3
  <2>. HIDE DEF new
  <2>6. /\ InOrder(new.got) /\ InOrder(new.send)
        /\ Precede(Elements(new.got), Elements(new.send))
        /\ Elements(new.got) \cup Elements(new.send)
             \subseteq Elements(conn[c].got) \cup Elements(conn[c].send)
        /\ Len(new.send) <= SendBuffer
    BY <2>1, <2>3, <2>4, <2>5, <1>2
  <2>7. UNCHANGED <<online, broadcast, taken, panicked, entered, joined>>
    BY DEF WriterReturns
  <2>. QED BY <2>2, <2>3, <2>6, <2>7, <1>1, <1>2, <1>4, PumpStep
<1>. QED BY <1>5, <1>6 DEF WriterReturns

LEMMA SetRoomsStep ==
    ASSUME ChatInv, NEW c \in Conns, NEW r \in Rooms, NEW enters \in BOOLEAN,
           Connected(c), conn[c].reader = "reading", SetRooms(c, r, enters),
           UNCHANGED <<online, broadcast, taken, post, panicked, entered>>
    PROVE  ChatInv'
<1>. DEFINE with(R) == IF enters THEN R \cup {r} ELSE R \ {r}
            cur == online[conn[c].user]
            new == [conn[cur] EXCEPT !.rooms = with(@)]
<1>1. ChatTypeOK /\ HubInv /\ OrderInv /\ RoomsInv /\ SendersKnown
  BY DEF ChatInv
<1>2. conn[c] \in Client /\ conn[c].user \in ChatUsers
  BY <1>1, ConnectedClient DEF Client
<1>3. joined' = [joined EXCEPT ![c] = with(@)] /\ joined' \in [Conns -> SUBSET Rooms]
  BY <1>1 DEF SetRooms, ChatTypeOK
<1>4. CASE cur = NoClient
  <2>1. conn' = conn
    BY <1>4 DEF SetRooms
  <2>2. ChatTypeOK'
    BY <1>1, <1>3, <2>1 DEF ChatTypeOK
  <2>3. \A d \in Conns : Connected(d)' = Connected(d)
    BY <2>1 DEF Connected
  <2>4. HubInv'
    BY <1>1, <2>1, <2>3, HubFrame
  <2>5. OrderInv'
    BY <1>1, <2>1, <2>3, OrderFrame DEF Held
  <2>6. RoomsAreJoined'
    <3>1. ASSUME NEW d \in Conns, Connected(d)',
                 \A e \in Conns \ {d} : Connected(e)' => conn'[e].user # conn'[d].user
          PROVE  conn'[d].rooms \subseteq joined'[d]
      <4>1. Connected(d) /\ conn[d].rooms \subseteq joined[d]
        BY <1>1, <2>1, <2>3, <3>1 DEF RoomsInv, RoomsAreJoined
      <4>2. CASE d = c
        <5>1. CASE enters
          BY <1>1, <1>3, <2>1, <4>1, <4>2, <5>1 DEF ChatTypeOK
        <5>2. CASE ~enters
          <6>1. ~Replaced(c) /\ ~IsOnline(c)
            BY <1>4, <2>1, <2>3, <3>1, <4>1, <4>2, ChatAssumption DEF Replaced, IsOnline
          <6>2. Registering(c)
            BY <1>1, <6>1, <4>1, <4>2 DEF RoomsInv, RoomsKnown, HubInv, HubKnows
          <6>3. conn[c].rooms = {}
            BY <1>1, <4>1, <4>2, <6>2 DEF RoomsInv, RoomsKnown
          <6>. QED BY <6>3, <2>1, <4>2
        <5>. QED BY <5>1, <5>2
      <4>3. CASE d # c
        BY <1>1, <1>3, <2>1, <4>1, <4>3 DEF ChatTypeOK
      <4>. QED BY <4>2, <4>3
    <3>. QED BY <3>1 DEF RoomsAreJoined
  <2>7. \A d \in Conns : RoomsKnown(d)'
    BY <1>1, <2>1, <2>3 DEF RoomsInv, RoomsKnown, Registering, Due, Replaced
  <2>8. SendersKnown'
    BY <1>1, <2>1, <2>3 DEF SendersKnown
  <2>. QED BY <2>2, <2>4, <2>5, <2>6, <2>7, <2>8 DEF ChatInv, RoomsInv
<1>5. CASE cur # NoClient
  <2>1. /\ cur \in Conns /\ Connected(cur) /\ conn[cur].user = conn[c].user
        /\ conn[cur] \in Client /\ Len(conn[cur].send) <= SendBuffer
    BY <1>1, <1>2, <1>5, ClientFacts DEF HubInv, OnlineIsOpen, ChatTypeOK
  <2>2. conn' = [conn EXCEPT ![cur] = new]
    BY <1>5 DEF SetRooms
  <2>3. with(conn[cur].rooms) \in SUBSET Rooms
    BY <2>1 DEF Client
  <2>4. /\ new \in Client /\ new.user = conn[cur].user /\ new.open = conn[cur].open
        /\ new.reader = conn[cur].reader /\ new.got = conn[cur].got
        /\ new.send = conn[cur].send /\ new.out = conn[cur].out
        /\ new.rooms = with(conn[cur].rooms)
    <3>. HIDE DEF with, cur
    <3>. QED BY <2>1, <2>3 DEF Client
  <2>. HIDE DEF new
  <2>5. /\ DOMAIN conn' = Conns
        /\ \A d \in Conns : conn'[d] \in Client \cup {Unused}
        /\ \A d \in Conns : conn'[d].reader # "unused" => Len(conn'[d].send) <= SendBuffer
        /\ \A d \in Conns : Connected(d)' = Connected(d)
        /\ conn'[cur] = new /\ \A d \in Conns \ {cur} : conn'[d] = conn[d]
    BY <1>1, <2>1, <2>2, <2>4, ConnType
  <2>6. ChatTypeOK'
    BY <1>1, <1>3, <2>5 DEF ChatTypeOK
  <2>7. HubInv'
    <3>. HIDE DEF cur
    <3>. QED BY <1>1, <2>4, <2>5, HubFrame
  <2>8. OrderInv'
    <3>. HIDE DEF cur
    <3>. QED BY <1>1, <2>4, <2>5, OrderFrame DEF Held
  <2>9. RoomsAreJoined'
    <3>1. ASSUME NEW d \in Conns, Connected(d)',
                 \A e \in Conns \ {d} : Connected(e)' => conn'[e].user # conn'[d].user
          PROVE  conn'[d].rooms \subseteq joined'[d]
      <4>0. \A e \in Conns : Connected(e) => conn'[e].user = conn[e].user
        BY <2>4, <2>5
      <4>1. Connected(d) /\ conn[d].rooms \subseteq joined[d]
        BY <1>1, <2>5, <3>1, <4>0 DEF RoomsInv, RoomsAreJoined
      <4>2. CASE d = c
        <5>1. cur = c
          BY <2>1, <2>5, <3>1, <4>0, <4>2
        <5>2. conn'[c].rooms = with(conn[c].rooms) /\ joined'[c] = with(joined[c])
          BY <1>1, <1>3, <2>4, <2>5, <5>1 DEF ChatTypeOK
        <5>. QED BY <4>1, <4>2, <5>2
      <4>3. CASE d # c
        <5>1. d # cur
          BY <2>1, <2>5, <3>1, <4>0, <4>3
        <5>. QED BY <1>1, <1>3, <2>5, <4>1, <4>3, <5>1 DEF ChatTypeOK
      <4>. QED BY <4>2, <4>3
    <3>. QED BY <3>1 DEF RoomsAreJoined
  <2>10. ASSUME NEW d \in Conns PROVE RoomsKnown(d)'
    <3>1. RoomsKnown(d)
      BY <1>1 DEF RoomsInv
    <3>2. \A e \in Conns : Connected(e) => conn'[e].user = conn[e].user
      BY <2>4, <2>5
    <3>3. Connected(d) /\ Replaced(d) => Replaced(d)'
      BY <2>5, <3>2 DEF Replaced
    <3>4. Connected(d) => /\ Registering(d)' = Registering(d)
                          /\ conn'[d].open = conn[d].open /\ conn'[d].reader = conn[d].reader
      BY <2>4, <2>5 DEF Registering, Due
    <3>5. IsOnline(cur)
      BY <2>1 DEF IsOnline
    <3>6. ~Registering(cur)
      BY <1>1, <2>1, <3>5 DEF HubInv, HubKnows
    <3>. HIDE DEF cur
    <3>. QED BY <2>5, <3>1, <3>3, <3>4, <3>6 DEF RoomsKnown
  <2>11. SendersKnown'
    <3>. HIDE DEF cur
    <3>. QED BY <1>1, <2>4, <2>5 DEF SendersKnown
  <2>. QED BY <2>6, <2>7, <2>8, <2>9, <2>10, <2>11 DEF ChatInv, RoomsInv
<1>. QED BY <1>4, <1>5

LEMMA JoinLeaveStep ==
    ASSUME ChatInv, NEW c \in Conns, NEW r \in Rooms,
           JoinConversation(c, r) \/ LeaveConversation(c, r)
    PROVE  ChatInv'
<1>1. Connected(c) /\ conn[c].reader = "reading"
      /\ UNCHANGED <<online, broadcast, taken, post, panicked, entered>>
      /\ (SetRooms(c, r, TRUE) \/ SetRooms(c, r, FALSE))
  BY DEF JoinConversation, LeaveConversation, Reading
<1>. QED BY <1>1, SetRoomsStep

LEMMA ConnectStep ==
    ASSUME ChatInv, NEW c \in Conns, NEW u \in ChatUsers, Connect(c, u)
    PROVE  ChatInv'
<1>. DEFINE new == [user |-> u, rooms |-> {}, open |-> TRUE, send |-> <<>>, got |-> <<>>,
                    out |-> NoMessage, reader |-> "registering", writer |-> "running"]
<1>1. ChatTypeOK /\ HubInv /\ OrderInv /\ RoomsInv /\ SendersKnown
  BY DEF ChatInv
<1>2. ~Connected(c) /\ conn' = [conn EXCEPT ![c] = new]
      /\ UNCHANGED <<online, broadcast, taken, post, panicked, entered, joined>>
  BY DEF Connect
<1>3. <<>> \in Seq(Message) /\ Len(<<>>) <= SendBuffer
  BY ChatAssumption
<1>4. /\ new \in Client /\ new.user = u /\ new.rooms = {} /\ new.open /\ new.send = <<>>
      /\ new.got = <<>> /\ new.reader = "registering"
  BY <1>3 DEF Client
<1>. HIDE DEF new
<1>5. conn'[c] = new /\ DOMAIN conn' = Conns /\ \A d \in Conns \ {c} : conn'[d] = conn[d]
  BY <1>1, <1>2 DEF ChatTypeOK
<1>6. Connected(c)' /\ \A d \in Conns \ {c} : Connected(d)' = Connected(d)
  BY <1>4, <1>5 DEF Connected
<1>7. ChatTypeOK'
  <2>1. \A d \in Conns : /\ conn'[d] \in Client \cup {Unused}
                         /\ conn'[d].reader # "unused" => Len(conn'[d].send) <= SendBuffer
    BY <1>1, <1>3, <1>4, <1>5 DEF ChatTypeOK
  <2>. QED BY <1>1, <1>2, <1>5, <2>1 DEF ChatTypeOK
<1>8. HubInv'
  <2>1. ~Due(c) /\ \A d \in Conns : Due(d)' = Due(d)
    BY <1>1, <1>2 DEF HubInv, Due
  <2>2. online[u] # c /\ \A v \in ChatUsers : online[v] # NoClient => online[v] \in Conns \ {c}
    BY <1>1, <1>2, ChatAssumption DEF HubInv, OnlineIsOpen, ChatTypeOK
  <2>3. OnlineIsOpen'
    BY <1>1, <1>2, <1>5, <1>6, <2>2 DEF HubInv, OnlineIsOpen
  <2>4. HubKnows(c)'
    BY <1>2, <1>4, <1>5, <1>6, <2>1, <2>2 DEF HubKnows, Registering, IsOnline
  <2>5. ASSUME NEW d \in Conns \ {c} PROVE HubKnows(d)'
    BY <1>1, <1>2, <1>5, <1>6, <2>1 DEF HubInv, HubKnows, Registering, IsOnline
  <2>. QED BY <1>1, <1>2, <1>6, <2>1, <2>3, <2>4, <2>5 DEF HubInv
<1>9. OrderInv'
  BY <1>1, <1>2, <1>4, <1>5, <1>6, OrderFrame DEF Held
<1>10. RoomsInv'
  <2>1. RoomsAreJoined'
    BY <1>1, <1>2, <1>4, <1>5, <1>6 DEF RoomsInv, RoomsAreJoined
  <2>2. ASSUME NEW d \in Conns \ {c} PROVE RoomsKnown(d)'
    <3>1. RoomsKnown(d) /\ (Connected(d) /\ Replaced(d) => Replaced(d)')
      BY <1>1, <1>2, <1>5, <1>6 DEF RoomsInv, Replaced
    <3>. QED BY <1>2, <1>5, <1>6, <3>1 DEF RoomsKnown, Registering, Due
  <2>3. RoomsKnown(c)'
    BY <1>4, <1>5 DEF RoomsKnown
  <2>. QED BY <2>1, <2>2, <2>3 DEF RoomsInv
<1>11. SendersKnown'
  BY <1>1, <1>4, <1>5, <1>6 DEF SendersKnown
<1>. QED BY <1>7, <1>8, <1>9, <1>10, <1>11 DEF ChatInv

LEMMA SendRegisterStep ==
    ASSUME ChatInv, NEW c \in Conns, SendRegister(c)
    PROVE  ChatInv'
<1>. DEFINE new == [conn[c] EXCEPT !.reader = "reading"]
<1>1. ChatTypeOK /\ HubInv /\ OrderInv /\ RoomsInv /\ SendersKnown
  BY DEF ChatInv
<1>2. /\ Connected(c) /\ conn[c].reader = "registering" /\ taken = Idling
      /\ taken' = [op |-> "register", conn |-> c] /\ conn' = [conn EXCEPT ![c] = new]
      /\ UNCHANGED <<online, broadcast, post, panicked, entered, joined>>
  BY DEF SendRegister
<1>3. conn[c] \in Client /\ Len(conn[c].send) <= SendBuffer
  BY <1>1, <1>2, ClientFacts DEF ChatInv
<1>4. /\ new \in Client /\ new.reader = "reading"
      /\ new.user = conn[c].user /\ new.open = conn[c].open /\ new.rooms = conn[c].rooms
      /\ new.got = conn[c].got /\ new.send = conn[c].send
  BY <1>3 DEF Client
<1>. HIDE DEF new
<1>5. /\ DOMAIN conn' = Conns
      /\ \A d \in Conns : conn'[d] \in Client \cup {Unused}
      /\ \A d \in Conns : conn'[d].reader # "unused" => Len(conn'[d].send) <= SendBuffer
      /\ \A d \in Conns : Connected(d)' = Connected(d)
      /\ conn'[c] = new /\ \A d \in Conns \ {c} : conn'[d] = conn[d]
  BY <1>1, <1>2, <1>3, <1>4, ConnType
<1>6. ChatTypeOK'
  BY <1>1, <1>2, <1>5 DEF ChatTypeOK
<1>7. Held = {} /\ Held' = {}
  BY <1>2 DEF Held, Idling
<1>8. OrderInv'
  BY <1>1, <1>2, <1>4, <1>5, <1>7, OrderFrame
<1>9. /\ \A d \in Conns : ~Due(d) /\ (Due(d)' <=> d = c)
      /\ \A d \in Conns : Connected(d) => IsOnline(d)' = IsOnline(d)
      /\ taken'.op = "register"
  BY <1>2, <1>4, <1>5 DEF Due, Idling, IsOnline
<1>10. HubInv'
  <2>1. OnlineIsOpen'
    BY <1>1, <1>2, <1>4, <1>5 DEF HubInv, OnlineIsOpen, ChatTypeOK
  <2>2. ASSUME NEW d \in Conns PROVE HubKnows(d)'
    BY <1>1, <1>2, <1>4, <1>5, <1>9 DEF HubInv, HubKnows, Registering
  <2>3. \A d \in Conns : Due(d)' => Connected(d)'
    BY <1>2, <1>5, <1>9
  <2>. QED BY <1>1, <1>2, <2>1, <2>2, <2>3 DEF HubInv
<1>11. RoomsInv'
  BY <1>1, <1>2, <1>4, <1>5, <1>9, RoomsFrame DEF Registering
<1>12. SendersKnown'
  BY <1>1, <1>4, <1>5 DEF SendersKnown
<1>. QED BY <1>6, <1>8, <1>10, <1>11, <1>12 DEF ChatInv

LEMMA SendUnregisterStep ==
    ASSUME ChatInv, NEW c \in Conns, SendUnregister(c)
    PROVE  ChatInv'
<1>. DEFINE new == [conn[c] EXCEPT !.reader = "gone"]
<1>1. ChatTypeOK /\ HubInv /\ OrderInv /\ RoomsInv /\ SendersKnown
  BY DEF ChatInv
<1>2. /\ Connected(c) /\ conn[c].reader = "leaving" /\ taken = Idling
      /\ taken' = [op |-> "unregister", conn |-> c] /\ conn' = [conn EXCEPT ![c] = new]
      /\ UNCHANGED <<online, broadcast, post, panicked, entered, joined>>
  BY DEF SendUnregister
<1>3. conn[c] \in Client /\ Len(conn[c].send) <= SendBuffer
  BY <1>1, <1>2, ClientFacts DEF ChatInv
<1>4. /\ new \in Client /\ new.reader = "gone"
      /\ new.user = conn[c].user /\ new.open = conn[c].open /\ new.rooms = conn[c].rooms
      /\ new.got = conn[c].got /\ new.send = conn[c].send
  BY <1>3 DEF Client
<1>. HIDE DEF new
<1>5. /\ DOMAIN conn' = Conns
      /\ \A d \in Conns : conn'[d] \in Client \cup {Unused}
      /\ \A d \in Conns : conn'[d].reader # "unused" => Len(conn'[d].send) <= SendBuffer
      /\ \A d \in Conns : Connected(d)' = Connected(d)
      /\ conn'[c] = new /\ \A d \in Conns \ {c} : conn'[d] = conn[d]
  BY <1>1, <1>2, <1>3, <1>4, ConnType
<1>6. ChatTypeOK'
  BY <1>1, <1>2, <1>5 DEF ChatTypeOK
<1>7. Held = {} /\ Held' = {}
  BY <1>2 DEF Held, Idling
<1>8. OrderInv'
  BY <1>1, <1>2, <1>4, <1>5, <1>7, OrderFrame
<1>9. /\ \A d \in Conns : ~Due(d) /\ (Due(d)' <=> d = c)
      /\ \A d \in Conns : Connected(d) => IsOnline(d)' = IsOnline(d)
      /\ taken'.op = "unregister"
  BY <1>2, <1>4, <1>5 DEF Due, Idling, IsOnline
<1>10. HubInv'
  <2>1. OnlineIsOpen'
    BY <1>1, <1>2, <1>4, <1>5 DEF HubInv, OnlineIsOpen, ChatTypeOK
  <2>2. ASSUME NEW d \in Conns PROVE HubKnows(d)'
    BY <1>1, <1>2, <1>4, <1>5, <1>9 DEF HubInv, HubKnows, Registering
  <2>3. \A d \in Conns : Due(d)' => Connected(d)'
    BY <1>2, <1>5, <1>9
  <2>. QED BY <1>1, <1>2, <2>1, <2>2, <2>3 DEF HubInv
<1>11. RoomsInv'
  BY <1>1, <1>2, <1>4, <1>5, <1>9, RoomsFrame DEF Registering
<1>12. SendersKnown'
  BY <1>1, <1>4, <1>5 DEF SendersKnown
<1>. QED BY <1>6, <1>8, <1>10, <1>11, <1>12 DEF ChatInv

LEMMA TakeBroadcastStep ==
    ASSUME ChatInv, TakeBroadcast
    PROVE  ChatInv'
<1>. DEFINE m == Head(broadcast)
            b == Tail(broadcast)
<1>1. ChatTypeOK /\ HubInv /\ OrderInv /\ RoomsInv /\ SendersKnown
  BY DEF ChatInv
<1>2. /\ taken = Idling /\ broadcast # <<>> /\ broadcast' = b
      /\ taken' = [op |-> "broadcast", message |-> m]
      /\ UNCHANGED <<online, conn, post, panicked, entered, joined>>
  BY DEF TakeBroadcast
<1>3. /\ broadcast \in Seq(Message) /\ InOrder(broadcast) /\ Len(broadcast) <= HubBuffer
      /\ HubBuffer \in Nat
  BY <1>1, ChatAssumption DEF ChatTypeOK, OrderInv, HubInOrder
<1>4. /\ b \in Seq(Message) /\ m \in Message /\ Len(b) = Len(broadcast) - 1
      /\ Len(broadcast) \in Nat /\ Elements(broadcast) = {m} \cup Elements(b)
      /\ InOrder(b) /\ Precede({m}, Elements(b))
  BY <1>2, <1>3, TailElements
<1>. HIDE DEF m, b
<1>5. Held = {} /\ Held' = {m}
  BY <1>2 DEF Held, Idling
<1>6. ChatTypeOK'
  BY <1>1, <1>2, <1>3, <1>4 DEF ChatTypeOK
<1>7. \A c \in Conns : Connected(c)' = Connected(c) /\ ~Due(c) /\ ~Due(c)'
  BY <1>2 DEF Connected, Due, Idling
<1>8. HubInv'
  BY <1>1, <1>2, <1>7, HubFrame DEF Idling
<1>9. RoomsInv'
  BY <1>1, <1>2, <1>7, RoomsFrame DEF Registering
<1>10. \A x, y : Before(x, y)' = Before(x, y)
  BY <1>2 DEF Before
<1>11. Elements(broadcast)' = Elements(b) /\ Elements(entered)' = Elements(entered)
  BY <1>2 DEF Elements
<1>12. HubInOrder'
  <2>1. InOrder(broadcast)'
    BY <1>2, <1>4, <1>10 DEF InOrder
  <2>2. Precede(Held, Elements(broadcast))'
    BY <1>4, <1>5, <1>10, <1>11 DEF Precede
  <2>. QED BY <1>1, <1>4, <1>5, <1>11, <2>1, <2>2 DEF OrderInv, HubInOrder
<1>13. ASSUME NEW c \in Conns, Connected(c) PROVE PeerInOrder(c)'
  <2>. DEFINE G == conn[c].got
              S == conn[c].send
  <2>1. /\ InOrder(G) /\ InOrder(S) /\ Precede(Elements(G), Elements(S))
        /\ Precede(Elements(G) \cup Elements(S), Held \cup Elements(broadcast))
        /\ Elements(G) \cup Elements(S) \subseteq Elements(entered)
    BY <1>1, <1>13 DEF OrderInv, PeerInOrder
  <2>2. Held' \cup Elements(broadcast)' = Held \cup Elements(broadcast)
    BY <1>4, <1>5, <1>11
  <2>3. InOrder(G)' /\ InOrder(S)' /\ Elements(G)' = Elements(G) /\ Elements(S)' = Elements(S)
    BY <1>2, <1>10, <2>1 DEF InOrder, Elements
  <2>4. /\ Precede(Elements(G), Elements(S))'
        /\ Precede(Elements(G) \cup Elements(S), Held \cup Elements(broadcast))'
    BY <1>10, <2>1, <2>2, <2>3 DEF Precede
  <2>. QED BY <1>11, <2>1, <2>3, <2>4 DEF PeerInOrder
<1>14. OrderInv'
  BY <1>7, <1>12, <1>13 DEF OrderInv, PeerInOrder
<1>15. SendersKnown'
  BY <1>1, <1>2, <1>7 DEF SendersKnown
<1>. QED BY <1>6, <1>8, <1>9, <1>14, <1>15 DEF ChatInv

LEMMA BroadcastStep ==
    ASSUME ChatInv, NEW c \in Conns, Broadcast(c)
    PROVE  ChatInv'
<1>. DEFINE half == [conn[c] EXCEPT !.reader = "reading"]
            new == [half EXCEPT !.out = NoMessage]
<1>1. ChatTypeOK /\ HubInv /\ OrderInv /\ RoomsInv /\ SendersKnown
  BY DEF ChatInv
<1>m. PICK m \in Message : m = conn[c].out
  BY DEF Broadcast, ChatInv, SendersKnown
<1>2. /\ Connected(c) /\ conn[c].reader = "sending" /\ Len(broadcast) < HubBuffer
      /\ broadcast' = Append(broadcast, m) /\ entered' = Append(entered, m)
      /\ conn' = [conn EXCEPT ![c] = new]
      /\ UNCHANGED <<online, taken, panicked, joined>>
  BY <1>m DEF Broadcast
<1>3. conn[c] \in Client /\ Len(conn[c].send) <= SendBuffer
  BY <1>2, ClientFacts
<1>4. /\ half \in Client /\ half.reader = "reading"
      /\ half.user = conn[c].user /\ half.open = conn[c].open /\ half.rooms = conn[c].rooms
      /\ half.got = conn[c].got /\ half.send = conn[c].send
  BY <1>3 DEF Client
<1>. HIDE DEF half
<1>5. /\ new \in Client /\ new.reader = "reading"
      /\ new.user = conn[c].user /\ new.open = conn[c].open /\ new.rooms = conn[c].rooms
      /\ new.got = conn[c].got /\ new.send = conn[c].send
  BY <1>4 DEF Client
<1>. HIDE DEF new
<1>6. /\ DOMAIN conn' = Conns
      /\ \A d \in Conns : conn'[d] \in Client \cup {Unused}
      /\ \A d \in Conns : conn'[d].reader # "unused" => Len(conn'[d].send) <= SendBuffer
      /\ \A d \in Conns : Connected(d)' = Connected(d)
      /\ conn'[c] = new /\ \A d \in Conns \ {c} : conn'[d] = conn[d]
  BY <1>1, <1>2, <1>3, <1>5, ConnType
<1>7. /\ broadcast \in Seq(Message) /\ entered \in Seq(Message) /\ InOrder(broadcast)
      /\ Len(broadcast) \in Nat /\ HubBuffer \in Nat
  BY <1>1, ChatAssumption DEF ChatTypeOK, OrderInv, HubInOrder
<1>8. /\ broadcast' \in Seq(Message) /\ Len(broadcast') = Len(broadcast) + 1
      /\ entered' \in Seq(Message)
  BY <1>2, <1>3, <1>7, AppendElements
<1>9. post' \in [Posts -> {"new", "stored", "lost"}]
  BY <1>1 DEF Broadcast, ChatTypeOK
<1>10. ChatTypeOK'
  BY <1>1, <1>2, <1>6, <1>7, <1>8, <1>9 DEF ChatTypeOK
<1>11. HubInv'
  BY <1>1, <1>2, <1>5, <1>6, HubFrame
<1>12. RoomsInv'
  BY <1>1, <1>2, <1>5, <1>6, RoomsFrame DEF Registering, Due
<1>13. SendersKnown'
  BY <1>1, <1>5, <1>6 DEF SendersKnown
<1>14. /\ \A x, y : Before(x, y) => Before(x, y)'
       /\ \A x \in Elements(entered) : Before(x, m)'
       /\ Elements(entered)' = Elements(entered) \cup {m}
  BY <1>1, <1>2, <1>3, EnteredGrows
<1>15. Elements(broadcast)' = Elements(broadcast) \cup {m} /\ Held' = Held
  <2>1. Elements(Append(broadcast, m)) = Elements(broadcast) \cup {m}
    BY <1>3, <1>7, AppendElements
  <2>. QED BY <1>2, <2>1 DEF Held, Elements
<1>16. HubInOrder'
  <2>1. InOrder(broadcast)'
    <3>1. /\ DOMAIN broadcast' = 1..(Len(broadcast) + 1) /\ DOMAIN broadcast = 1..Len(broadcast)
          /\ \A i \in 1..Len(broadcast) : broadcast'[i] = broadcast[i]
          /\ broadcast'[Len(broadcast) + 1] = m
      BY <1>2, <1>3, <1>7
    <3>2. ASSUME NEW i \in DOMAIN broadcast', NEW j \in DOMAIN broadcast', i < j
          PROVE  Before(broadcast[i], broadcast[j])'
      <4>1. i \in 1..Len(broadcast)
        BY <1>7, <3>1, <3>2
      <4>2. CASE j \in 1..Len(broadcast)
        <5>1. Before(broadcast[i], broadcast[j])
          BY <1>7, <3>1, <3>2, <4>1, <4>2 DEF InOrder
        <5>. QED BY <1>14, <3>1, <4>1, <4>2, <5>1
      <4>3. CASE j = Len(broadcast) + 1
        <5>1. broadcast[i] \in Elements(entered)
          <6>1. broadcast[i] \in Elements(broadcast)
            BY <3>1, <4>1 DEF Elements
          <6>2. Elements(broadcast) \subseteq Elements(entered)
            BY <1>1 DEF OrderInv, HubInOrder
          <6>. QED BY <6>1, <6>2
        <5>. QED BY <1>14, <3>1, <4>1, <4>3, <5>1
      <4>. QED BY <1>7, <3>1, <4>2, <4>3
    <3>. QED BY <3>2 DEF InOrder
  <2>2. Precede(Held, Elements(broadcast))'
    <3>1. Precede(Held, Elements(broadcast)) /\ Held \subseteq Elements(entered)
      BY <1>1 DEF OrderInv, HubInOrder
    <3>. QED BY <1>14, <1>15, <3>1 DEF Precede
  <2>. QED BY <1>1, <1>14, <1>15, <2>1, <2>2 DEF OrderInv, HubInOrder
<1>17. ASSUME NEW d \in Conns, Connected(d) PROVE PeerInOrder(d)'
  <2>. DEFINE G == conn[d].got
              S == conn[d].send
  <2>1. /\ InOrder(G) /\ InOrder(S) /\ Precede(Elements(G), Elements(S))
        /\ Precede(Elements(G) \cup Elements(S), Held \cup Elements(broadcast))
        /\ Elements(G) \cup Elements(S) \subseteq Elements(entered)
    BY <1>1, <1>17 DEF OrderInv, PeerInOrder
  <2>2. conn'[d].got = G /\ conn'[d].send = S
    BY <1>5, <1>6
  <2>3. InOrder(G)' /\ InOrder(S)' /\ Elements(G)' = Elements(G) /\ Elements(S)' = Elements(S)
    BY <1>14, <2>1, <2>2 DEF InOrder, Elements
  <2>4. /\ Precede(Elements(G), Elements(S))'
        /\ Precede(Elements(G) \cup Elements(S), Held \cup Elements(broadcast))'
    BY <1>14, <1>15, <2>1, <2>3 DEF Precede
  <2>. QED BY <1>14, <2>1, <2>3, <2>4 DEF PeerInOrder
<1>18. OrderInv'
  BY <1>6, <1>16, <1>17 DEF OrderInv, PeerInOrder
<1>. QED BY <1>10, <1>11, <1>12, <1>13, <1>18 DEF ChatInv

\* Run has handled what it took: a client lost its channel, or none did.
LEMMA CloseStep ==
    ASSUME ChatInv, NEW e \in Conns, Connected(e), CloseSend(e), conn[e].open,
           UNCHANGED <<broadcast, entered, joined, post>>, taken' = Idling, Held = {},
           online' \in [ChatUsers -> Conns \cup {NoClient}],
           OnlineIsOpen', \A d \in Conns : HubKnows(d)',
           conn[e].reader = "gone" \/ Replaced(e)
    PROVE  ChatInv'
<1>. DEFINE new == [conn[e] EXCEPT !.open = FALSE]
<1>1. ChatTypeOK /\ HubInv /\ OrderInv /\ RoomsInv /\ SendersKnown
  BY DEF ChatInv
<1>2. conn' = [conn EXCEPT ![e] = new] /\ panicked' = panicked
  BY <1>1 DEF CloseSend, HubInv, ChatTypeOK
<1>3. conn[e] \in Client /\ Len(conn[e].send) <= SendBuffer
  BY <1>1, ClientFacts DEF ChatInv
<1>4. /\ new \in Client /\ new.reader = conn[e].reader /\ new.out = conn[e].out /\ ~new.open
      /\ new.user = conn[e].user /\ new.rooms = conn[e].rooms
      /\ new.got = conn[e].got /\ new.send = conn[e].send
  BY <1>3 DEF Client
<1>. HIDE DEF new
<1>5. /\ DOMAIN conn' = Conns
      /\ \A d \in Conns : conn'[d] \in Client \cup {Unused}
      /\ \A d \in Conns : conn'[d].reader # "unused" => Len(conn'[d].send) <= SendBuffer
      /\ \A d \in Conns : Connected(d)' = Connected(d)
      /\ conn'[e] = new /\ \A d \in Conns \ {e} : conn'[d] = conn[d]
  BY <1>1, <1>2, <1>3, <1>4, ConnType
<1>6. ChatTypeOK'
  BY <1>1, <1>2, <1>5 DEF ChatTypeOK
<1>7. Held' = {} /\ \A d \in Conns : ~Due(d)'
  BY DEF Held, Idling, Due
<1>8. HubInv'
  BY <1>1, <1>2, <1>7 DEF HubInv
<1>9. OrderInv'
  BY <1>1, <1>4, <1>5, <1>7, OrderFrame
<1>10. RoomsInv'
  BY <1>1, <1>4, <1>5, <1>7, RoomsFrame DEF Registering
<1>11. SendersKnown'
  BY <1>1, <1>4, <1>5 DEF SendersKnown
<1>. QED BY <1>6, <1>8, <1>9, <1>10, <1>11 DEF ChatInv

LEMMA KeepStep ==
    ASSUME ChatInv, UNCHANGED <<conn, panicked, broadcast, entered, joined, post>>,
           taken' = Idling, Held = {},
           online' \in [ChatUsers -> Conns \cup {NoClient}],
           OnlineIsOpen', \A d \in Conns : HubKnows(d)'
    PROVE  ChatInv'
<1>1. ChatTypeOK /\ HubInv /\ OrderInv /\ RoomsInv /\ SendersKnown
  BY DEF ChatInv
<1>2. Held' = {} /\ \A d \in Conns : ~Due(d)' /\ Connected(d)' = Connected(d)
  BY DEF Held, Idling, Due, Connected
<1>3. ChatTypeOK'
  BY <1>1 DEF ChatTypeOK
<1>4. HubInv'
  BY <1>1, <1>2 DEF HubInv
<1>5. OrderInv'
  BY <1>1, <1>2, OrderFrame
<1>6. RoomsInv'
  BY <1>1, <1>2, RoomsFrame DEF Registering
<1>7. SendersKnown'
  BY <1>1, <1>2 DEF SendersKnown
<1>. QED BY <1>3, <1>4, <1>5, <1>6, <1>7 DEF ChatInv

LEMMA RegisterStep ==
    ASSUME ChatInv, taken.op = "register", Register(taken.conn), taken' = Idling,
           UNCHANGED <<broadcast, post, entered, joined>>
    PROVE  ChatInv'
<1>1. ChatTypeOK /\ HubInv
  BY DEF ChatInv
<1>2. PICK c \in Conns : taken.conn = c
  BY <1>1 DEF ChatTypeOK, Idling
<1>3. PICK u \in ChatUsers : u = conn[c].user /\ Connected(c) /\ Due(c)
  <2>1. Due(c) /\ Connected(c)
    BY <1>1, <1>2 DEF Due, HubInv
  <2>. QED BY <2>1, <1>1, ConnectedClient DEF Client
<1>4. Held = {} /\ \A d \in Conns : ~Due(d)' /\ (Due(d) => d = c)
  BY <1>2 DEF Held, Due, Idling
<1>5. /\ conn[c].open /\ ~IsOnline(c) /\ conn[c].reader \notin {"gone", "registering"}
      /\ online[u] # c
  BY <1>1, <1>3 DEF HubInv, HubKnows, Registering, IsOnline
<1>6. online' = [online EXCEPT ![u] = c] /\ online' \in [ChatUsers -> Conns \cup {NoClient}]
  BY <1>1, <1>2, <1>3 DEF Register, ChatTypeOK
<1>7. /\ online'[u] = c /\ c # NoClient
      /\ \A v \in ChatUsers \ {u} : online'[v] = online[v]
  BY <1>1, <1>6, ChatAssumption DEF ChatTypeOK
<1>8. \A v \in ChatUsers : online[v] # NoClient => conn[online[v]].user = v /\ online[v] \in Conns
  BY <1>1 DEF HubInv, OnlineIsOpen, ChatTypeOK
<1>9. \A d \in Conns : Connected(d) => conn[d].user \in ChatUsers
  BY <1>1, ConnectedClient DEF Client
<1>10. CASE online[u] = NoClient
  <2>1. UNCHANGED <<conn, panicked>>
    BY <1>2, <1>3, <1>10 DEF Register
  <2>2. \A d \in Conns : Connected(d)' = Connected(d)
    BY <2>1 DEF Connected
  <2>3. \A d \in Conns \ {c} : Connected(d) => IsOnline(d)' = IsOnline(d)
    BY <1>7, <1>9, <1>10, <2>1, <2>2, ChatAssumption DEF IsOnline
  <2>4. OnlineIsOpen'
    <3>1. ASSUME NEW v \in ChatUsers, v # u, online[v] # NoClient
          PROVE  online'[v] = online[v] /\ online[v] \in Conns
      BY <1>7, <1>8, <3>1
    <3>. QED BY <1>1, <1>3, <1>5, <1>7, <2>1, <2>2, <3>1 DEF HubInv, OnlineIsOpen
  <2>5. HubKnows(c)'
    BY <1>3, <1>4, <1>5, <1>7, <2>1, <2>2 DEF HubKnows, Registering, IsOnline
  <2>6. ASSUME NEW d \in Conns \ {c} PROVE HubKnows(d)'
    BY <1>1, <1>4, <2>1, <2>2, <2>3 DEF HubInv, HubKnows, Registering
  <2>. QED BY <1>4, <1>6, <2>1, <2>4, <2>5, <2>6, KeepStep
<1>11. CASE online[u] # NoClient
  <2>1. PICK e \in Conns : e = online[u]
    BY <1>8, <1>11
  <2>2. Connected(e) /\ conn[e].user = u /\ conn[e].open /\ e # c /\ IsOnline(e) /\ ~Registering(e)
    BY <1>1, <1>5, <1>11, <2>1 DEF HubInv, OnlineIsOpen, IsOnline, HubKnows
  <2>3. CloseSend(e)
    BY <1>2, <1>3, <1>11, <2>1 DEF Register
  <2>4. /\ conn'[e].user = u /\ conn'[e].reader = conn[e].reader /\ conn'[e].open = FALSE
        /\ \A d \in Conns \ {e} : conn'[d] = conn[d]
    <3>1. conn[e] \in Client
      BY <1>1, <2>2, ConnectedClient
    <3>2. conn' = [conn EXCEPT ![e] = [conn[e] EXCEPT !.open = FALSE]] /\ DOMAIN conn = Conns
      BY <1>1, <2>3 DEF CloseSend, ChatTypeOK
    <3>. QED BY <2>2, <3>1, <3>2 DEF Client
  <2>5. \A d \in Conns : Connected(d)' = Connected(d)
    BY <2>4 DEF Connected
  <2>6. \A d \in Conns \ {c, e} : Connected(d) => IsOnline(d)' = IsOnline(d)
    BY <1>7, <1>9, <2>1, <2>4, <2>5 DEF IsOnline
  <2>7. OnlineIsOpen'
    <3>1. ASSUME NEW v \in ChatUsers, v # u, online[v] # NoClient
          PROVE  online'[v] = online[v] /\ online[v] # e /\ online[v] \in Conns
      BY <1>7, <1>8, <2>2, <3>1
    <3>2. conn'[c] = conn[c]
      BY <2>2, <2>4
    <3>. QED BY <1>1, <1>3, <1>5, <1>7, <2>4, <2>5, <3>1, <3>2 DEF HubInv, OnlineIsOpen
  <2>8. HubKnows(c)'
    BY <1>3, <1>4, <1>5, <1>7, <2>2, <2>4, <2>5 DEF HubKnows, Registering, IsOnline
  <2>9. HubKnows(e)'
    BY <1>4, <1>7, <2>2, <2>4, <2>5 DEF HubKnows, Registering, IsOnline
  <2>10. ASSUME NEW d \in Conns \ {c, e} PROVE HubKnows(d)'
    BY <1>1, <1>4, <2>4, <2>5, <2>6 DEF HubInv, HubKnows, Registering
  <2>11. Replaced(e)
    BY <1>3, <2>2 DEF Replaced
  <2>. QED BY <1>4, <1>6, <2>2, <2>3, <2>7, <2>8, <2>9, <2>10, <2>11, CloseStep
<1>. QED BY <1>10, <1>11

LEMMA UnregisterStep ==
    ASSUME ChatInv, taken.op = "unregister", Unregister(taken.conn), taken' = Idling,
           UNCHANGED <<broadcast, post, entered, joined>>
    PROVE  ChatInv'
<1>1. ChatTypeOK /\ HubInv
  BY DEF ChatInv
<1>2. PICK c \in Conns : taken.conn = c
  BY <1>1 DEF ChatTypeOK, Idling
<1>3. PICK u \in ChatUsers : u = conn[c].user /\ Connected(c) /\ Due(c)
  <2>1. Due(c) /\ Connected(c)
    BY <1>1, <1>2 DEF Due, HubInv
  <2>. QED BY <2>1, <1>1, ConnectedClient DEF Client
<1>4. Held = {} /\ \A d \in Conns : ~Due(d)' /\ (Due(d) => d = c)
  BY <1>2 DEF Held, Due, Idling
<1>5. conn[c].reader = "gone" /\ ~Registering(c) /\ IsOnline(c) = conn[c].open
  BY <1>1, <1>3 DEF HubInv, HubKnows, Registering
<1>6. CASE ~IsOnline(c)
  <2>1. UNCHANGED <<online, conn, panicked>>
    BY <1>2, <1>6 DEF Unregister
  <2>2. \A d \in Conns : Connected(d)' = Connected(d) /\ IsOnline(d)' = IsOnline(d)
    BY <2>1 DEF Connected, IsOnline
  <2>3. OnlineIsOpen'
    BY <1>1, <2>1, <2>2 DEF HubInv, OnlineIsOpen, ChatTypeOK
  <2>4. HubKnows(c)'
    BY <1>4, <1>5, <1>6, <2>1, <2>2 DEF HubKnows, Registering
  <2>5. ASSUME NEW d \in Conns \ {c} PROVE HubKnows(d)'
    BY <1>1, <1>4, <2>1, <2>2 DEF HubInv, HubKnows, Registering
  <2>6. online' \in [ChatUsers -> Conns \cup {NoClient}]
    BY <1>1, <2>1 DEF ChatTypeOK
  <2>. QED BY <1>4, <2>1, <2>3, <2>4, <2>5, <2>6, KeepStep
<1>7. CASE IsOnline(c)
  <2>1. CloseSend(c) /\ online' = [online EXCEPT ![u] = NoClient] /\ online[u] = c
    BY <1>2, <1>3, <1>7 DEF Unregister, IsOnline
  <2>2. /\ online' \in [ChatUsers -> Conns \cup {NoClient}] /\ online'[u] = NoClient
        /\ \A v \in ChatUsers \ {u} : online'[v] = online[v]
    BY <1>1, <2>1 DEF ChatTypeOK
  <2>3. /\ conn'[c].user = u /\ conn'[c].reader = "gone" /\ conn'[c].open = FALSE
        /\ \A d \in Conns \ {c} : conn'[d] = conn[d]
    <3>1. conn[c] \in Client
      BY <1>1, <1>3, ConnectedClient
    <3>2. conn' = [conn EXCEPT ![c] = [conn[c] EXCEPT !.open = FALSE]] /\ DOMAIN conn = Conns
      BY <1>1, <2>1 DEF CloseSend, ChatTypeOK
    <3>. QED BY <1>3, <1>5, <3>1, <3>2 DEF Client
  <2>4. \A d \in Conns : Connected(d)' = Connected(d)
    BY <1>5, <2>3 DEF Connected
  <2>5. \A d \in Conns \ {c} : Connected(d) => conn[d].user \in ChatUsers
    BY <1>1, ConnectedClient DEF Client
  <2>6. \A d \in Conns \ {c} : Connected(d) => IsOnline(d)' = IsOnline(d)
    BY <2>1, <2>2, <2>3, <2>4, <2>5, ChatAssumption DEF IsOnline
  <2>7. OnlineIsOpen'
    <3>1. ASSUME NEW v \in ChatUsers, v # u, online[v] # NoClient
          PROVE  online'[v] = online[v] /\ online[v] # c /\ online[v] \in Conns
      BY <1>1, <1>3, <2>2, <3>1 DEF HubInv, OnlineIsOpen, ChatTypeOK
    <3>. QED BY <1>1, <2>2, <2>3, <2>4, <3>1 DEF HubInv, OnlineIsOpen
  <2>8. HubKnows(c)'
    BY <1>4, <2>2, <2>3, ChatAssumption DEF HubKnows, Registering, IsOnline
  <2>9. ASSUME NEW d \in Conns \ {c} PROVE HubKnows(d)'
    BY <1>1, <1>4, <2>3, <2>4, <2>6 DEF HubInv, HubKnows, Registering
  <2>10. conn[c].open
    BY <1>5, <1>7
  <2>. QED BY <1>3, <1>4, <1>5, <2>1, <2>2, <2>7, <2>8, <2>9, <2>10, CloseStep
<1>. QED BY <1>6, <1>7

LEMMA DistributeStep ==
    ASSUME ChatInv, taken.op = "broadcast", Distribute(taken.message), taken' = Idling,
           UNCHANGED <<broadcast, post, entered, joined>>
    PROVE  ChatInv'
<1>1. ChatTypeOK /\ HubInv /\ OrderInv /\ RoomsInv /\ SendersKnown
  BY DEF ChatInv
<1>2. PICK m \in Message : taken.message = m
  BY <1>1 DEF ChatTypeOK, Idling
<1>3. Held = {m} /\ Held' = {} /\ \A d \in Conns : ~Due(d) /\ ~Due(d)'
  BY <1>2 DEF Held, Due, Idling
<1>4. PICK inRoom \in SUBSET Conns :
        /\ inRoom = {c \in Conns : IsOnline(c) /\ m.room \in conn[c].rooms}
        /\ conn' = [c \in Conns |-> IF c \in inRoom
                                    THEN [conn[c] EXCEPT !.send = Pushed(@, m)]
                                    ELSE conn[c]]
        /\ panicked' = (panicked \/ \E c \in inRoom : ~conn[c].open)
        /\ UNCHANGED online
  BY <1>2 DEF Distribute
<1>5. \A d \in inRoom : Connected(d) /\ conn[d].open
  <2>1. \A d \in inRoom : d \in Conns /\ IsOnline(d)
    BY <1>4
  <2>2. ASSUME NEW d \in inRoom PROVE Connected(d) /\ conn[d].open
    <3>1. Connected(d) /\ online[conn[d].user] = d /\ conn[d].user \in ChatUsers
      BY <1>1, <2>1, ConnectedClient DEF IsOnline, Client
    <3>. QED BY <1>1, <2>1, <3>1, ChatAssumption DEF HubInv, OnlineIsOpen
  <2>. QED BY <2>2
<1>6. UNCHANGED <<online, panicked>>
  BY <1>1, <1>4, <1>5 DEF HubInv, ChatTypeOK
<1>7. ASSUME NEW d \in Conns, Connected(d)
      PROVE  /\ conn'[d] \in Client /\ Connected(d)' /\ Len(conn'[d].send) <= SendBuffer
             /\ conn'[d].user = conn[d].user /\ conn'[d].open = conn[d].open
             /\ conn'[d].reader = conn[d].reader /\ conn'[d].rooms = conn[d].rooms
             /\ conn'[d].out = conn[d].out /\ conn'[d].got = conn[d].got
             /\ \/ conn'[d].send = conn[d].send
                \/ conn'[d].send = Append(conn[d].send, m)
  <2>. DEFINE S == conn[d].send
              new == [conn[d] EXCEPT !.send = Pushed(S, m)]
  <2>1. conn[d] \in Client /\ S \in Seq(Message) /\ Len(S) <= SendBuffer /\ SendBuffer \in Nat
    BY <1>7, ClientFacts, ChatAssumption
  <2>2. conn'[d] = conn[d] \/ conn'[d] = new
    BY <1>4
  <2>3. /\ Pushed(S, m) \in Seq(Message) /\ Len(Pushed(S, m)) <= SendBuffer
        /\ Pushed(S, m) = S \/ Pushed(S, m) = Append(S, m)
    <3>1. Append(S, m) \in Seq(Message) /\ Len(Append(S, m)) = Len(S) + 1 /\ Len(S) \in Nat
      BY <2>1
    <3>. QED BY <2>1, <3>1 DEF Pushed
  <2>4. /\ new \in Client /\ new.send = Pushed(S, m)
        /\ new.user = conn[d].user /\ new.open = conn[d].open
        /\ new.reader = conn[d].reader /\ new.rooms = conn[d].rooms
        /\ new.out = conn[d].out /\ new.got = conn[d].got
    BY <2>1, <2>3 DEF Client
  <2>. HIDE DEF new
  <2>. QED BY <1>7, <2>1, <2>2, <2>3, <2>4 DEF Connected
<1>8. ASSUME NEW d \in Conns, ~Connected(d) PROVE conn'[d] = conn[d] /\ ~Connected(d)'
  BY <1>4, <1>5, <1>8 DEF Connected
<1>9. \A d \in Conns : Connected(d)' = Connected(d)
  BY <1>7, <1>8 DEF Connected
<1>10. ChatTypeOK'
  <2>1. \A d \in Conns : /\ conn'[d] \in Client \cup {Unused}
                         /\ conn'[d].reader # "unused" => Len(conn'[d].send) <= SendBuffer
    BY <1>1, <1>7, <1>8 DEF ChatTypeOK, Connected
  <2>. QED BY <1>1, <1>4, <1>6, <2>1 DEF ChatTypeOK
<1>11. HubInv'
  BY <1>1, <1>6, <1>7, <1>9, HubFrame DEF Idling
<1>12. RoomsInv'
  BY <1>1, <1>3, <1>7, <1>9, RoomsFrame DEF Registering
<1>13. SendersKnown'
  BY <1>1, <1>7, <1>9 DEF SendersKnown
<1>14. \A x, y : Before(x, y)' = Before(x, y)
  BY DEF Before
<1>15. Elements(broadcast)' = Elements(broadcast) /\ Elements(entered)' = Elements(entered)
  BY DEF Elements
<1>16. HubInOrder'
  <2>1. InOrder(broadcast)'
    BY <1>1, <1>14 DEF OrderInv, HubInOrder, InOrder
  <2>. QED BY <1>1, <1>3, <1>15, <2>1 DEF OrderInv, HubInOrder, Precede
<1>17. ASSUME NEW d \in Conns, Connected(d) PROVE PeerInOrder(d)'
  <2>. DEFINE G == conn[d].got
              S == conn[d].send
              T == conn'[d].send
              B == Elements(broadcast)
  <2>1. /\ InOrder(G) /\ InOrder(S) /\ Precede(Elements(G), Elements(S))
        /\ Precede(Elements(G) \cup Elements(S), {m} \cup B)
        /\ Elements(G) \cup Elements(S) \subseteq Elements(entered)
        /\ S \in Seq(Message)
    BY <1>1, <1>3, <1>17, ClientFacts DEF OrderInv, PeerInOrder
  <2>2. Precede({m}, B) /\ m \in Elements(entered)
    BY <1>1, <1>3 DEF OrderInv, HubInOrder
  <2>3. InOrder(T) /\ Elements(S) \subseteq Elements(T) /\ Elements(T) \subseteq Elements(S) \cup {m}
    <3>1. CASE T = S
      BY <2>1, <3>1
    <3>2. CASE T = Append(S, m)
      <4>1. Precede(Elements(S), {m})
        BY <2>1 DEF Precede
      <4>. QED BY <2>1, <3>2, <4>1, AppendElements
    <3>. HIDE DEF T, S
    <3>. QED BY <1>7, <1>17, <3>1, <3>2 DEF T, S
  <2>4. /\ Precede(Elements(G), Elements(T)) /\ Precede(Elements(G) \cup Elements(T), B)
        /\ Elements(G) \cup Elements(T) \subseteq Elements(entered)
    <3>. HIDE DEF T, S, G, B
    <3>. QED BY <2>1, <2>2, <2>3 DEF Precede
  <2>5. /\ Elements(conn[d].got)' = Elements(G) /\ Elements(conn[d].send)' = Elements(T)
        /\ InOrder(conn[d].got)' /\ InOrder(conn[d].send)'
    <3>1. conn'[d].got = G
      BY <1>7, <1>17
    <3>. QED BY <1>14, <2>1, <2>3, <3>1 DEF InOrder, Elements
  <2>6. /\ Precede(Elements(conn[d].got), Elements(conn[d].send))'
        /\ Precede(Elements(conn[d].got) \cup Elements(conn[d].send), Held \cup Elements(broadcast))'
    BY <1>3, <1>14, <1>15, <2>4, <2>5 DEF Precede
  <2>. QED BY <1>15, <2>4, <2>5, <2>6 DEF PeerInOrder
<1>18. OrderInv'
  BY <1>9, <1>16, <1>17 DEF OrderInv, PeerInOrder
<1>. QED BY <1>10, <1>11, <1>12, <1>13, <1>18 DEF ChatInv

LEMMA HandleStep ==
    ASSUME ChatInv, Handle
    PROVE  ChatInv'
  BY RegisterStep, UnregisterStep, DistributeStep DEF Handle

LEMMA ChatInitLemma == ChatInit => ChatInv
<1>. SUFFICES ASSUME ChatInit PROVE ChatInv
  OBVIOUS
<1>1. \A c \in Conns : conn[c] = Unused /\ ~Connected(c) /\ ~Due(c)
  BY DEF ChatInit, Connected, Unused, Due, Idling
<1>2. <<>> \in Seq(Message) /\ Len(<<>>) <= HubBuffer /\ Elements(<<>>) = {} /\ InOrder(<<>>)
  BY ChatAssumption DEF Elements, InOrder
<1>3. ChatTypeOK
  BY <1>1, <1>2 DEF ChatInit, ChatTypeOK, Unused
<1>4. HubInv
  BY <1>1 DEF ChatInit, HubInv, OnlineIsOpen, HubKnows
<1>5. OrderInv
  BY <1>1, <1>2 DEF ChatInit, OrderInv, HubInOrder, PeerInOrder, Held, Idling, Precede
<1>6. RoomsInv /\ SendersKnown
  BY <1>1 DEF RoomsInv, RoomsAreJoined, RoomsKnown, SendersKnown
<1>. QED BY <1>3, <1>4, <1>5, <1>6 DEF ChatInv

LEMMA ChatNextLemma == ChatInv /\ [ChatNext]_chatVars => ChatInv'
<1>. SUFFICES ASSUME ChatInv, [ChatNext]_chatVars PROVE ChatInv'
  OBVIOUS
<1>1. CASE UNCHANGED chatVars
  <2>1. ChatTypeOK /\ HubInv /\ OrderInv /\ RoomsInv /\ SendersKnown
    BY DEF ChatInv
  <2>2. \A c \in Conns : Connected(c)' = Connected(c)
    BY <1>1 DEF chatVars, Connected
  <2>3. ChatTypeOK'
    BY <1>1, <2>1 DEF chatVars, ChatTypeOK
  <2>4. HubInv'
    BY <1>1, <2>1, <2>2, HubFrame DEF chatVars
  <2>5. OrderInv'
    BY <1>1, <2>1, <2>2, OrderFrame DEF chatVars, Held
  <2>6. RoomsInv'
    BY <1>1, <2>1, <2>2, RoomsFrame DEF chatVars, Registering, Due
  <2>7. SendersKnown'
    BY <1>1, <2>1, <2>2 DEF chatVars, SendersKnown
  <2>. QED BY <2>3, <2>4, <2>5, <2>6, <2>7 DEF ChatInv
<1>2. CASE TakeBroadcast \/ Handle
  BY <1>2, TakeBroadcastStep, HandleStep
<1>3. ASSUME NEW c \in Conns,
             \/ \E u \in ChatUsers : Connect(c, u)
             \/ SendRegister(c) \/ SendUnregister(c)
             \/ \E r \in Rooms : JoinConversation(c, r) \/ LeaveConversation(c, r)
      PROVE  ChatInv'
  BY <1>3, ConnectStep, SendRegisterStep, SendUnregisterStep, JoinLeaveStep
<1>4. ASSUME NEW c \in Conns,
             \/ \E p \in Posts, r \in Rooms : ReadMessage(c, p, r)
             \/ Broadcast(c) \/ ReadFails(c)
             \/ WriteMessage(c) \/ WriterReturns(c)
      PROVE  ChatInv'
  BY <1>4, ReadMessageStep, BroadcastStep, ReadFailsStep, WriteMessageStep, WriterReturnsStep
<1>. QED BY <1>1, <1>2, <1>3, <1>4 DEF ChatNext

\* A peer has got, and will get, the messages of got \o send.
LEMMA InOrderTogether ==
    ASSUME NEW s \in Seq(Message), NEW t \in Seq(Message),
           InOrder(s), InOrder(t), Precede(Elements(s), Elements(t))
    PROVE  \A i, j \in DOMAIN (s \o t) : i < j => Before((s \o t)[i], (s \o t)[j])
<1>. SUFFICES ASSUME NEW i \in DOMAIN (s \o t), NEW j \in DOMAIN (s \o t), i < j
              PROVE  Before((s \o t)[i], (s \o t)[j])
  OBVIOUS
<1>1. /\ DOMAIN (s \o t) = 1..(Len(s) + Len(t)) /\ Len(s) \in Nat /\ Len(t) \in Nat
      /\ DOMAIN s = 1..Len(s) /\ DOMAIN t = 1..Len(t)
  OBVIOUS
<1>2. \A k \in 1..(Len(s) + Len(t)) :
        (s \o t)[k] = IF k <= Len(s) THEN s[k] ELSE t[k - Len(s)]
  OBVIOUS
<1>3. CASE j <= Len(s)
  BY <1>1, <1>2, <1>3 DEF InOrder
<1>4. CASE i > Len(s)
  <2>1. i - Len(s) \in DOMAIN t /\ j - Len(s) \in DOMAIN t /\ i - Len(s) < j - Len(s)
    BY <1>1, <1>4
  <2>2. Before(t[i - Len(s)], t[j - Len(s)])
    BY <2>1 DEF InOrder
  <2>. QED BY <1>1, <1>2, <1>4, <2>2
<1>5. CASE i <= Len(s) /\ j > Len(s)
  <2>1. i \in DOMAIN s /\ j - Len(s) \in DOMAIN t
    BY <1>1, <1>5
  <2>2. Before(s[i], t[j - Len(s)])
    BY <2>1 DEF Precede, Elements
  <2>. QED BY <1>1, <1>2, <1>5, <2>2
<1>. QED BY <1>1, <1>3, <1>4, <1>5

LEMMA ChatInvSafe == ChatInv => ChatSafety
<1>. SUFFICES ASSUME ChatInv PROVE ChatSafety
  OBVIOUS
<1>1. NeverPanics
  BY DEF ChatInv, HubInv, NeverPanics
<1>2. OfflineIsClosed
  BY DEF ChatInv, HubInv, HubKnows, Registering, OfflineIsClosed
<1>3. DeliveredInOrder
  BY ClientFacts, InOrderTogether DEF DeliveredInOrder
<1>. QED BY <1>1, <1>2, <1>3 DEF ChatInv, RoomsInv, ChatSafety

\* The hub of chat-service closes no channel twice and sends to none that is closed; a
\* connection that is not its user's client any more has a closed channel, so its goroutines
\* end; every peer gets messages in the order of their broadcast, none twice; and a client
\* is in no room that it did not join, unless its user has another connection.
THEOREM ChatIsSafe == ChatSpec => []ChatSafety
<1>1. ChatSpec => []ChatInv
  BY ChatInitLemma, ChatNextLemma, PTL DEF ChatSpec
<1>. QED BY <1>1, ChatInvSafe, PTL

-----------------------------------------------------------------------------
(* Reviews: deletion is for good *)

ReviewSaves(q, rows) ==
    /\ q.pc \in {"save", "vote", "cast"} => rows[q.k] # None
    /\ q.pc \in {"save", "cast"} => (q.read.deleted => q.obj.deleted)

ReviewInv == ReviewTypeOK /\ \A s \in Sessions : ReviewSaves(reviewReq[s], review)

DeletionStep ==
    \A k \in Reviews : review[k] # None /\ review[k].deleted => review'[k].deleted

AnyReviewReq == {Idle} \cup CreateReq \cup SaveReviewReq \cup VoteReq \cup CastReq

LEMMA ReviewFlush ==
    ASSUME NEW row \in Review, NEW read \in Review, NEW obj \in Review
    PROVE  /\ Flush(row, read, obj) \in Review
           /\ Flush(row, read, obj).deleted =
                IF obj.deleted # read.deleted THEN obj.deleted ELSE row.deleted
<1>1. DOMAIN row = {"flagged", "deleted", "hidden", "status", "helpful", "notHelpful"}
  BY DEF Review
<1>2. Flush(row, read, obj) =
        [flagged |-> IF obj.flagged # read.flagged THEN obj.flagged ELSE row.flagged,
         deleted |-> IF obj.deleted # read.deleted THEN obj.deleted ELSE row.deleted,
         hidden |-> IF obj.hidden # read.hidden THEN obj.hidden ELSE row.hidden,
         status |-> IF obj.status # read.status THEN obj.status ELSE row.status,
         helpful |-> IF obj.helpful # read.helpful THEN obj.helpful ELSE row.helpful,
         notHelpful |-> IF obj.notHelpful # read.notHelpful THEN obj.notHelpful
                        ELSE row.notHelpful]
  BY <1>1 DEF Flush
<1>. QED BY <1>2 DEF Review

LEMMA TallyFacts ==
    ASSUME NEW row \in Review, NEW before \in Vote \cup {None}, NEW choice \in Vote
    PROVE  Tally(row, before, choice) \in Review /\ Tally(row, before, choice).deleted = row.deleted
<1>1. PICK left : left = IF before = None THEN row
                         ELSE [row EXCEPT ![before] = IF @ - 1 > 0 THEN @ - 1 ELSE 0]
  OBVIOUS
<1>2. left \in Review /\ left.deleted = row.deleted
  <2>1. CASE before = None
    BY <1>1, <2>1
  <2>2. CASE before # None /\ before = "helpful"
    <3>1. PICK n : n = IF row.helpful - 1 > 0 THEN row.helpful - 1 ELSE 0
      OBVIOUS
    <3>2. n \in Int
      BY <3>1 DEF Review
    <3>3. left = [row EXCEPT !.helpful = n]
      BY <1>1, <2>2, <3>1, Zenon
    <3>. QED BY <3>2, <3>3 DEF Review
  <2>3. CASE before # None /\ before = "notHelpful"
    <3>1. PICK n : n = IF row.notHelpful - 1 > 0 THEN row.notHelpful - 1 ELSE 0
      OBVIOUS
    <3>2. n \in Int
      BY <3>1 DEF Review
    <3>3. left = [row EXCEPT !.notHelpful = n]
      BY <1>1, <2>3, <3>1, Zenon
    <3>. QED BY <3>2, <3>3 DEF Review
  <2>. QED BY <2>1, <2>2, <2>3 DEF Vote
<1>3. Tally(row, before, choice) = [left EXCEPT ![choice] = left[choice] + 1]
  BY <1>1 DEF Tally
<1>4. CASE choice = "helpful"
  <2>1. PICK n : n = left.helpful + 1
    OBVIOUS
  <2>2. n \in Int
    BY <1>2, <2>1 DEF Review
  <2>3. Tally(row, before, choice) = [left EXCEPT !.helpful = n]
    BY <1>3, <1>4, <2>1, Zenon
  <2>. QED BY <1>2, <2>2, <2>3 DEF Review
<1>5. CASE choice = "notHelpful"
  <2>1. PICK n : n = left.notHelpful + 1
    OBVIOUS
  <2>2. n \in Int
    BY <1>2, <2>1 DEF Review
  <2>3. Tally(row, before, choice) = [left EXCEPT !.notHelpful = n]
    BY <1>3, <1>5, <2>1, Zenon
  <2>. QED BY <1>2, <2>2, <2>3 DEF Review
<1>. QED BY <1>4, <1>5 DEF Vote

LEMMA ReviewReqKinds ==
    ASSUME NEW q \in AnyReviewReq
    PROVE  /\ q.pc = "create" => q \in CreateReq
           /\ q.pc = "save" => q \in SaveReviewReq
           /\ q.pc = "vote" => q \in VoteReq
           /\ q.pc = "cast" => q \in CastReq
  BY DEF AnyReviewReq, CreateReq, SaveReviewReq, VoteReq, CastReq, Idle

LEMMA ReviewReqType == ReviewInv => reviewReq \in [Sessions -> AnyReviewReq]
  BY DEF ReviewInv, ReviewTypeOK, AnyReviewReq

\* A step of s that changes no row.
LEMMA ReviewRequestOnly ==
    ASSUME ReviewInv, NEW s \in Sessions, NEW req \in AnyReviewReq,
           reviewReq' = [reviewReq EXCEPT ![s] = req], ReviewSaves(req, review),
           UNCHANGED <<review, vote, reviewRaced>>
    PROVE  ReviewInv' /\ DeletionStep
<1>1. ReviewTypeOK'
  BY DEF ReviewInv, ReviewTypeOK, AnyReviewReq
<1>2. \A r \in Sessions : ReviewSaves(reviewReq'[r], review')
  BY DEF ReviewInv, ReviewTypeOK, ReviewSaves
<1>. QED BY <1>1, <1>2 DEF ReviewInv, DeletionStep

\* A step of s that writes the row of k and is done.
LEMMA ReviewWritten ==
    ASSUME ReviewInv, NEW s \in Sessions, NEW k \in Reviews, NEW row \in Review,
           review' = [review EXCEPT ![k] = row],
           review[k] # None => (review[k].deleted => row.deleted),
           vote' \in [Reviews \X Voters -> Vote \cup {None}],
           reviewReq' = [reviewReq EXCEPT ![s] = Idle],
           reviewRaced' \subseteq Reviews
    PROVE  ReviewInv' /\ DeletionStep
<1>1. row # None
  BY NoReviewAssumption
<1>2. ReviewTypeOK'
  BY DEF ReviewInv, ReviewTypeOK
<1>3. \A j \in Reviews : review'[j] = IF j = k THEN row ELSE review[j]
  BY DEF ReviewInv, ReviewTypeOK
<1>4. \A r \in Sessions : ReviewSaves(reviewReq'[r], review')
  <2>. SUFFICES ASSUME NEW r \in Sessions PROVE ReviewSaves(reviewReq'[r], review')
    OBVIOUS
  <2>1. CASE r = s
    BY <2>1 DEF ReviewInv, ReviewTypeOK, ReviewSaves, Idle
  <2>2. CASE r # s
    <3>1. reviewReq'[r] = reviewReq[r] /\ ReviewSaves(reviewReq[r], review)
          /\ (reviewReq[r].pc \in {"save", "vote", "cast"} => reviewReq[r].k \in Reviews)
      BY <2>2 DEF ReviewInv, ReviewTypeOK, CreateReq, SaveReviewReq, VoteReq, CastReq, Idle
    <3>. QED BY <1>1, <1>3, <3>1 DEF ReviewSaves
  <2>. QED BY <2>1, <2>2
<1>. QED BY <1>2, <1>3, <1>4 DEF ReviewInv, DeletionStep

LEMMA LoadReviewStep ==
    ASSUME ReviewInv, NEW s \in Sessions, NEW k \in Reviews, NEW obj \in Review,
           review[k] # None, review[k].deleted => obj.deleted, LoadReview(s, k, obj)
    PROVE  ReviewInv' /\ DeletionStep
<1>. DEFINE q == [pc |-> "save", k |-> k, read |-> review[k], obj |-> obj]
<1>1. q \in AnyReviewReq /\ ReviewSaves(q, review)
  BY DEF ReviewInv, ReviewTypeOK, AnyReviewReq, SaveReviewReq, ReviewSaves
<1>. QED BY <1>1, ReviewRequestOnly DEF LoadReview

LEMMA LoadersStep ==
    ASSUME ReviewInv, NEW s \in Sessions, NEW k \in Reviews,
           \/ \E flagged \in Flags : UpdateReview(s, k, flagged)
           \/ DeleteReview(s, k)
           \/ \E action \in {"hide", "approve", "reject"} : ModerateReview(s, k, action)
    PROVE  ReviewInv' /\ DeletionStep
<1>1. review[k] # None /\ review[k] \in Review
  BY DEF ReviewInv, ReviewTypeOK, UpdateReview, DeleteReview, ModerateReview
<1>2. ASSUME NEW flagged \in Flags, UpdateReview(s, k, flagged)
      PROVE  ReviewInv' /\ DeletionStep
  <2>1. [review[k] EXCEPT !.flagged = flagged] \in Review
        /\ [review[k] EXCEPT !.flagged = flagged].deleted = review[k].deleted
    BY <1>1 DEF Review
  <2>. QED BY <1>1, <1>2, <2>1, LoadReviewStep DEF UpdateReview
<1>3. CASE DeleteReview(s, k)
  <2>1. [review[k] EXCEPT !.deleted = TRUE] \in Review
        /\ [review[k] EXCEPT !.deleted = TRUE].deleted
    BY <1>1 DEF Review
  <2>. QED BY <1>1, <1>3, <2>1, LoadReviewStep DEF DeleteReview
<1>4. ASSUME NEW action \in {"hide", "approve", "reject"}, ModerateReview(s, k, action)
      PROVE  ReviewInv' /\ DeletionStep
  <2>1. PICK hidden \in BOOLEAN, status \in Moderation :
          LoadReview(s, k, [review[k] EXCEPT !.hidden = hidden, !.status = status])
    BY <1>4 DEF ModerateReview, Moderation
  <2>. DEFINE half == [review[k] EXCEPT !.hidden = hidden]
  <2>2. half \in Review /\ half.deleted = review[k].deleted
    BY <1>1 DEF Review
  <2>3. LoadReview(s, k, [half EXCEPT !.status = status])
    BY <2>1
  <2>. HIDE DEF half
  <2>4. [half EXCEPT !.status = status] \in Review
        /\ [half EXCEPT !.status = status].deleted = half.deleted
    BY <2>2 DEF Review
  <2>. QED BY <1>1, <2>2, <2>3, <2>4, LoadReviewStep
<1>. QED BY <1>2, <1>3, <1>4

LEMMA ReadersStep ==
    ASSUME ReviewInv, NEW s \in Sessions,
           \/ \E k \in Reviews, flagged \in Flags : ReadForCreate(s, k, flagged)
           \/ \E k \in Reviews, voter \in Voters, choice \in Vote : ReadReview(s, k, voter, choice)
           \/ ReadVote(s)
    PROVE  ReviewInv' /\ DeletionStep
<1>1. ASSUME NEW k \in Reviews, NEW flagged \in Flags, ReadForCreate(s, k, flagged)
      PROVE  ReviewInv' /\ DeletionStep
  <2>1. [pc |-> "create", k |-> k, flagged |-> flagged] \in AnyReviewReq
        /\ ReviewSaves([pc |-> "create", k |-> k, flagged |-> flagged], review)
    BY DEF AnyReviewReq, CreateReq, ReviewSaves
  <2>. QED BY <1>1, <2>1, ReviewRequestOnly DEF ReadForCreate
<1>2. ASSUME NEW k \in Reviews, NEW voter \in Voters, NEW choice \in Vote,
             ReadReview(s, k, voter, choice)
      PROVE  ReviewInv' /\ DeletionStep
  <2>. DEFINE q == [pc |-> "vote", k |-> k, read |-> review[k], voter |-> voter,
                    choice |-> choice]
  <2>1. q \in AnyReviewReq /\ ReviewSaves(q, review)
    BY <1>2 DEF ReviewInv, ReviewTypeOK, AnyReviewReq, VoteReq, ReviewSaves, ReadReview
  <2>. QED BY <1>2, <2>1, ReviewRequestOnly DEF ReadReview
<1>3. CASE ReadVote(s)
  <2>1. PICK q : q = reviewReq[s] /\ q \in VoteReq /\ q.pc = "vote" /\ review[q.k] # None
    <3>1. reviewReq[s].pc = "vote" /\ reviewReq[s] \in AnyReviewReq
          /\ ReviewSaves(reviewReq[s], review)
      BY <1>3, ReviewReqType DEF ReadVote, ReviewInv
    <3>2. reviewReq[s] \in VoteReq
      BY <3>1, ReviewReqKinds
    <3>3. review[reviewReq[s].k] # None
      BY <3>1 DEF ReviewSaves
    <3>. QED BY <3>1, <3>2, <3>3
  <2>2. PICK before \in Vote \cup {None} : before = vote[q.k, q.voter]
    BY <2>1 DEF ReviewInv, ReviewTypeOK, VoteReq
  <2>. DEFINE cast == [pc |-> "cast", k |-> q.k, read |-> q.read, voter |-> q.voter,
                       obj |-> Tally(q.read, before, q.choice), choice |-> q.choice,
                       before |-> before]
              req == IF before = q.choice THEN Idle ELSE cast
  <2>3. /\ Tally(q.read, before, q.choice) \in Review
        /\ Tally(q.read, before, q.choice).deleted = q.read.deleted
    BY <2>1, <2>2, TallyFacts DEF VoteReq
  <2>4. cast \in AnyReviewReq /\ ReviewSaves(cast, review)
    BY <2>1, <2>2, <2>3 DEF AnyReviewReq, CastReq, VoteReq, ReviewSaves
  <2>5. reviewReq' = [reviewReq EXCEPT ![s] = req] /\ UNCHANGED <<review, vote, reviewRaced>>
    BY <1>3, <2>1, <2>2 DEF ReadVote
  <2>. HIDE DEF cast
  <2>6. req \in AnyReviewReq /\ ReviewSaves(req, review)
    BY <2>4 DEF AnyReviewReq, ReviewSaves, Idle
  <2>. QED BY <2>5, <2>6, ReviewRequestOnly
<1>. QED BY <1>1, <1>2, <1>3

LEMMA InsertReviewStep ==
    ASSUME ReviewInv, NEW s \in Sessions, InsertReview(s)
    PROVE  ReviewInv' /\ DeletionStep
<1>1. PICK q : q = reviewReq[s] /\ q \in CreateReq
  BY DEF InsertReview, ReviewInv, ReviewTypeOK, CreateReq, SaveReviewReq, VoteReq, CastReq, Idle
<1>. DEFINE row == [flagged |-> q.flagged, deleted |-> FALSE, hidden |-> FALSE,
                    status |-> IF q.flagged THEN "PENDING" ELSE "APPROVED",
                    helpful |-> 0, notHelpful |-> 0]
<1>2. row \in Review /\ q.k \in Reviews
  BY <1>1 DEF Review, Moderation, CreateReq
<1>3. /\ reviewReq' = [reviewReq EXCEPT ![s] = Idle] /\ UNCHANGED <<vote, reviewRaced>>
      /\ \/ review[q.k] = None /\ review' = [review EXCEPT ![q.k] = row]
         \/ UNCHANGED review
  BY <1>1 DEF InsertReview
<1>. HIDE DEF row
<1>4. CASE UNCHANGED review
  <2>1. Idle \in AnyReviewReq /\ ReviewSaves(Idle, review)
    BY DEF AnyReviewReq, ReviewSaves, Idle
  <2>. QED BY <1>3, <1>4, <2>1, ReviewRequestOnly
<1>5. CASE review[q.k] = None /\ review' = [review EXCEPT ![q.k] = row]
  BY <1>2, <1>3, <1>5, ReviewWritten DEF ReviewInv, ReviewTypeOK
<1>. QED BY <1>3, <1>4, <1>5

LEMMA WritersStep ==
    ASSUME ReviewInv, NEW s \in Sessions, SaveReview(s) \/ CastVote(s)
    PROVE  ReviewInv' /\ DeletionStep
<1>1. PICK q : /\ q = reviewReq[s] /\ q \in SaveReviewReq \cup CastReq
               /\ review[q.k] # None /\ (q.read.deleted => q.obj.deleted)
  <2>1. reviewReq[s].pc \in {"save", "cast"} /\ reviewReq[s] \in AnyReviewReq
        /\ ReviewSaves(reviewReq[s], review)
    BY ReviewReqType DEF SaveReview, CastVote, ReviewInv
  <2>. QED BY <2>1, ReviewReqKinds DEF ReviewSaves
<1>2. /\ q.k \in Reviews /\ q.read \in Review /\ q.obj \in Review /\ review[q.k] \in Review
      /\ q \in CastReq => q.voter \in Voters /\ q.choice \in Vote
  BY <1>1 DEF SaveReviewReq, CastReq, ReviewInv, ReviewTypeOK
<1>3. PICK row : row = Flush(review[q.k], q.read, q.obj)
  OBVIOUS
<1>4. row \in Review /\ (review[q.k].deleted => row.deleted)
  <2>1. /\ row \in Review
        /\ row.deleted = IF q.obj.deleted # q.read.deleted THEN q.obj.deleted
                         ELSE review[q.k].deleted
    BY <1>2, <1>3, ReviewFlush
  <2>2. {q.obj.deleted, q.read.deleted, review[q.k].deleted} \subseteq BOOLEAN
    BY <1>2 DEF Review
  <2>. QED BY <1>1, <2>1, <2>2
<1>5. CASE review' = [review EXCEPT ![q.k] = row]
  <2>1. reviewReq' = [reviewReq EXCEPT ![s] = Idle] /\ reviewRaced' \subseteq Reviews
    BY <1>1, <1>2 DEF SaveReview, CastVote, ReviewInv, ReviewTypeOK
  <2>2. vote' \in [Reviews \X Voters -> Vote \cup {None}]
    <3>1. CASE SaveReview(s)
      BY <3>1 DEF SaveReview, ReviewInv, ReviewTypeOK
    <3>2. CASE CastVote(s)
      <4>1. q \in CastReq
        BY <1>1, <3>2 DEF CastVote, SaveReviewReq
      <4>. QED BY <1>1, <1>2, <3>2, <4>1 DEF CastVote, ReviewInv, ReviewTypeOK
    <3>. QED BY <3>1, <3>2
  <2>. QED BY <1>2, <1>4, <1>5, <2>1, <2>2, ReviewWritten
<1>6. CASE UNCHANGED <<review, vote, reviewRaced>> /\ reviewReq' = [reviewReq EXCEPT ![s] = Idle]
  <2>1. Idle \in AnyReviewReq /\ ReviewSaves(Idle, review)
    BY DEF AnyReviewReq, ReviewSaves, Idle
  <2>. QED BY <1>6, <2>1, ReviewRequestOnly
<1>. QED BY <1>1, <1>3, <1>5, <1>6 DEF SaveReview, CastVote

\* A deleted review stays deleted: edits, votes and decisions of moderators that were loaded
\* before the deletion write their own columns after it.
THEOREM DeletionsLast == ReviewSpec => DeletedStaysDeleted
<1>1. ReviewInit => ReviewInv
  BY DEF ReviewInit, ReviewInv, ReviewTypeOK, ReviewSaves, Idle
<1>2. ReviewInv /\ UNCHANGED reviewVars => ReviewInv'
  BY DEF ReviewInv, ReviewTypeOK, ReviewSaves, reviewVars
<1>3. ReviewInv /\ ReviewNext => ReviewInv' /\ DeletionStep
  BY LoadersStep, ReadersStep, InsertReviewStep, WritersStep DEF ReviewNext
<1>4. ReviewInv /\ [ReviewNext]_reviewVars =>
        ReviewInv' /\ [\A k \in Reviews : review[k] # None /\ review[k].deleted
                         => review'[k].deleted]_reviewVars
  BY <1>2, <1>3 DEF DeletionStep
<1>. QED BY <1>1, <1>4, PTL DEF ReviewSpec, DeletedStaysDeleted

-----------------------------------------------------------------------------
(* Reviews: the counters and the decisions *)

NotNegative(row) == row.helpful >= 0 /\ row.notHelpful >= 0
Decided(row) == row.hidden <=> row.status \in {"HIDDEN", "REJECTED"}

\* What a session makes of the row it has read.
KeepsBooks(q) ==
    /\ q.pc \in {"vote", "save", "cast"} => NotNegative(q.read)
    /\ q.pc = "save" =>
         /\ q.obj.helpful = q.read.helpful /\ q.obj.notHelpful = q.read.notHelpful
         /\ Decided(q.read) => Decided(q.obj)
    /\ q.pc = "cast" => q.obj = Tally(q.read, q.before, q.choice) /\ q.before # q.choice

VotesCounted(k) == \A choice \in Vote : review[k][choice] = VotesFor(k, choice)

ReviewBooks ==
    /\ \A k \in Reviews : review[k] # None => NotNegative(review[k])
    /\ \A k \in Reviews : review[k] = None => \A v \in Voters : vote[k, v] = None
    /\ \A s \in Sessions : KeepsBooks(reviewReq[s])
    /\ \A k \in Reviews \ reviewRaced : review[k] # None =>
         Decided(review[k]) /\ VotesCounted(k)

\* The count n of side c, when a vote goes to the choice from the side it was on before.
Counted(n, c, before, choice) ==
    IF c = choice THEN n + 1 ELSE IF c = before THEN IF n - 1 > 0 THEN n - 1 ELSE 0 ELSE n

\* Tally counts a vote so, and touches nothing else of what moderators decide.
LEMMA TallyCounts ==
    ASSUME NEW row \in Review, NEW before \in Vote \cup {None}, NEW choice \in Vote,
           before # choice
    PROVE  /\ Tally(row, before, choice).hidden = row.hidden
           /\ Tally(row, before, choice).status = row.status
           /\ \A c \in Vote : Tally(row, before, choice)[c] = Counted(row[c], c, before, choice)
<1>1. PICK left : left = IF before = None THEN row
                         ELSE [row EXCEPT ![before] = IF @ - 1 > 0 THEN @ - 1 ELSE 0]
  OBVIOUS
<1>2. DOMAIN row = {"flagged", "deleted", "hidden", "status", "helpful", "notHelpful"}
      /\ row = [c \in DOMAIN row |-> row[c]]
  BY DEF Review
<1>3. /\ DOMAIN left = DOMAIN row
      /\ \A c \in DOMAIN row : left[c] =
           IF before # None /\ c = before THEN IF row[c] - 1 > 0 THEN row[c] - 1 ELSE 0
           ELSE row[c]
  BY <1>1, <1>2
<1>4. Tally(row, before, choice) = [left EXCEPT ![choice] = left[choice] + 1]
  BY <1>1 DEF Tally
<1>5. \A c \in DOMAIN row : Tally(row, before, choice)[c] =
         IF c = choice THEN left[c] + 1 ELSE left[c]
  BY <1>3, <1>4
<1>6. choice \in DOMAIN row /\ None \notin Vote /\ Vote \subseteq DOMAIN row
  BY <1>2, NoReviewAssumption DEF Vote
<1>7. {"hidden", "status"} \subseteq DOMAIN row /\ {"hidden", "status"} \cap Vote = {}
  BY <1>2 DEF Vote
<1>. QED BY <1>3, <1>5, <1>6, <1>7 DEF Counted

\* A changed vote moves the counts of both sides by one.
LEMMA VotesMove ==
    ASSUME ReviewTypeOK, NEW k \in Reviews, NEW voter \in Voters, NEW choice \in Vote,
           NEW before, before = vote[<<k, voter>>], before # choice,
           vote' = [vote EXCEPT ![<<k, voter>>] = choice]
    PROVE  \A c \in Vote : /\ VotesFor(k, c) \in Nat
                           /\ c = before => VotesFor(k, c) >= 1
                           /\ VotesFor(k, c)' = Counted(VotesFor(k, c), c, before, choice)
<1>. SUFFICES ASSUME NEW c \in Vote
     PROVE  /\ VotesFor(k, c) \in Nat
            /\ c = before => VotesFor(k, c) >= 1
            /\ VotesFor(k, c)' = Counted(VotesFor(k, c), c, before, choice)
  OBVIOUS
<1>. DEFINE S == {v \in Voters : vote[k, v] = c}
            T == {v \in Voters : vote'[k, v] = c}
<1>1. VotesFor(k, c) = Cardinality(S) /\ VotesFor(k, c)' = Cardinality(T)
  BY DEF VotesFor
<1>2. \A v \in Voters : vote'[k, v] = IF v = voter THEN choice ELSE vote[k, v]
  BY DEF ReviewTypeOK
<1>3. IsFiniteSet(S) /\ Cardinality(S) \in Nat
  BY ReviewAssumption, FS_Subset, FS_CardinalityType
<1>4. CASE c = choice
  <2>1. T = S \cup {voter} /\ voter \notin S
    BY <1>2, <1>4
  <2>. HIDE DEF S, T
  <2>. QED BY <1>1, <1>3, <1>4, <2>1, FS_AddElement DEF Counted
<1>5. CASE c # choice /\ c = before
  <2>1. vote[k, voter] = c /\ vote'[k, voter] # c
    BY <1>2, <1>5
  <2>2. \A v \in Voters : v # voter => vote'[k, v] = vote[k, v]
    BY <1>2
  <2>3. T = S \ {voter} /\ voter \in S
    BY <2>1, <2>2
  <2>. HIDE DEF S, T
  <2>4. PICK n \in Nat : n = Cardinality(S)
    BY <1>3
  <2>5. Cardinality(T) = Cardinality(S) - 1
    BY <1>3, <2>3, FS_RemoveElement
  <2>6. Cardinality(T) \in Nat
    BY <1>3, <2>3, FS_RemoveElement, FS_CardinalityType
  <2>7. VotesFor(k, c) = n /\ VotesFor(k, c)' = n - 1
    BY <1>1, <2>4, <2>5, Zenon
  <2>8. n >= 1
    BY <1>1, <2>4, <2>6, <2>7
  <2>. QED BY <1>5, <2>7, <2>8 DEF Counted
<1>6. CASE c # choice /\ c # before
  <2>1. T = S
    BY <1>2, <1>6
  <2>. HIDE DEF S, T
  <2>. QED BY <1>1, <1>3, <1>6, <2>1 DEF Counted
<1>. QED BY <1>4, <1>5, <1>6

LEMMA VotesStay ==
    ASSUME NEW k, \A v \in Voters : vote'[k, v] = vote[k, v]
    PROVE  \A c \in Vote : VotesFor(k, c)' = VotesFor(k, c)
  BY DEF VotesFor

\* A step of s that changes no row.
LEMMA BooksRequestOnly ==
    ASSUME ReviewInv, ReviewBooks, NEW s \in Sessions, NEW q, KeepsBooks(q),
           reviewReq' = [reviewReq EXCEPT ![s] = q], UNCHANGED <<review, vote, reviewRaced>>
    PROVE  ReviewBooks'
<1>1. \A r \in Sessions : KeepsBooks(reviewReq'[r])
  BY DEF ReviewInv, ReviewTypeOK, ReviewBooks
<1>2. \A k : (VotesCounted(k)' <=> VotesCounted(k))
  BY DEF VotesCounted, VotesFor
<1>. QED BY <1>1, <1>2 DEF ReviewBooks

\* A step of s that writes the row of k and is done.
LEMMA BooksWritten ==
    ASSUME ReviewInv, ReviewBooks, NEW s \in Sessions, NEW k \in Reviews, NEW row \in Review,
           review' = [review EXCEPT ![k] = row], NotNegative(row),
           reviewReq' = [reviewReq EXCEPT ![s] = Idle],
           \A j \in Reviews, v \in Voters : j # k => vote'[j, v] = vote[j, v],
           \A j \in reviewRaced : j \in reviewRaced',
           k \notin reviewRaced' =>
             Decided(row) /\ \A c \in Vote : row[c] = VotesFor(k, c)'
    PROVE  ReviewBooks'
<1>1. \A j \in Reviews : review'[j] = IF j = k THEN row ELSE review[j]
  BY DEF ReviewInv, ReviewTypeOK
<1>2. KeepsBooks(Idle) /\ row # None
  BY NoReviewAssumption DEF KeepsBooks, Idle
<1>3. \A r \in Sessions : KeepsBooks(reviewReq'[r])
  BY <1>2 DEF ReviewInv, ReviewTypeOK, ReviewBooks
<1>4. \A j \in Reviews : review'[j] # None => NotNegative(review'[j])
  BY <1>1 DEF ReviewBooks
<1>5. ASSUME NEW j \in Reviews, review'[j] = None, NEW v \in Voters
      PROVE  vote'[j, v] = None
  <2>1. j # k /\ review[j] = None
    BY <1>1, <1>2, <1>5
  <2>2. vote[j, v] = None
    BY <2>1 DEF ReviewBooks
  <2>. QED BY <2>1, <2>2
<1>6. ASSUME NEW j \in Reviews \ reviewRaced', review'[j] # None
      PROVE  Decided(review'[j]) /\ VotesCounted(j)'
  <2>1. CASE j = k
    BY <1>1, <1>6, <2>1 DEF VotesCounted
  <2>2. CASE j # k
    <3>1. review'[j] = review[j] /\ \A c \in Vote : VotesFor(j, c)' = VotesFor(j, c)
      BY <1>1, <2>2, VotesStay
    <3>2. Decided(review[j]) /\ VotesCounted(j)
      BY <1>6, <3>1 DEF ReviewBooks
    <3>. QED BY <3>1, <3>2 DEF VotesCounted
  <2>. QED BY <2>1, <2>2
<1>. QED BY <1>3, <1>4, <1>5, <1>6 DEF ReviewBooks

LEMMA LoadKeepsBooks ==
    ASSUME ReviewInv, ReviewBooks, NEW s \in Sessions, NEW k \in Reviews, NEW obj \in Review,
           review[k] # None, LoadReview(s, k, obj),
           obj.helpful = review[k].helpful, obj.notHelpful = review[k].notHelpful,
           Decided(review[k]) => Decided(obj)
    PROVE  ReviewBooks'
<1>. DEFINE q == [pc |-> "save", k |-> k, read |-> review[k], obj |-> obj]
<1>1. KeepsBooks(q)
  BY DEF ReviewBooks, KeepsBooks
<1>2. reviewReq' = [reviewReq EXCEPT ![s] = q] /\ UNCHANGED <<review, vote, reviewRaced>>
  BY DEF LoadReview
<1>. HIDE DEF q
<1>. QED BY <1>1, <1>2, BooksRequestOnly

LEMMA LoadersKeepBooks ==
    ASSUME ReviewInv, ReviewBooks, NEW s \in Sessions, NEW k \in Reviews,
           \/ \E flagged \in Flags : UpdateReview(s, k, flagged)
           \/ DeleteReview(s, k)
           \/ \E action \in {"hide", "approve", "reject"} : ModerateReview(s, k, action)
    PROVE  ReviewBooks'
<1>1. review[k] # None /\ review[k] \in Review
  BY DEF ReviewInv, ReviewTypeOK, UpdateReview, DeleteReview, ModerateReview
<1>2. ASSUME NEW flagged \in Flags, UpdateReview(s, k, flagged)
      PROVE  ReviewBooks'
  <2>. DEFINE obj == [review[k] EXCEPT !.flagged = flagged]
  <2>1. /\ obj \in Review /\ obj.helpful = review[k].helpful
        /\ obj.notHelpful = review[k].notHelpful
        /\ obj.hidden = review[k].hidden /\ obj.status = review[k].status
    BY <1>1 DEF Review
  <2>2. LoadReview(s, k, obj)
    BY <1>2 DEF UpdateReview
  <2>. HIDE DEF obj
  <2>3. Decided(review[k]) => Decided(obj)
    BY <2>1 DEF Decided
  <2>. QED BY <1>1, <2>1, <2>2, <2>3, LoadKeepsBooks
<1>3. CASE DeleteReview(s, k)
  <2>. DEFINE obj == [review[k] EXCEPT !.deleted = TRUE]
  <2>1. /\ obj \in Review /\ obj.helpful = review[k].helpful
        /\ obj.notHelpful = review[k].notHelpful
        /\ obj.hidden = review[k].hidden /\ obj.status = review[k].status
    BY <1>1 DEF Review
  <2>2. LoadReview(s, k, obj)
    BY <1>3 DEF DeleteReview
  <2>. HIDE DEF obj
  <2>3. Decided(review[k]) => Decided(obj)
    BY <2>1 DEF Decided
  <2>. QED BY <1>1, <2>1, <2>2, <2>3, LoadKeepsBooks
<1>4. ASSUME NEW action \in {"hide", "approve", "reject"}, ModerateReview(s, k, action)
      PROVE  ReviewBooks'
  <2>1. \/ LoadReview(s, k, [review[k] EXCEPT !.hidden = TRUE, !.status = "HIDDEN"])
        \/ LoadReview(s, k, [review[k] EXCEPT !.hidden = FALSE, !.status = "APPROVED"])
        \/ LoadReview(s, k, [review[k] EXCEPT !.hidden = TRUE, !.status = "REJECTED"])
    BY <1>4 DEF ModerateReview
  <2>2. PICK hidden \in BOOLEAN, status \in Moderation :
          /\ LoadReview(s, k, [review[k] EXCEPT !.hidden = hidden, !.status = status])
          /\ hidden <=> status \in {"HIDDEN", "REJECTED"}
    BY <2>1 DEF Moderation
  <2>. DEFINE half == [review[k] EXCEPT !.hidden = hidden]
              obj == [half EXCEPT !.status = status]
  <2>3. /\ half \in Review /\ half.helpful = review[k].helpful
        /\ half.notHelpful = review[k].notHelpful /\ half.hidden = hidden
    BY <1>1 DEF Review
  <2>4. LoadReview(s, k, obj)
    BY <2>2
  <2>. HIDE DEF half
  <2>5. /\ obj \in Review /\ obj.helpful = review[k].helpful
        /\ obj.notHelpful = review[k].notHelpful /\ obj.hidden = hidden /\ obj.status = status
    BY <2>3 DEF Review
  <2>. HIDE DEF obj
  <2>6. Decided(obj)
    BY <2>2, <2>5 DEF Decided
  <2>. QED BY <1>1, <2>4, <2>5, <2>6, LoadKeepsBooks
<1>. QED BY <1>2, <1>3, <1>4

LEMMA ReadersKeepBooks ==
    ASSUME ReviewInv, ReviewBooks, NEW s \in Sessions,
           \/ \E k \in Reviews, flagged \in Flags : ReadForCreate(s, k, flagged)
           \/ \E k \in Reviews, voter \in Voters, choice \in Vote : ReadReview(s, k, voter, choice)
           \/ ReadVote(s)
    PROVE  ReviewBooks'
<1>1. ASSUME NEW k \in Reviews, NEW flagged \in Flags, ReadForCreate(s, k, flagged)
      PROVE  ReviewBooks'
  <2>1. KeepsBooks([pc |-> "create", k |-> k, flagged |-> flagged])
    BY DEF KeepsBooks
  <2>. QED BY <1>1, <2>1, BooksRequestOnly DEF ReadForCreate
<1>2. ASSUME NEW k \in Reviews, NEW voter \in Voters, NEW choice \in Vote,
             ReadReview(s, k, voter, choice)
      PROVE  ReviewBooks'
  <2>. DEFINE q == [pc |-> "vote", k |-> k, read |-> review[k], voter |-> voter,
                    choice |-> choice]
  <2>1. KeepsBooks(q)
    BY <1>2 DEF ReviewBooks, KeepsBooks, ReadReview
  <2>2. reviewReq' = [reviewReq EXCEPT ![s] = q] /\ UNCHANGED <<review, vote, reviewRaced>>
    BY <1>2 DEF ReadReview
  <2>. HIDE DEF q
  <2>. QED BY <2>1, <2>2, BooksRequestOnly
<1>3. CASE ReadVote(s)
  <2>1. PICK q : q = reviewReq[s] /\ q.pc = "vote" /\ NotNegative(q.read)
    BY <1>3 DEF ReadVote, ReviewBooks, KeepsBooks
  <2>2. PICK before : before = vote[q.k, q.voter]
    OBVIOUS
  <2>. DEFINE cast == [pc |-> "cast", k |-> q.k, read |-> q.read, voter |-> q.voter,
                       obj |-> Tally(q.read, before, q.choice), choice |-> q.choice,
                       before |-> before]
  <2>3. KeepsBooks(Idle) /\ (before # q.choice => KeepsBooks(cast))
    BY <2>1 DEF KeepsBooks, Idle
  <2>4. /\ reviewReq' = [reviewReq EXCEPT ![s] = IF before = q.choice THEN Idle ELSE cast]
        /\ UNCHANGED <<review, vote, reviewRaced>>
    BY <1>3, <2>1, <2>2 DEF ReadVote
  <2>. HIDE DEF cast
  <2>. QED BY <2>3, <2>4, BooksRequestOnly
<1>. QED BY <1>1, <1>2, <1>3

LEMMA InsertKeepsBooks ==
    ASSUME ReviewInv, ReviewBooks, NEW s \in Sessions, InsertReview(s)
    PROVE  ReviewBooks'
<1>1. PICK q : q = reviewReq[s] /\ q \in CreateReq
  BY DEF InsertReview, ReviewInv, ReviewTypeOK, CreateReq, SaveReviewReq, VoteReq, CastReq, Idle
<1>. DEFINE row == [flagged |-> q.flagged, deleted |-> FALSE, hidden |-> FALSE,
                    status |-> IF q.flagged THEN "PENDING" ELSE "APPROVED",
                    helpful |-> 0, notHelpful |-> 0]
<1>2. /\ row \in Review /\ q.k \in Reviews /\ NotNegative(row)
      /\ \A c \in Vote : row[c] = 0
  BY <1>1 DEF Review, Moderation, CreateReq, NotNegative, Vote
<1>3. Decided(row)
  BY <1>1, ReviewAssumption DEF Decided, CreateReq
<1>4. /\ reviewReq' = [reviewReq EXCEPT ![s] = Idle] /\ UNCHANGED <<vote, reviewRaced>>
      /\ \/ review[q.k] = None /\ review' = [review EXCEPT ![q.k] = row]
         \/ UNCHANGED review
  BY <1>1 DEF InsertReview
<1>. HIDE DEF row
<1>5. CASE UNCHANGED review
  <2>1. KeepsBooks(Idle)
    BY DEF KeepsBooks, Idle
  <2>. QED BY <1>4, <1>5, <2>1, BooksRequestOnly
<1>6. CASE review[q.k] = None /\ review' = [review EXCEPT ![q.k] = row]
  <2>1. ASSUME NEW c \in Vote PROVE VotesFor(q.k, c)' = 0
    <3>1. \A v \in Voters : vote'[q.k, v] # c
      BY <1>2, <1>4, <1>6, NoReviewAssumption DEF ReviewBooks
    <3>2. {v \in Voters : vote'[q.k, v] = c} = {}
      BY <3>1
    <3>. QED BY <3>2, FS_EmptySet DEF VotesFor
  <2>. QED BY <1>2, <1>3, <1>4, <1>6, <2>1, BooksWritten
<1>. QED BY <1>4, <1>5, <1>6

LEMMA ReviewFlushed ==
    ASSUME NEW row \in Review, NEW read \in Review, NEW obj \in Review
    PROVE  /\ Flush(row, row, obj) = obj
           /\ NotNegative(row) /\ NotNegative(obj) => NotNegative(Flush(row, read, obj))
<1>1. DOMAIN row = {"flagged", "deleted", "hidden", "status", "helpful", "notHelpful"}
  BY DEF Review
<1>2. \A old \in Review : Flush(row, old, obj) =
        [flagged |-> IF obj.flagged # old.flagged THEN obj.flagged ELSE row.flagged,
         deleted |-> IF obj.deleted # old.deleted THEN obj.deleted ELSE row.deleted,
         hidden |-> IF obj.hidden # old.hidden THEN obj.hidden ELSE row.hidden,
         status |-> IF obj.status # old.status THEN obj.status ELSE row.status,
         helpful |-> IF obj.helpful # old.helpful THEN obj.helpful ELSE row.helpful,
         notHelpful |-> IF obj.notHelpful # old.notHelpful THEN obj.notHelpful
                        ELSE row.notHelpful]
  BY <1>1 DEF Flush
<1>3. Flush(row, row, obj) =
        [flagged |-> obj.flagged, deleted |-> obj.deleted, hidden |-> obj.hidden,
         status |-> obj.status, helpful |-> obj.helpful, notHelpful |-> obj.notHelpful]
  BY <1>2
<1>4. Flush(row, row, obj) = obj
  BY <1>3 DEF Review
<1>5. Flush(row, read, obj).helpful \in {obj.helpful, row.helpful}
      /\ Flush(row, read, obj).notHelpful \in {obj.notHelpful, row.notHelpful}
  BY <1>2
<1>. QED BY <1>4, <1>5 DEF NotNegative

LEMMA SaveKeepsBooks ==
    ASSUME ReviewInv, ReviewBooks, NEW s \in Sessions, SaveReview(s)
    PROVE  ReviewBooks'
<1>1. PICK q \in SaveReviewReq : /\ q = reviewReq[s] /\ q.pc = "save"
                                 /\ KeepsBooks(q) /\ ReviewSaves(q, review)
  <2>1. reviewReq[s].pc = "save" /\ reviewReq[s] \in AnyReviewReq
    BY ReviewReqType DEF SaveReview
  <2>. QED BY <2>1, ReviewReqKinds DEF ReviewBooks, ReviewInv
<1>2. /\ q.k \in Reviews /\ q.read \in Review /\ q.obj \in Review
      /\ review[q.k] \in Review /\ review[q.k] # None
  BY <1>1 DEF SaveReviewReq, ReviewSaves, ReviewInv, ReviewTypeOK
<1>3. PICK row : row = Flush(review[q.k], q.read, q.obj)
  OBVIOUS
<1>4. /\ review' = [review EXCEPT ![q.k] = row] /\ reviewReq' = [reviewReq EXCEPT ![s] = Idle]
      /\ reviewRaced' = IF Changed(review[q.k], q.read) THEN reviewRaced \cup {q.k}
                                                        ELSE reviewRaced
      /\ UNCHANGED vote
  BY <1>1, <1>3 DEF SaveReview
<1>5. NotNegative(q.read) /\ NotNegative(q.obj) /\ NotNegative(review[q.k])
  BY <1>1, <1>2 DEF KeepsBooks, NotNegative, ReviewBooks
<1>6. row \in Review /\ NotNegative(row)
  BY <1>2, <1>3, <1>5, ReviewFlush, ReviewFlushed
<1>7. ASSUME q.k \notin reviewRaced'
      PROVE  Decided(row) /\ \A c \in Vote : row[c] = VotesFor(q.k, c)'
  <2>1. review[q.k] = q.read /\ q.k \notin reviewRaced
    BY <1>4, <1>7 DEF Changed
  <2>2. row = q.obj
    BY <1>2, <1>3, <2>1, ReviewFlushed
  <2>3. Decided(q.read) /\ VotesCounted(q.k)
    BY <1>2, <2>1 DEF ReviewBooks
  <2>4. \A c \in Vote : q.obj[c] = q.read[c]
    BY <1>1 DEF KeepsBooks, Vote
  <2>5. \A c \in Vote : VotesFor(q.k, c)' = VotesFor(q.k, c)
    BY <1>4, VotesStay
  <2>. QED BY <1>1, <2>1, <2>2, <2>3, <2>4, <2>5 DEF KeepsBooks, VotesCounted
<1>8. \A j \in reviewRaced : j \in reviewRaced'
  BY <1>4
<1>. QED BY <1>2, <1>4, <1>6, <1>7, <1>8, BooksWritten

LEMMA CastKeepsBooks ==
    ASSUME ReviewInv, ReviewBooks, NEW s \in Sessions, CastVote(s)
    PROVE  ReviewBooks'
<1>1. PICK q \in CastReq : /\ q = reviewReq[s] /\ q.pc = "cast"
                           /\ KeepsBooks(q) /\ ReviewSaves(q, review)
  <2>1. reviewReq[s].pc = "cast" /\ reviewReq[s] \in AnyReviewReq
    BY ReviewReqType DEF CastVote
  <2>. QED BY <2>1, ReviewReqKinds DEF ReviewBooks, ReviewInv
<1>2. /\ q.k \in Reviews /\ q.read \in Review /\ q.obj \in Review /\ q.voter \in Voters
      /\ q.choice \in Vote /\ q.before \in Vote \cup {None}
      /\ review[q.k] \in Review /\ review[q.k] # None
  BY <1>1 DEF CastReq, ReviewSaves, ReviewInv, ReviewTypeOK
<1>3. /\ q.obj = Tally(q.read, q.before, q.choice) /\ q.before # q.choice
      /\ NotNegative(q.read) /\ NotNegative(review[q.k])
  BY <1>1, <1>2 DEF KeepsBooks, ReviewBooks
<1>4. \A c \in Vote : q.obj[c] = Counted(q.read[c], c, q.before, q.choice)
  BY <1>2, <1>3, TallyCounts
<1>5. \A c \in Vote : q.read[c] \in Int /\ q.read[c] >= 0
  BY <1>2, <1>3 DEF Review, Vote, NotNegative
<1>6. NotNegative(q.obj)
  <2>1. \A c \in Vote : q.obj[c] >= 0
    BY <1>4, <1>5 DEF Counted
  <2>. QED BY <2>1 DEF NotNegative, Vote
<1>7. PICK row : row = Flush(review[q.k], q.read, q.obj)
  OBVIOUS
<1>8. row \in Review /\ NotNegative(row)
  BY <1>2, <1>3, <1>6, <1>7, ReviewFlush, ReviewFlushed
<1>9. PICK now : now = vote[q.k, q.voter]
  OBVIOUS
<1>10. reviewReq' = [reviewReq EXCEPT ![s] = Idle]
  BY DEF CastVote
<1>11. CASE UNCHANGED <<review, vote, reviewRaced>>
  <2>1. KeepsBooks(Idle)
    BY DEF KeepsBooks, Idle
  <2>. QED BY <1>10, <1>11, <2>1, BooksRequestOnly
<1>12. CASE /\ vote' = [vote EXCEPT ![<<q.k, q.voter>>] = q.choice]
            /\ review' = [review EXCEPT ![q.k] = row]
            /\ reviewRaced' = IF Changed(review[q.k], q.read) \/ now # q.before
                              THEN reviewRaced \cup {q.k} ELSE reviewRaced
  <2>1. \A j \in Reviews, v \in Voters : j # q.k => vote'[j, v] = vote[j, v]
    BY <1>2, <1>12 DEF ReviewInv, ReviewTypeOK
  <2>2. ASSUME q.k \notin reviewRaced'
        PROVE  Decided(row) /\ \A c \in Vote : row[c] = VotesFor(q.k, c)'
    <3>1. review[q.k] = q.read /\ q.k \notin reviewRaced /\ now = q.before
      BY <1>12, <2>2 DEF Changed
    <3>2. row = q.obj
      BY <1>2, <1>7, <3>1, ReviewFlushed
    <3>3. Decided(q.read) /\ \A c \in Vote : q.read[c] = VotesFor(q.k, c)
      BY <1>2, <3>1 DEF ReviewBooks, VotesCounted
    <3>4. q.obj.hidden = q.read.hidden /\ q.obj.status = q.read.status
      BY <1>2, <1>3, TallyCounts
    <3>5. \A c \in Vote : /\ VotesFor(q.k, c) \in Nat
                          /\ c = q.before => VotesFor(q.k, c) >= 1
                          /\ VotesFor(q.k, c)' =
                               Counted(VotesFor(q.k, c), c, q.before, q.choice)
      <4>1. /\ ReviewTypeOK /\ q.before = vote[<<q.k, q.voter>>]
            /\ vote' = [vote EXCEPT ![<<q.k, q.voter>>] = q.choice]
        BY <1>9, <1>12, <3>1 DEF ReviewInv
      <4>. QED BY <1>2, <1>3, <4>1, VotesMove
    <3>6. ASSUME NEW c \in Vote PROVE q.obj[c] = VotesFor(q.k, c)'
      BY <1>4, <1>5, <3>3, <3>5 DEF Counted
    <3>. QED BY <3>2, <3>3, <3>4, <3>6 DEF Decided
  <2>3. \A j \in reviewRaced : j \in reviewRaced'
    BY <1>12
  <2>. QED BY <1>2, <1>8, <1>10, <1>12, <2>1, <2>2, <2>3, BooksWritten
<1>. QED BY <1>1, <1>7, <1>9, <1>11, <1>12 DEF CastVote

LEMMA ReviewStepKeeps == ReviewInv /\ ReviewNext => ReviewInv' /\ DeletionStep
  BY LoadersStep, ReadersStep, InsertReviewStep, WritersStep DEF ReviewNext

\* Lost updates never make a counter negative; where nobody raced, the counters are the votes
\* and what is hidden is what was decided; deletion is for good: review-service.
THEOREM ReviewsAreSafe == ReviewSpec => ReviewSafety
<1>1. ReviewInit => ReviewInv /\ ReviewBooks
  <2>. SUFFICES ASSUME ReviewInit PROVE ReviewInv /\ ReviewBooks
    OBVIOUS
  <2>1. ReviewInv
    BY DEF ReviewInit, ReviewInv, ReviewTypeOK, ReviewSaves, Idle
  <2>2. KeepsBooks(Idle)
    BY DEF KeepsBooks, Idle
  <2>. QED BY <2>1, <2>2 DEF ReviewInit, ReviewBooks
<1>2. ReviewInv /\ ReviewBooks /\ UNCHANGED reviewVars => ReviewInv' /\ ReviewBooks'
  <2>. SUFFICES ASSUME ReviewInv, ReviewBooks, UNCHANGED reviewVars
       PROVE  ReviewInv' /\ ReviewBooks'
    OBVIOUS
  <2>1. ReviewInv'
    BY DEF ReviewInv, ReviewTypeOK, ReviewSaves, reviewVars
  <2>2. ReviewBooks'
    BY DEF ReviewBooks, VotesCounted, VotesFor, reviewVars
  <2>. QED BY <2>1, <2>2
<1>3. ReviewInv /\ ReviewBooks /\ ReviewNext => ReviewBooks'
  BY LoadersKeepBooks, ReadersKeepBooks, InsertKeepsBooks, SaveKeepsBooks, CastKeepsBooks
  DEF ReviewNext
<1>4. ReviewInv /\ ReviewBooks /\ [ReviewNext]_reviewVars => ReviewInv' /\ ReviewBooks'
  BY <1>2, <1>3, ReviewStepKeeps
<1>5. ReviewInv /\ ReviewBooks =>
        ReviewTypeOK /\ CountsNotNegative /\ CountsMatchVotes /\ HiddenMatchesStatus
  BY DEF ReviewInv, ReviewBooks, CountsNotNegative, CountsMatchVotes, HiddenMatchesStatus,
         NotNegative, Decided, VotesCounted
<1>6. ReviewSpec => [](ReviewInv /\ ReviewBooks)
  BY <1>1, <1>4, PTL DEF ReviewSpec
<1>. QED BY <1>5, <1>6, DeletionsLast, PTL DEF ReviewSafety

-----------------------------------------------------------------------------
(* Fraud: blocks come for a reason and last *)

AnyFraudReq == {Idle} \cup CheckReq \cup BlockReq \cup FlagReq \cup UnblockReq

\* No hour passes between the two statements of a block.
BlocksAhead(q) == q.pc = "write" => q.until = Forever \/ q.until = fraudHour + BlockHours

FraudInv == FraudTypeOK /\ \A s \in Sessions : BlocksAhead(fraudReq[s])

BlockStep ==
    \A ip \in Ips : IsBlocked(ip) /\ ~IsBlocked(ip)' =>
         \/ fraudHour' # fraudHour
         \/ \E s \in Sessions : fraudReq[s].pc = "unblock" /\ fraudReq[s].ip = ip

SpendingStep ==
    \A s \in Sessions : fraudReq[s].pc = "check" /\ fraudReq'[s].pc = "find" =>
         \/ IsBlocked(fraudReq[s].ip)
         \/ ~(fraudReq[s].t \subseteq AmountSignal \cup {"ORDER", "NEW_ACCOUNT"})

LEMMA FraudReqKinds ==
    ASSUME NEW q \in AnyFraudReq
    PROVE  /\ q.pc = "check" => q \in CheckReq
           /\ q.pc \in {"find", "write"} => q \in BlockReq
           /\ q.pc = "flag" => q \in FlagReq
           /\ q.pc = "unblock" => q \in UnblockReq
  BY DEF AnyFraudReq, CheckReq, BlockReq, FlagReq, UnblockReq, Idle

\* Amounts, orders and the age of an account do not add up to the threshold.
LEMMA SpendingScore ==
    ASSUME NEW t, t \subseteq AmountSignal \cup {"ORDER", "NEW_ACCOUNT"}
    PROVE  ~(Score(FALSE, t) >= BlockThreshold)
<1>1. /\ "BLOCKED_USER" \notin t /\ "VELOCITY_FAILED_PAYMENT" \notin t
      /\ "HIGH_ORDER_VELOCITY" \notin t /\ ~({"REGISTER", "MANY_REGISTRATIONS"} \subseteq t)
  BY DEF AmountSignal
<1>2. PICK amount \in {30, 15, 0} :
        amount = IF "VERY_LARGE_ORDER" \in t THEN 30 ELSE IF "LARGE_ORDER" \in t THEN 15 ELSE 0
  OBVIOUS
<1>3. PICK new \in {30, 0} :
        new = IF "ORDER" \in t /\ t \cap AmountSignal # {} /\ "NEW_ACCOUNT" \in t THEN 30 ELSE 0
  OBVIOUS
<1>. DEFINE sum == 0 + 0 + 0 + amount + new + 0
<1>4. Score(FALSE, t) = IF sum < 100 THEN sum ELSE 100
  BY <1>1, <1>2, <1>3, Zenon DEF Score
<1>5. (IF sum < 100 THEN sum ELSE 100) = sum /\ ~(sum >= 70)
  OBVIOUS
<1>. HIDE DEF sum
<1>. QED BY <1>4, <1>5, Zenon DEF BlockThreshold

\* A session moves on, and nothing else changes.
LEMMA FraudRequestOnly ==
    ASSUME FraudInv, NEW s \in Sessions, NEW q \in AnyFraudReq,
           fraudReq' = [fraudReq EXCEPT ![s] = q], BlocksAhead(q),
           fraudReq[s].pc = "check" /\ q.pc = "find" =>
             \/ IsBlocked(fraudReq[s].ip)
             \/ ~(fraudReq[s].t \subseteq AmountSignal \cup {"ORDER", "NEW_ACCOUNT"}),
           UNCHANGED fraudHour, flag' \subseteq Ips,
           block' \in [Ips -> Until \cup {None}], BlockStep
    PROVE  FraudInv' /\ BlockStep /\ SpendingStep
<1>1. \A r \in Sessions : fraudReq'[r] = IF r = s THEN q ELSE fraudReq[r]
  BY DEF FraudInv, FraudTypeOK
<1>2. FraudTypeOK'
  BY DEF FraudInv, FraudTypeOK, AnyFraudReq
<1>3. \A r \in Sessions : BlocksAhead(fraudReq[r])'
  <2>. SUFFICES ASSUME NEW r \in Sessions PROVE BlocksAhead(fraudReq[r])'
    OBVIOUS
  <2>1. PICK p : p = fraudReq'[r] /\ BlocksAhead(p)
    BY <1>1 DEF FraudInv
  <2>2. BlocksAhead(p)'
    BY <2>1 DEF BlocksAhead
  <2>. QED BY <2>1, <2>2
<1>4. SpendingStep
  <2>. SUFFICES ASSUME NEW r \in Sessions, fraudReq[r].pc = "check", fraudReq'[r].pc = "find"
       PROVE  \/ IsBlocked(fraudReq[r].ip)
              \/ ~(fraudReq[r].t \subseteq AmountSignal \cup {"ORDER", "NEW_ACCOUNT"})
    BY DEF SpendingStep
  <2>. QED BY <1>1
<1>. QED BY <1>2, <1>3, <1>4 DEF FraudInv

\* A step that leaves the blocks and the clock alone lifts no block.
LEMMA BlocksUntouched == UNCHANGED <<block, fraudHour>> => BlockStep
  BY DEF BlockStep, IsBlocked

LEMMA FraudReads ==
    ASSUME FraudInv, NEW s \in Sessions,
           \/ \E ip \in Ips :
                \/ BlockIp(s, ip) \/ FindForUnblock(s, ip)
                \/ \E t \in Samples : CheckTransaction(s, ip, t)
           \/ Decide(s) \/ FindBlock(s) \/ SaveFlag(s)
    PROVE  FraudInv' /\ BlockStep /\ SpendingStep
<1>1. PICK p \in AnyFraudReq : p = fraudReq[s]
  BY DEF FraudInv, FraudTypeOK, AnyFraudReq
<1>2. block \in [Ips -> Until \cup {None}] /\ flag \subseteq Ips /\ fraudHour \in 0..FraudLastHour
  BY DEF FraudInv, FraudTypeOK
<1>3. Idle \in AnyFraudReq /\ Idle.pc = "idle" /\ BlocksAhead(Idle)
  BY DEF AnyFraudReq, BlocksAhead, Idle
<1>4. ASSUME NEW ip \in Ips, BlockIp(s, ip)
      PROVE  FraudInv' /\ BlockStep /\ SpendingStep
  <2>. DEFINE q == [pc |-> "find", ip |-> ip, read |-> None, until |-> Forever, flagged |-> FALSE]
  <2>1. q \in AnyFraudReq /\ BlocksAhead(q)
    BY DEF AnyFraudReq, BlockReq, Until, BlocksAhead
  <2>2. fraudReq[s].pc # "check" /\ FraudStep(s, q)
    BY <1>4 DEF BlockIp, Idle
  <2>. HIDE DEF q
  <2>. QED BY <1>2, <2>1, <2>2, FraudRequestOnly, BlocksUntouched DEF FraudStep
<1>5. ASSUME NEW ip \in Ips, FindForUnblock(s, ip)
      PROVE  FraudInv' /\ BlockStep /\ SpendingStep
  <2>. DEFINE q == [pc |-> "unblock", ip |-> ip]
  <2>1. q \in AnyFraudReq /\ BlocksAhead(q) /\ q.pc # "find"
    BY DEF AnyFraudReq, UnblockReq, BlocksAhead
  <2>2. FraudStep(s, q)
    BY <1>5 DEF FindForUnblock
  <2>. HIDE DEF q
  <2>. QED BY <1>2, <2>1, <2>2, FraudRequestOnly, BlocksUntouched DEF FraudStep
<1>6. ASSUME NEW ip \in Ips, NEW t \in Samples, CheckTransaction(s, ip, t)
      PROVE  FraudInv' /\ BlockStep /\ SpendingStep
  <2>. DEFINE q == [pc |-> "check", ip |-> ip, t |-> t]
  <2>1. q \in AnyFraudReq /\ BlocksAhead(q) /\ q.pc # "find"
    BY DEF AnyFraudReq, CheckReq, BlocksAhead
  <2>2. fraudReq' = [fraudReq EXCEPT ![s] = q] /\ UNCHANGED <<block, flag, fraudHour>>
    BY <1>6 DEF CheckTransaction
  <2>. HIDE DEF q
  <2>. QED BY <1>2, <2>1, <2>2, FraudRequestOnly, BlocksUntouched
<1>7. CASE Decide(s)
  <2>. DEFINE find == [pc |-> "find", ip |-> p.ip, read |-> None, until |-> 0, flagged |-> TRUE]
              q == IF Score(IsBlocked(p.ip), p.t) >= BlockThreshold THEN find ELSE Idle
  <2>1. p.pc = "check" /\ p \in CheckReq /\ FraudStep(s, q)
    BY <1>1, <1>7, FraudReqKinds DEF Decide
  <2>2. find \in AnyFraudReq /\ BlocksAhead(find) /\ find.pc = "find"
    BY <2>1, FraudAssumption DEF AnyFraudReq, BlockReq, CheckReq, Until, BlocksAhead, BlockHours
  <2>3. q = find => \/ IsBlocked(p.ip)
                    \/ ~(p.t \subseteq AmountSignal \cup {"ORDER", "NEW_ACCOUNT"})
    <3>. SUFFICES ASSUME IsBlocked(p.ip) = FALSE,
                         p.t \subseteq AmountSignal \cup {"ORDER", "NEW_ACCOUNT"}
         PROVE  q # find
      BY DEF IsBlocked
    <3>1. q = Idle
      BY SpendingScore
    <3>. QED BY <1>3, <2>2, <3>1
  <2>. HIDE DEF find
  <2>4. q \in AnyFraudReq /\ BlocksAhead(q) /\ (q.pc = "find" => q = find)
    BY <1>3, <2>2
  <2>. HIDE DEF q
  <2>. QED BY <1>1, <1>2, <2>1, <2>3, <2>4, FraudRequestOnly, BlocksUntouched DEF FraudStep
<1>8. CASE FindBlock(s)
  <2>1. PICK until : until = IF p.until = Forever THEN Forever ELSE fraudHour + BlockHours
    OBVIOUS
  <2>. DEFINE q == [p EXCEPT !.pc = "write", !.read = block[p.ip], !.until = until]
  <2>2. p.pc = "find" /\ p \in BlockReq /\ FraudStep(s, q)
    BY <1>1, <1>8, <2>1, FraudReqKinds DEF FindBlock
  <2>3. until \in Until
    BY <1>2, <2>1, FraudAssumption DEF Until, BlockHours
  <2>4. q = [pc |-> "write", ip |-> p.ip, read |-> block[p.ip], until |-> until,
             flagged |-> p.flagged]
    <3>. DEFINE one == [p EXCEPT !.pc = "write"]
                two == [one EXCEPT !.read = block[p.ip]]
    <3>1. one = [pc |-> "write", ip |-> p.ip, read |-> p.read, until |-> p.until,
                 flagged |-> p.flagged]
      BY <2>2 DEF BlockReq
    <3>. HIDE DEF one
    <3>2. two = [pc |-> "write", ip |-> p.ip, read |-> block[p.ip], until |-> p.until,
                 flagged |-> p.flagged]
      BY <3>1
    <3>3. q = [two EXCEPT !.until = until]
      BY DEF one
    <3>. HIDE DEF two, q
    <3>. QED BY <3>2, <3>3
  <2>. HIDE DEF q
  <2>5. q \in AnyFraudReq /\ BlocksAhead(q) /\ q.pc # "find"
    BY <1>2, <2>1, <2>2, <2>3, <2>4 DEF AnyFraudReq, BlockReq, BlocksAhead
  <2>. QED BY <1>2, <2>2, <2>5, FraudRequestOnly, BlocksUntouched DEF FraudStep
<1>9. CASE SaveFlag(s)
  <2>1. p \in FlagReq
    BY <1>1, <1>9, FraudReqKinds DEF SaveFlag
  <2>2. flag' \subseteq Ips /\ UNCHANGED <<block, fraudHour>>
        /\ fraudReq' = [fraudReq EXCEPT ![s] = Idle]
    BY <1>1, <1>2, <1>9, <2>1 DEF SaveFlag, FlagReq
  <2>. QED BY <1>2, <1>3, <2>2, FraudRequestOnly, BlocksUntouched
<1>. QED BY <1>4, <1>5, <1>6, <1>7, <1>8, <1>9

LEMMA WriteBlockStep ==
    ASSUME FraudInv, NEW s \in Sessions, WriteBlock(s)
    PROVE  FraudInv' /\ BlockStep /\ SpendingStep
<1>1. PICK p \in BlockReq : p = fraudReq[s] /\ p.pc = "write" /\ BlocksAhead(p)
  BY FraudReqKinds DEF WriteBlock, FraudInv, FraudTypeOK, AnyFraudReq
<1>2. /\ block \in [Ips -> Until \cup {None}] /\ flag \subseteq Ips
      /\ fraudHour \in 0..FraudLastHour /\ p.ip \in Ips /\ p.until \in Until
  BY <1>1 DEF FraudInv, FraudTypeOK, BlockReq
<1>3. CASE FraudStep(s, Idle)
  <2>1. Idle \in AnyFraudReq /\ Idle.pc # "find" /\ BlocksAhead(Idle)
    BY DEF AnyFraudReq, BlocksAhead, Idle
  <2>. QED BY <1>2, <1>3, <2>1, FraudRequestOnly, BlocksUntouched DEF FraudStep
<1>4. CASE /\ block' = [block EXCEPT ![p.ip] = IF p.until # p.read THEN p.until ELSE @]
           /\ fraudReq' = [fraudReq EXCEPT ![s] =
                             IF p.flagged THEN [pc |-> "flag", ip |-> p.ip] ELSE Idle]
           /\ UNCHANGED <<flag, fraudHour>>
  <2>. DEFINE q == IF p.flagged THEN [pc |-> "flag", ip |-> p.ip] ELSE Idle
  <2>1. q \in AnyFraudReq /\ BlocksAhead(q) /\ q.pc # "find"
    BY <1>2 DEF AnyFraudReq, FlagReq, BlocksAhead, Idle
  <2>2. \A ip \in Ips : block'[ip] = block[ip] \/ (ip = p.ip /\ block'[ip] = p.until)
    BY <1>2, <1>4
  <2>3. block' \in [Ips -> Until \cup {None}]
    BY <1>2, <1>4
  <2>4. BlockStep
    <3>. SUFFICES ASSUME NEW ip \in Ips, IsBlocked(ip) PROVE IsBlocked(ip)'
      BY DEF BlockStep
    <3>1. CASE block'[ip] = block[ip]
      BY <1>4, <3>1 DEF IsBlocked
    <3>2. CASE block'[ip] = p.until
      <4>1. p.until # None
        BY <1>2, NoBlockAssumption
      <4>2. p.until = Forever \/ p.until > fraudHour
        BY <1>1, <1>2 DEF BlocksAhead, BlockHours
      <4>. QED BY <1>4, <3>2, <4>1, <4>2 DEF IsBlocked
    <3>. QED BY <2>2, <3>1, <3>2
  <2>5. fraudReq' = [fraudReq EXCEPT ![s] = q] /\ UNCHANGED <<flag, fraudHour>>
    BY <1>4
  <2>. HIDE DEF q
  <2>. QED BY <1>2, <2>1, <2>3, <2>4, <2>5, FraudRequestOnly
<1>. QED BY <1>1, <1>3, <1>4 DEF WriteBlock

LEMMA UnblockStep ==
    ASSUME FraudInv, NEW s \in Sessions, Unblock(s)
    PROVE  FraudInv' /\ BlockStep /\ SpendingStep
<1>1. PICK p \in UnblockReq : p = fraudReq[s] /\ p.pc = "unblock"
  BY FraudReqKinds DEF Unblock, FraudInv, FraudTypeOK, AnyFraudReq
<1>2. /\ block' = [block EXCEPT ![p.ip] = None]
      /\ fraudReq' = [fraudReq EXCEPT ![s] = Idle] /\ UNCHANGED <<flag, fraudHour>>
  BY <1>1 DEF Unblock
<1>3. block' \in [Ips -> Until \cup {None}] /\ flag' \subseteq Ips
  BY <1>2 DEF FraudInv, FraudTypeOK
<1>4. BlockStep
  <2>. SUFFICES ASSUME NEW ip \in Ips, IsBlocked(ip), ~IsBlocked(ip)'
                PROVE  fraudReq[s].pc = "unblock" /\ fraudReq[s].ip = ip
    BY DEF BlockStep
  <2>1. ip = p.ip
    BY <1>2 DEF IsBlocked, FraudInv, FraudTypeOK
  <2>. QED BY <1>1, <2>1
<1>5. Idle \in AnyFraudReq /\ Idle.pc # "find" /\ BlocksAhead(Idle)
  BY DEF AnyFraudReq, BlocksAhead, Idle
<1>. QED BY <1>2, <1>3, <1>4, <1>5, FraudRequestOnly

LEMMA HourStep ==
    ASSUME FraudInv, FraudHourPasses
    PROVE  FraudInv' /\ BlockStep /\ SpendingStep
<1>1. /\ fraudHour' = fraudHour + 1 /\ fraudHour \in 0..FraudLastHour
      /\ fraudHour < FraudLastHour /\ UNCHANGED <<block, flag, fraudReq>>
  BY DEF FraudHourPasses, FraudInv, FraudTypeOK
<1>2. FraudTypeOK'
  BY <1>1, FraudAssumption DEF FraudInv, FraudTypeOK
<1>3. \A s \in Sessions : BlocksAhead(fraudReq[s])'
  BY <1>1 DEF FraudHourPasses, BlocksAhead
<1>4. BlockStep
  BY <1>1 DEF BlockStep
<1>5. SpendingStep
  BY <1>1 DEF SpendingStep
<1>. QED BY <1>2, <1>3, <1>4, <1>5 DEF FraudInv

\* However checks and administrators race, a block ends only by an unblock or with its time;
\* and what a customer spends never blocks the address: fraud-service.
THEOREM FraudIsSafe == FraudSpec => FraudSafety
<1>1. FraudInit => FraudInv
  BY FraudAssumption DEF FraudInit, FraudInv, FraudTypeOK, BlocksAhead, Idle
<1>2. FraudInv /\ UNCHANGED fraudVars => FraudInv'
  BY DEF FraudInv, FraudTypeOK, BlocksAhead, fraudVars
<1>3. FraudInv /\ FraudNext => FraudInv' /\ BlockStep /\ SpendingStep
  <2>. SUFFICES ASSUME FraudInv, FraudNext PROVE FraudInv' /\ BlockStep /\ SpendingStep
    OBVIOUS
  <2>1. \/ FraudHourPasses
        \/ \E s \in Sessions : WriteBlock(s) \/ Unblock(s)
        \/ \E s \in Sessions :
             \/ \E ip \in Ips :
                  \/ BlockIp(s, ip) \/ FindForUnblock(s, ip)
                  \/ \E t \in Samples : CheckTransaction(s, ip, t)
             \/ Decide(s) \/ FindBlock(s) \/ SaveFlag(s)
    BY DEF FraudNext
  <2>. QED BY <2>1, HourStep, WriteBlockStep, UnblockStep, FraudReads
<1>4. FraudInv /\ [FraudNext]_fraudVars =>
        /\ FraudInv'
        /\ [\A ip \in Ips : IsBlocked(ip) /\ ~IsBlocked(ip)' =>
             \/ fraudHour' # fraudHour
             \/ \E s \in Sessions : fraudReq[s].pc = "unblock" /\ fraudReq[s].ip = ip]_fraudVars
        /\ [\A s \in Sessions : fraudReq[s].pc = "check" /\ fraudReq'[s].pc = "find" =>
             \/ IsBlocked(fraudReq[s].ip)
             \/ ~(fraudReq[s].t \subseteq AmountSignal \cup {"ORDER", "NEW_ACCOUNT"})]_fraudVars
  BY <1>2, <1>3 DEF BlockStep, SpendingStep
<1>5. FraudInv => FraudTypeOK
  BY DEF FraudInv
<1>. QED BY <1>1, <1>4, <1>5, PTL DEF FraudSpec, FraudSafety, BlockLasts, SpendingIsNoCrime

-----------------------------------------------------------------------------
(* Wishlists: one list, and the alerts of those who watch *)

AnyWishReq == {Idle} \cup GetReq \cup AddReq \cup EditReq \cup RemoveReq \cup NewsReq

\* The request has found no list of u, and will make one.
MakesFor(q, u) ==
    \/ q.pc = "get" /\ q.u = u
    \/ q.pc \in {"found", "add"} /\ q.u = u /\ q.l = None

\* Lists are never removed: those that a request has seen are there.
ListsKnown(q) ==
    /\ q.pc \in {"found", "add"} /\ q.l # None => listOf[q.l] # None
    /\ q.pc = "news" => \A l \in Lists : q.items[l] # None => listOf[l] # None

WishesAreListed ==
    \A l \in Lists, p \in WishProducts : wish[l, p] # None => listOf[l] # None

\* While one request makes the list of u there is no list, and no other request makes it.
OneMaker(u) ==
    /\ \A k, l \in ListsOf(u) : k = l
    /\ \A s, t \in Making(u) : s = t
    /\ Making(u) = {} \/ ListsOf(u) = {}

WishInv ==
    /\ WishlistTypeOK
    /\ WishesAreListed
    /\ \A s \in Sessions : ListsKnown(wishReq[s])
    /\ \A u \in Wishers \ wishRaced : OneMaker(u)

LEMMA WishReqKinds ==
    ASSUME NEW q \in AnyWishReq
    PROVE  /\ q.pc = "get" => q \in GetReq
           /\ q.pc \in {"found", "add"} => q \in AddReq
           /\ q.pc = "edit" => q \in EditReq
           /\ q.pc = "remove" => q \in RemoveReq
           /\ q.pc = "news" => q \in NewsReq
  BY DEF AnyWishReq, GetReq, AddReq, EditReq, RemoveReq, NewsReq, Idle

LEMMA WishFlush ==
    ASSUME NEW row \in Wish, NEW read \in Wish, NEW obj \in Wish
    PROVE  Flush(row, read, obj) \in Wish
<1>1. DOMAIN row = {"notify", "target"}
  BY DEF Wish
<1>2. Flush(row, read, obj) =
        [notify |-> IF obj.notify # read.notify THEN obj.notify ELSE row.notify,
         target |-> IF obj.target # read.target THEN obj.target ELSE row.target]
  BY <1>1 DEF Flush
<1>. QED BY <1>2 DEF Wish

LEMMA MakingIs == \A u : Making(u) = {s \in Sessions : MakesFor(wishReq[s], u)}
  BY DEF Making, MakesFor

\* A session moves on, and makes no list that it was not making.
LEMMA WishStep ==
    ASSUME WishInv, NEW s \in Sessions, NEW q \in AnyWishReq,
           wishReq' = [wishReq EXCEPT ![s] = q], UNCHANGED <<listOf, wishRaced>>,
           wish' \in [Lists \X WishProducts -> Wish \cup {None}],
           alerts' \subseteq Alert, priceNews' \in 0..MaxPriceNews,
           \A l \in Lists, p \in WishProducts :
             wish'[l, p] # None => wish[l, p] # None \/ listOf[l] # None,
           ListsKnown(q), \A u \in Wishers : MakesFor(q, u) => MakesFor(wishReq[s], u)
    PROVE  WishInv'
<1>1. \A r \in Sessions : wishReq'[r] = IF r = s THEN q ELSE wishReq[r]
  BY DEF WishInv, WishlistTypeOK
<1>2. WishlistTypeOK'
  BY DEF WishInv, WishlistTypeOK, AnyWishReq
<1>3. WishesAreListed'
  BY DEF WishInv, WishesAreListed
<1>4. \A r \in Sessions : ListsKnown(wishReq[r])'
  <2>. SUFFICES ASSUME NEW r \in Sessions PROVE ListsKnown(wishReq[r])'
    OBVIOUS
  <2>1. PICK p : p = wishReq'[r] /\ ListsKnown(p)
    BY <1>1 DEF WishInv
  <2>2. ListsKnown(p)'
    BY <2>1 DEF ListsKnown
  <2>. QED BY <2>1, <2>2
<1>5. ASSUME NEW u \in Wishers \ wishRaced
      PROVE  OneMaker(u)'
  <2>1. ListsOf(u)' = ListsOf(u)
    BY DEF ListsOf
  <2>2. Making(u)' = {r \in Sessions : MakesFor(wishReq'[r], u)}
    BY DEF Making, MakesFor
  <2>3. Making(u)' \subseteq Making(u)
    BY <1>1, <2>2, MakingIs
  <2>4. OneMaker(u)
    BY DEF WishInv
  <2>. QED BY <2>1, <2>3, <2>4 DEF OneMaker
<1>. QED BY <1>2, <1>3, <1>4, <1>5 DEF WishInv

\* A request of u finds no list.
LEMMA FindNoneStep ==
    ASSUME WishInv, NEW s \in Sessions, NEW u \in Wishers, NEW q \in AnyWishReq,
           \A v \in Wishers : MakesFor(q, v) => v = u, ListsKnown(q), FindNone(s, u, q)
    PROVE  WishInv'
<1>1. /\ wishReq' = [wishReq EXCEPT ![s] = q] /\ ListsOf(u) = {}
      /\ wishRaced' = IF Making(u) # {} THEN wishRaced \cup {u} ELSE wishRaced
      /\ UNCHANGED <<listOf, wish, alerts, priceNews>>
  BY DEF FindNone
<1>2. \A r \in Sessions : wishReq'[r] = IF r = s THEN q ELSE wishReq[r]
  BY <1>1 DEF WishInv, WishlistTypeOK
<1>3. WishlistTypeOK'
  BY <1>1 DEF WishInv, WishlistTypeOK, AnyWishReq
<1>4. WishesAreListed'
  BY <1>1 DEF WishInv, WishesAreListed
<1>5. \A r \in Sessions : ListsKnown(wishReq[r])'
  <2>. SUFFICES ASSUME NEW r \in Sessions PROVE ListsKnown(wishReq[r])'
    OBVIOUS
  <2>1. PICK p : p = wishReq'[r] /\ ListsKnown(p)
    BY <1>2 DEF WishInv
  <2>2. ListsKnown(p)'
    BY <1>1, <2>1 DEF ListsKnown
  <2>. QED BY <2>1, <2>2
<1>6. ASSUME NEW v \in Wishers \ wishRaced'
      PROVE  OneMaker(v)'
  <2>1. ListsOf(v)' = ListsOf(v)
    BY <1>1 DEF ListsOf
  <2>2. Making(v)' = {r \in Sessions : MakesFor(wishReq'[r], v)}
    BY DEF Making, MakesFor
  <2>3. OneMaker(v)
    BY <1>1 DEF WishInv
  <2>4. CASE v = u
    <3>1. Making(u) = {}
      BY <1>1, <2>4
    <3>2. Making(u)' \subseteq {s}
      BY <1>2, <2>2, <2>4, <3>1, MakingIs
    <3>. QED BY <1>1, <2>1, <2>3, <2>4, <3>2 DEF OneMaker
  <2>5. CASE v # u
    <3>1. Making(v)' \subseteq Making(v)
      BY <1>2, <2>2, <2>5, MakingIs
    <3>. QED BY <2>1, <2>3, <3>1 DEF OneMaker
  <2>. QED BY <2>4, <2>5
<1>. QED BY <1>3, <1>4, <1>5, <1>6 DEF WishInv

\* The request that makes the list of u is done.
LEMMA NewListStep ==
    ASSUME WishInv, NEW s \in Sessions, NEW u \in Wishers, NEW l \in Lists,
           MakesFor(wishReq[s], u), NewList(l, u), wishReq' = [wishReq EXCEPT ![s] = Idle],
           wish' \in [Lists \X WishProducts -> Wish \cup {None}],
           \A k \in Lists, p \in WishProducts : k # l => wish'[k, p] = wish[k, p],
           UNCHANGED <<alerts, priceNews, wishRaced>>
    PROVE  WishInv'
<1>1. \A r \in Sessions : wishReq'[r] = IF r = s THEN Idle ELSE wishReq[r]
  BY DEF WishInv, WishlistTypeOK
<1>2. listOf[l] = None /\ \A k \in Lists : listOf'[k] = IF k = l THEN u ELSE listOf[k]
  BY DEF WishInv, WishlistTypeOK, NewList
<1>3. WishlistTypeOK'
  BY DEF WishInv, WishlistTypeOK, NewList
<1>4. u # None
  BY NoListAssumption
<1>5. WishesAreListed'
  <2>. SUFFICES ASSUME NEW k \in Lists, NEW p \in WishProducts, wish'[k, p] # None
       PROVE  listOf'[k] # None
    BY DEF WishesAreListed
  <2>. QED BY <1>2, <1>4 DEF WishInv, WishesAreListed
<1>6. \A r \in Sessions : ListsKnown(wishReq[r])'
  <2>. SUFFICES ASSUME NEW r \in Sessions PROVE ListsKnown(wishReq[r])'
    OBVIOUS
  <2>1. PICK p : p = wishReq'[r] /\ ListsKnown(p) /\ p \in AnyWishReq
    <3>1. ListsKnown(Idle) /\ Idle \in AnyWishReq
      BY DEF ListsKnown, Idle, AnyWishReq
    <3>. QED BY <1>1, <3>1 DEF WishInv, WishlistTypeOK, AnyWishReq
  <2>2. ASSUME p.pc \in {"found", "add"}, p.l # None
        PROVE  listOf'[p.l] # None
    <3>1. p.l \in Lists
      BY <2>1, <2>2, WishReqKinds DEF AddReq
    <3>. QED BY <1>2, <1>4, <2>1, <2>2, <3>1 DEF ListsKnown
  <2>3. ASSUME p.pc = "news", NEW k \in Lists, p.items[k] # None
        PROVE  listOf'[k] # None
    BY <1>2, <1>4, <2>1, <2>3 DEF ListsKnown
  <2>4. ListsKnown(p)'
    BY <2>2, <2>3 DEF ListsKnown
  <2>. QED BY <2>1, <2>4
<1>7. ASSUME NEW v \in Wishers \ wishRaced
      PROVE  OneMaker(v)'
  <2>1. ~MakesFor(Idle, v)
    BY DEF MakesFor, Idle
  <2>2. Making(v)' = {r \in Sessions : MakesFor(wishReq'[r], v)}
    BY DEF Making, MakesFor
  <2>3. Making(v)' = Making(v) \ {s}
    BY <1>1, <2>1, <2>2, MakingIs
  <2>4. OneMaker(v)
    BY DEF WishInv
  <2>5. CASE v = u
    <3>0. s \in Making(u)
      BY MakingIs
    <3>1. Making(u) = {s}
      BY <2>4, <2>5, <3>0 DEF OneMaker
    <3>2. ListsOf(u)' = {l}
      BY <1>2, <2>4, <2>5, <3>1 DEF ListsOf, OneMaker
    <3>. QED BY <2>3, <2>5, <3>1, <3>2 DEF OneMaker
  <2>6. CASE v # u
    <3>1. ListsOf(v)' = ListsOf(v)
      BY <1>2, <2>6, NoListAssumption DEF ListsOf
    <3>. QED BY <2>3, <2>4, <3>1 DEF OneMaker
  <2>. QED BY <2>5, <2>6
<1>. QED BY <1>3, <1>5, <1>6, <1>7 DEF WishInv

LEMMA IdleWishes ==
    /\ Idle \in AnyWishReq /\ ListsKnown(Idle) /\ \A u : ~MakesFor(Idle, u)
  BY DEF AnyWishReq, ListsKnown, MakesFor, Idle

\* Requests that look for the list, or read items.
LEMMA ReadingsOfWishes ==
    ASSUME WishInv, NEW s \in Sessions,
           \/ \E u \in Wishers :
                \/ GetWishlist(s, u)
                \/ \E p \in WishProducts, item \in Wish : FindList(s, u, p, item)
           \/ \E l \in Lists, p \in WishProducts :
                LoadForRemove(s, l, p) \/ \E item \in Wish : EditWish(s, l, p, item)
           \/ FindWish(s)
           \/ \E p \in WishProducts, old, new \in Prices : ReadWatchers(s, p, old, new)
    PROVE  WishInv'
<1>1. /\ wish \in [Lists \X WishProducts -> Wish \cup {None}] /\ alerts \subseteq Alert
      /\ priceNews \in 0..MaxPriceNews
  BY DEF WishInv, WishlistTypeOK
<1>2. ASSUME NEW q \in AnyWishReq, Step(s, q), ListsKnown(q),
             \A u \in Wishers : MakesFor(q, u) => MakesFor(wishReq[s], u)
      PROVE  WishInv'
  BY <1>1, <1>2, WishStep DEF Step
<1>3. ASSUME NEW u \in Wishers, GetWishlist(s, u)
      PROVE  WishInv'
  <2>. DEFINE q == [pc |-> "get", u |-> u]
  <2>1. q \in AnyWishReq /\ ListsKnown(q) /\ \A v \in Wishers : MakesFor(q, v) => v = u
    BY DEF AnyWishReq, GetReq, ListsKnown, MakesFor
  <2>2. FindNone(s, u, q)
    BY <1>3 DEF GetWishlist
  <2>. HIDE DEF q
  <2>. QED BY <2>1, <2>2, FindNoneStep
<1>4. ASSUME NEW u \in Wishers, NEW p \in WishProducts, NEW item \in Wish, FindList(s, u, p, item)
      PROVE  WishInv'
  <2>1. ASSUME NEW l \in ListsOf(u),
               Step(s, [pc |-> "found", u |-> u, l |-> l, p |-> p, item |-> item])
        PROVE  WishInv'
    <3>. DEFINE q == [pc |-> "found", u |-> u, l |-> l, p |-> p, item |-> item]
    <3>1. l \in Lists /\ l # None /\ listOf[l] # None
      BY NoListAssumption DEF ListsOf
    <3>2. q \in AnyWishReq /\ ListsKnown(q) /\ \A v \in Wishers : ~MakesFor(q, v)
      BY <3>1 DEF AnyWishReq, AddReq, ListsKnown, MakesFor
    <3>3. Step(s, q)
      BY <2>1
    <3>. HIDE DEF q
    <3>. QED BY <1>2, <3>2, <3>3
  <2>2. ASSUME FindNone(s, u, [pc |-> "found", u |-> u, l |-> None, p |-> p, item |-> item])
        PROVE  WishInv'
    <3>. DEFINE q == [pc |-> "found", u |-> u, l |-> None, p |-> p, item |-> item]
    <3>1. q \in AnyWishReq /\ ListsKnown(q) /\ \A v \in Wishers : MakesFor(q, v) => v = u
      BY DEF AnyWishReq, AddReq, ListsKnown, MakesFor
    <3>2. FindNone(s, u, q)
      BY <2>2
    <3>. HIDE DEF q
    <3>. QED BY <3>1, <3>2, FindNoneStep
  <2>. QED BY <1>4, <2>1, <2>2 DEF FindList
<1>5. ASSUME NEW l \in Lists, NEW p \in WishProducts, LoadForRemove(s, l, p)
      PROVE  WishInv'
  <2>. DEFINE q == [pc |-> "remove", l |-> l, p |-> p]
  <2>1. q \in AnyWishReq /\ ListsKnown(q) /\ \A v \in Wishers : ~MakesFor(q, v)
    BY DEF AnyWishReq, RemoveReq, ListsKnown, MakesFor
  <2>2. Step(s, q)
    BY <1>5 DEF LoadForRemove
  <2>. HIDE DEF q
  <2>. QED BY <1>2, <2>1, <2>2
<1>6. ASSUME NEW l \in Lists, NEW p \in WishProducts, NEW item \in Wish, EditWish(s, l, p, item)
      PROVE  WishInv'
  <2>. DEFINE q == [pc |-> "edit", l |-> l, p |-> p, read |-> wish[l, p], item |-> item]
  <2>1. wish[l, p] \in Wish
    BY <1>1, <1>6 DEF EditWish
  <2>2. q \in AnyWishReq /\ ListsKnown(q) /\ \A v \in Wishers : ~MakesFor(q, v)
    BY <2>1 DEF AnyWishReq, EditReq, ListsKnown, MakesFor
  <2>3. Step(s, q)
    BY <1>6 DEF EditWish
  <2>. HIDE DEF q
  <2>. QED BY <1>2, <2>2, <2>3
<1>7. CASE FindWish(s)
  <2>1. PICK q \in AddReq : q = wishReq[s] /\ q.pc = "found" /\ ListsKnown(q)
    BY <1>7, WishReqKinds DEF FindWish, WishInv, WishlistTypeOK, AnyWishReq
  <2>. DEFINE add == [q EXCEPT !.pc = "add"]
  <2>2. /\ add \in AnyWishReq /\ add.u = q.u /\ add.l = q.l /\ add.pc = "add"
    BY DEF AnyWishReq, AddReq
  <2>. HIDE DEF add
  <2>3. ListsKnown(add) /\ \A u \in Wishers : MakesFor(add, u) => MakesFor(q, u)
    BY <2>1, <2>2 DEF ListsKnown, MakesFor
  <2>4. Step(s, Idle) \/ Step(s, add)
    BY <1>7, <2>1 DEF FindWish, add
  <2>. QED BY <1>2, <2>1, <2>2, <2>3, <2>4, IdleWishes
<1>8. ASSUME NEW p \in WishProducts, NEW old \in Prices, NEW new \in Prices,
             ReadWatchers(s, p, old, new)
      PROVE  WishInv'
  <2>. DEFINE items == [l \in Lists |-> wish[l, p]]
              q == [pc |-> "news", p |-> p, old |-> old, new |-> new, items |-> items]
  <2>1. items \in [Lists -> Wish \cup {None}]
        /\ \A l \in Lists : items[l] # None => listOf[l] # None
    BY <1>1 DEF WishInv, WishesAreListed
  <2>2. /\ wishReq' = [wishReq EXCEPT ![s] = q] /\ priceNews' = priceNews + 1
        /\ priceNews < MaxPriceNews /\ UNCHANGED <<listOf, wish, alerts, wishRaced>>
    BY <1>8 DEF ReadWatchers
  <2>. HIDE DEF items
  <2>3. q \in AnyWishReq /\ ListsKnown(q) /\ \A v \in Wishers : ~MakesFor(q, v)
    BY <2>1 DEF AnyWishReq, NewsReq, ListsKnown, MakesFor
  <2>4. priceNews' \in 0..MaxPriceNews
    BY <1>1, <2>2, WishlistAssumption
  <2>. HIDE DEF q
  <2>. QED BY <1>1, <2>2, <2>3, <2>4, WishStep
<1>. QED BY <1>3, <1>4, <1>5, <1>6, <1>7, <1>8

LEMMA WritingsOfWishes ==
    ASSUME WishInv, NEW s \in Sessions,
           \/ \E l \in Lists : InsertWishlist(s, l)
           \/ InsertWish(s) \/ SaveWish(s) \/ RemoveWish(s) \/ InsertAlerts(s)
    PROVE  WishInv'
<1>1. /\ wish \in [Lists \X WishProducts -> Wish \cup {None}] /\ alerts \subseteq Alert
      /\ priceNews \in 0..MaxPriceNews /\ listOf \in [Lists -> Wishers \cup {None}]
  BY DEF WishInv, WishlistTypeOK
<1>2. PICK q \in AnyWishReq : q = wishReq[s] /\ ListsKnown(q)
  BY DEF WishInv, WishlistTypeOK, AnyWishReq
<1>3. ASSUME NEW l \in Lists, InsertWishlist(s, l)
      PROVE  WishInv'
  <2>1. q \in GetReq /\ q.pc = "get"
    BY <1>2, <1>3, WishReqKinds DEF InsertWishlist
  <2>2. q.u \in Wishers /\ MakesFor(q, q.u)
    BY <2>1 DEF GetReq, MakesFor
  <2>. QED BY <1>1, <1>2, <1>3, <2>2, NewListStep DEF InsertWishlist
<1>4. CASE InsertWish(s)
  <2>1. q \in AddReq /\ q.pc = "add"
    BY <1>2, <1>4, WishReqKinds DEF InsertWish
  <2>2. q.u \in Wishers /\ q.p \in WishProducts /\ q.item \in Wish /\ q.l \in Lists \cup {None}
    BY <2>1 DEF AddReq
  <2>3. wishReq' = [wishReq EXCEPT ![s] = Idle] /\ UNCHANGED <<alerts, priceNews, wishRaced>>
    BY <1>4 DEF InsertWish
  <2>4. ASSUME q.l = None, NEW l \in Lists, NewList(l, q.u),
               wish' = [wish EXCEPT ![<<l, q.p>>] = q.item]
        PROVE  WishInv'
    <3>1. MakesFor(q, q.u)
      BY <2>1, <2>4 DEF MakesFor
    <3>2. /\ wish' \in [Lists \X WishProducts -> Wish \cup {None}]
          /\ \A k \in Lists, p \in WishProducts : k # l => wish'[k, p] = wish[k, p]
      BY <1>1, <2>2, <2>4
    <3>. QED BY <1>2, <2>2, <2>3, <2>4, <3>1, <3>2, NewListStep
  <2>5. ASSUME q.l # None, wish' = [wish EXCEPT ![<<q.l, q.p>>] = IF @ = None THEN q.item ELSE @],
               UNCHANGED listOf
        PROVE  WishInv'
    <3>1. listOf[q.l] # None /\ q.l \in Lists
      BY <1>2, <2>1, <2>2, <2>5 DEF ListsKnown
    <3>2. /\ wish' \in [Lists \X WishProducts -> Wish \cup {None}]
          /\ \A k \in Lists, p \in WishProducts : k # q.l => wish'[k, p] = wish[k, p]
      BY <1>1, <2>2, <2>5, <3>1
    <3>. QED BY <1>1, <2>3, <2>5, <3>1, <3>2, IdleWishes, WishStep
  <2>. QED BY <1>2, <1>4, <2>4, <2>5 DEF InsertWish
<1>5. CASE SaveWish(s)
  <2>1. q \in EditReq
    BY <1>2, <1>5, WishReqKinds DEF SaveWish
  <2>2. q.l \in Lists /\ q.p \in WishProducts /\ q.read \in Wish /\ q.item \in Wish
    BY <2>1 DEF EditReq
  <2>3. PICK new : new = IF wish[q.l, q.p] = None THEN wish[q.l, q.p]
                         ELSE Flush(wish[q.l, q.p], q.read, q.item)
    OBVIOUS
  <2>4. new \in Wish \cup {None} /\ (wish[q.l, q.p] = None => new = None)
    BY <1>1, <2>2, <2>3, WishFlush
  <2>5. /\ wish' = [wish EXCEPT ![<<q.l, q.p>>] = new] /\ wishReq' = [wishReq EXCEPT ![s] = Idle]
        /\ UNCHANGED <<listOf, alerts, priceNews, wishRaced>>
    BY <1>2, <1>5, <2>3 DEF SaveWish
  <2>6. /\ wish' \in [Lists \X WishProducts -> Wish \cup {None}]
        /\ \A k \in Lists, p \in WishProducts : wish'[k, p] # None => wish[k, p] # None
    BY <1>1, <2>2, <2>4, <2>5
  <2>. QED BY <1>1, <2>5, <2>6, IdleWishes, WishStep
<1>6. CASE RemoveWish(s)
  <2>1. q \in RemoveReq
    BY <1>2, <1>6, WishReqKinds DEF RemoveWish
  <2>2. /\ wish' \in [Lists \X WishProducts -> Wish \cup {None}]
        /\ \A k \in Lists, p \in WishProducts : wish'[k, p] # None => wish[k, p] # None
    BY <1>1, <1>2, <1>6, <2>1 DEF RemoveWish, RemoveReq
  <2>. QED BY <1>1, <1>6, <2>2, IdleWishes, WishStep DEF RemoveWish
<1>7. CASE InsertAlerts(s)
  <2>1. q \in NewsReq /\ q.pc = "news"
    BY <1>2, <1>7, WishReqKinds DEF InsertAlerts
  <2>2. ASSUME NEW l \in Lists, q.items[l] # None
        PROVE  AlertFor(l, q) \in Alert
    <3>1. listOf[l] \in Wishers
      BY <1>1, <1>2, <2>1, <2>2 DEF ListsKnown
    <3>. QED BY <2>1, <3>1 DEF AlertFor, Alert, NewsReq
  <2>3. alerts' \subseteq Alert
    BY <1>1, <1>2, <1>7, <2>2 DEF InsertAlerts
  <2>. QED BY <1>1, <1>7, <2>3, IdleWishes, WishStep DEF InsertAlerts
<1>. QED BY <1>3, <1>4, <1>5, <1>6, <1>7

WatchStep ==
    \A s \in Sessions : wishReq[s].pc = "news" /\ wishReq'[s] = Idle =>
      LET q == wishReq[s]
      IN  \A l \in Lists :
            /\ wish[l, q.p] # None /\ wish[l, q.p] = q.items[l]
            /\ wish[l, q.p].notify
            /\ wish[l, q.p].target \in Prices => wish[l, q.p].target >= q.new
            => AlertFor(l, q) \in alerts'

LEMMA WatchersStep ==
    ASSUME WishInv, WishlistNext
    PROVE  WatchStep
<1>. SUFFICES ASSUME NEW s \in Sessions, wishReq[s].pc = "news", wishReq'[s] = Idle,
                     NEW l \in Lists, wish[l, wishReq[s].p] # None,
                     wish[l, wishReq[s].p] = wishReq[s].items[l],
                     wish[l, wishReq[s].p].notify,
                     wish[l, wishReq[s].p].target \in Prices
                       => wish[l, wishReq[s].p].target >= wishReq[s].new
              PROVE  AlertFor(l, wishReq[s]) \in alerts'
  BY DEF WatchStep
<1>1. PICK q \in NewsReq : q = wishReq[s]
  BY WishReqKinds DEF WishInv, WishlistTypeOK, AnyWishReq
<1>2. q.pc = "news" /\ Idle.pc = "idle"
  BY DEF NewsReq, Idle
<1>3. InsertAlerts(s)
  <2>1. PICK r \in Sessions :
          \/ \E u \in Wishers :
               \/ GetWishlist(r, u)
               \/ \E p \in WishProducts, item \in Wish : FindList(r, u, p, item)
          \/ \E k \in Lists :
               \/ InsertWishlist(r, k)
               \/ \E p \in WishProducts :
                    LoadForRemove(r, k, p) \/ \E item \in Wish : EditWish(r, k, p, item)
          \/ FindWish(r) \/ InsertWish(r) \/ SaveWish(r) \/ RemoveWish(r) \/ InsertAlerts(r)
          \/ \E p \in WishProducts, old, new \in Prices : ReadWatchers(r, p, old, new)
    BY DEF WishlistNext
  <2>2. \E x : wishReq' = [wishReq EXCEPT ![r] = x]
    BY <2>1 DEF GetWishlist, FindNone, FindList, Step, InsertWishlist, LoadForRemove, EditWish,
                FindWish, InsertWish, SaveWish, RemoveWish, InsertAlerts, ReadWatchers
  <2>3. r = s
    BY <1>1, <1>2, <2>2 DEF WishInv, WishlistTypeOK
  <2>. QED BY <1>1, <1>2, <2>1, <2>3
       DEF GetWishlist, FindNone, FindList, Step, InsertWishlist, LoadForRemove, EditWish,
           FindWish, InsertWish, SaveWish, RemoveWish, ReadWatchers
<1>4. q.p \in WishProducts /\ q.items \in [Lists -> Wish \cup {None}]
  BY DEF NewsReq
<1>5. q.items[l] # None /\ Wanted(q.items[l], q.new)
  <2>1. q.items[l] \in Wish
    BY <1>1, <1>4
  <2>2. q.items[l].target # None => q.items[l].target \in Prices
    BY <2>1 DEF Wish
  <2>. QED BY <1>1, <2>1, <2>2, WishlistAssumption DEF Wanted, NewsReq
<1>. QED BY <1>1, <1>3, <1>5 DEF InsertAlerts

LEMMA WishInvImplies == WishInv => WishlistTypeOK /\ OneListUnlessRaced
<1>. SUFFICES ASSUME WishInv, NEW u \in Wishers \ wishRaced
     PROVE  /\ Cardinality(ListsOf(u)) <= 1
            /\ \A p \in WishProducts : Cardinality({l \in ListsOf(u) : wish[l, p] # None}) <= 1
  BY DEF WishInv, OneListUnlessRaced
<1>1. ASSUME NEW S, \A k, l \in S : k = l
      PROVE  Cardinality(S) <= 1
  <2>1. CASE S = {}
    BY <2>1, FS_EmptySet
  <2>2. CASE S # {}
    <3>1. PICK l : S = {l}
      BY <1>1, <2>2
    <3>2. Cardinality({l}) = 1
      BY FS_Singleton
    <3>. QED BY <3>1, <3>2
  <2>. QED BY <2>1, <2>2
<1>2. \A k, l \in ListsOf(u) : k = l
  BY DEF WishInv, OneMaker
<1>. QED BY <1>1, <1>2

\* A user whose first requests did not overlap has one list, with a product at most once in it,
\* and who watches a product hears of its price: wishlist-service.
THEOREM WishlistsAreSafe == WishlistSpec => WishlistSafety
<1>1. WishlistInit => WishInv
  <2>. SUFFICES ASSUME WishlistInit PROVE WishInv
    OBVIOUS
  <2>0. WishesAreListed
    BY DEF WishlistInit, WishesAreListed
  <2>1. WishlistTypeOK
    BY WishlistAssumption DEF WishlistInit, WishlistTypeOK
  <2>2. \A s \in Sessions : ListsKnown(wishReq[s])
    BY IdleWishes DEF WishlistInit
  <2>3. \A u \in Wishers : OneMaker(u)
    <3>1. \A u \in Wishers : ListsOf(u) = {} /\ Making(u) = {}
      BY NoListAssumption, IdleWishes, MakingIs DEF WishlistInit, ListsOf
    <3>. QED BY <3>1 DEF OneMaker
  <2>. QED BY <2>0, <2>1, <2>2, <2>3 DEF WishInv
<1>2. WishInv /\ UNCHANGED wishVars => WishInv'
  <2>. SUFFICES ASSUME WishInv, UNCHANGED wishVars PROVE WishInv'
    OBVIOUS
  <2>1. WishlistTypeOK' /\ WishesAreListed'
    BY DEF WishInv, WishlistTypeOK, WishesAreListed, wishVars
  <2>2. \A s \in Sessions : ListsKnown(wishReq[s])'
    BY DEF WishInv, ListsKnown, wishVars
  <2>3. \A u \in Wishers \ wishRaced : OneMaker(u)'
    BY DEF WishInv, OneMaker, ListsOf, Making, wishVars
  <2>. QED BY <2>1, <2>2, <2>3 DEF WishInv, wishVars
<1>3. WishInv /\ WishlistNext => WishInv'
  BY ReadingsOfWishes, WritingsOfWishes DEF WishlistNext
<1>4. WishInv /\ [WishlistNext]_wishVars =>
        /\ WishInv'
        /\ [\A s \in Sessions : wishReq[s].pc = "news" /\ wishReq'[s] = Idle =>
              LET q == wishReq[s]
              IN  \A l \in Lists :
                    /\ wish[l, q.p] # None /\ wish[l, q.p] = q.items[l]
                    /\ wish[l, q.p].notify
                    /\ wish[l, q.p].target \in Prices => wish[l, q.p].target >= q.new
                    => AlertFor(l, q) \in alerts']_wishVars
  BY <1>2, <1>3, WatchersStep DEF WatchStep
<1>. QED BY <1>1, <1>4, WishInvImplies, PTL DEF WishlistSpec, WishlistSafety, WatchersAreTold
=============================================================================
