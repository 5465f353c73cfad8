------------------------- MODULE AuthSessionsProofs -------------------------
(***************************************************************************)
(* For any accounts, sessions, tokens, requests and checks, with or        *)
(* without faults: an account has one active session, refresh tokens form  *)
(* a chain, a revocation without overlap takes effect at once, and the     *)
(* transactions implement the atomic operations of SessionRegistry.        *)
(***************************************************************************)
EXTENDS AuthSessions, FiniteSetTheorems, TLAPS

USE SessionsAssumption

-----------------------------------------------------------------------------
(* The inductive invariant                                                 *)

\* A row of auth_sessions names an account and the token it was given last.
RowsOK ==
  \A s \in Sessions : session[s].state # "absent" =>
    /\ session[s].user \in Users /\ session[s].token \in Tokens
    /\ token[session[s].token].session = s
    /\ Active(s) => session[s].reason = None

\* A token that was not issued has nothing; one that was belongs to a session
\* that exists, and is used unless it is the session's token.
TokensOK ==
  \A t \in Tokens :
    /\ token[t].session = None => token[t].parent = None /\ ~token[t].used
    /\ token[t].session # None =>
         /\ session[token[t].session].state # "absent"
         /\ token[t].used <=> session[token[t].session].token # t

\* A rotation has used the token it rotated, and no other rotation has it.
ParentsOK ==
  \A t \in Tokens : token[t].parent # None =>
    /\ token[token[t].parent].used
    /\ \A x \in Tokens : token[t].parent = token[x].parent => t = x

AtMostOne == \A u \in Users : \A s, x \in ActiveSessions(u) : s = x

KnownIssued == \A t \in known : token[t].session # None

StepsOf(op) ==
  CASE op = "none" -> {"idle"}
    [] op = "login" -> {"lock", "commit", "purge", "fill"}
    [] op = "revokeAll" -> {"lock", "commit", "purge"}
    [] op = "refresh" -> {"history", "active", "preread", "lock", "commit",
                          "fill", "refused"}
    [] op = "reuse" -> {"preread", "lock", "commit", "purge"}
    [] op = "logout" -> {"find", "preread", "lock", "commit", "purge"}

\* Which fields a request has at its step.
StepFits(r) ==
  /\ req[r].at \in StepsOf(req[r].op)
  /\ At(r, "idle") => req[r] = NoRequest
  /\ ~At(r, "commit") => req[r].seen = {}
  /\ ~At(r, "purge") => req[r].todo = {}
  /\ req[r].op \in {"reuse", "logout"} => req[r].todo \subseteq {req[r].session}
  /\ req[r].op \in {"login", "revokeAll"} => req[r].user \in Users

\* The session of a request exists and has the request's account.
Mine(r) ==
  /\ req[r].session \in Sessions
  /\ session[req[r].session].state # "absent"
  /\ session[req[r].session].user = req[r].user

\* What a request knows of the session and the tokens it works for.
Knows(r) ==
  /\ req[r].op = "refresh" \/ At(r, "find") =>
       req[r].token \in Tokens /\ token[req[r].token].session # None
  /\ req[r].op \in {"refresh", "reuse", "logout"} =>
       At(r, "history") \/ At(r, "find") \/ Mine(r)
  /\ req[r].op = "refresh" /\ ~At(r, "history") =>
       token[req[r].token].session = req[r].session
  /\ req[r].op = "reuse" =>
       \E t \in Tokens : token[t].session = req[r].session /\ token[t].used
  /\ req[r].op \in {"reuse", "logout"} /\ At(r, "purge") => Revoked(req[r].session)
  /\ req[r].op = "login" /\ req[r].at \in {"purge", "fill"} =>
       req[r].session \in Sessions
  /\ At(r, "fill") => /\ req[r].next \in Tokens
                      /\ token[req[r].next].session # None
  /\ req[r].op = "login" /\ At(r, "purge") =>
       /\ req[r].next \in Tokens /\ token[req[r].next].session # None

RequestsOK == \A r \in Requests : StepFits(r) /\ Knows(r)

\* A request between its lock and its commit holds the lock of its account, and
\* what it read under the lock is still so.
LocksOK ==
  /\ \A r \in Requests : At(r, "commit") =>
       lock[req[r].user] = r /\ req[r].seen = ReadUnderLock(r)
  /\ \A u \in Users : lock[u] # None => At(lock[u], "commit") /\ req[lock[u]].user = u

ChecksOK ==
  \A c \in Checks : check[c].at \in {"read", "fill"} => check[c].session \in Sessions

\* Who is about to write an entry of a revoked session overlapped its revocation.
FillsOK == \A s \in Sessions : Revoked(s) /\ BeingFilled(s) => s \in raced

Tables == RowsOK /\ TokensOK /\ ParentsOK /\ AtMostOne /\ KnownIssued

Inv ==
  /\ TypeOK /\ Tables /\ RequestsOK /\ LocksOK /\ ChecksOK
  /\ FillsOK /\ UndisturbedRevocationIsImmediate

-----------------------------------------------------------------------------
(* Type correctness                                                        *)

\* A request keeps its type when a step changes its fields within theirs.
LEMMA RequestType ==
  ASSUME TypeOK, NEW r \in Requests
  PROVE  /\ req[r] \in Request /\ NoRequest \in Request
         /\ \A q \in Request : [req EXCEPT ![r] = q] \in [Requests -> Request]
         /\ Finish(r) => req' \in [Requests -> Request]
         /\ Release(r) => lock' \in [Users -> Requests \cup {None}]
BY DEF TypeOK, Request, NoRequest, Finish, Release

\* What a request is for follows from the step it is at.
LEMMA OpOfStep ==
  ASSUME TypeOK, NEW r \in Requests, StepFits(r)
  PROVE  /\ req[r].at \in {"history", "active", "refused"} => req[r].op = "refresh"
         /\ At(r, "find") => req[r].op = "logout"
         /\ At(r, "preread") => req[r].op \in {"refresh", "reuse", "logout"}
         /\ At(r, "purge") => req[r].op \in {"login", "revokeAll", "reuse", "logout"}
         /\ At(r, "fill") => req[r].op \in {"login", "refresh"}
         /\ req[r].at \in {"lock", "commit"} =>
              req[r].op \in {"login", "revokeAll", "refresh", "reuse", "logout"}
         /\ req[r].op = "none" => At(r, "idle")
BY DEF TypeOK, Request, StepFits, StepsOf, At

\* Going on to a step keeps the types.
LEMMA GotoType ==
  ASSUME TypeOK, NEW r \in Requests,
         NEW step \in {"preread", "refused", "lock", "fill"}, Goto(r, step)
  PROVE  req' \in [Requests -> Request]
BY DEF TypeOK, Request, Goto

\* Requests and checks have fields of their types, whatever reads and locks
\* they have behind them.
LEMMA TypeStep ==
  ASSUME Inv, [Next]_vars
  PROVE  TypeOK'
<1>1. ASSUME NEW r \in Requests, Serve(r) PROVE TypeOK'
  <2> USE <1>1
  <2>0. TypeOK /\ StepFits(r) /\ Knows(r) /\ req[r] \in Request
    BY RequestType DEF Inv, RequestsOK
  <2>1. ASSUME NEW u \in Users, StartLogin(r, u) PROVE TypeOK'
    BY <2>0, <2>1 DEF StartLogin, TypeOK, Request, NoRequest
  <2>2. ASSUME NEW u \in Users, StartRevokeAll(r, u) PROVE TypeOK'
    BY <2>0, <2>2 DEF StartRevokeAll, TypeOK, Request, NoRequest
  <2>3. ASSUME NEW t \in Tokens, StartRefresh(r, t) PROVE TypeOK'
    BY <2>0, <2>3 DEF StartRefresh, TypeOK, Request, NoRequest
  <2>4. ASSUME NEW t \in Tokens, StartLogout(r, t) PROVE TypeOK'
    BY <2>0, <2>4 DEF StartLogout, TypeOK, Request, NoRequest
  <2>5. CASE FindHistory(r)
    <3>1. token[req[r].token].session \in Sessions
          /\ session[token[req[r].token].session].user \in Users
      BY <2>0, <2>5, OpOfStep DEF FindHistory, At, Knows, Inv, Tables, RowsOK,
                                  TokensOK, TypeOK, TokenRow
    <3> DEFINE t == req[r].token
               s == token[t].session
               q == [req[r] EXCEPT !.session = s, !.user = session[s].user]
               x == IF token[t].used
                      THEN [q EXCEPT !.op = "reuse", !.at = "preread", !.token = None]
                      ELSE [q EXCEPT !.at = "active"]
    <3>2. x \in Request
      <4>1. q \in Request
        BY <2>0, <3>1 DEF Request
      <4> HIDE DEF q
      <4> QED BY <4>1 DEF Request
    <3>3. req' = [req EXCEPT ![r] = x]
      BY <2>5 DEF FindHistory
    <3> HIDE DEF x
    <3>4. req' \in [Requests -> Request]
      BY <2>0, <3>2, <3>3, RequestType
    <3>5. UNCHANGED <<session, token, cache, lock, check, known, raced>>
      BY <2>5 DEF FindHistory
    <3> QED BY <2>0, <3>4, <3>5 DEF TypeOK
  <2>6. CASE FindActive(r)
    BY <2>0, <2>6, GotoType DEF FindActive, TypeOK
  <2>7. CASE FindSession(r)
    <3>1. token[req[r].token].session \in Sessions
          /\ session[token[req[r].token].session].user \in Users
      BY <2>0, <2>7, OpOfStep DEF FindSession, At, Knows, Inv, Tables, RowsOK, TokensOK,
                        TypeOK, TokenRow
    <3> DEFINE s == token[req[r].token].session
               q == [req[r] EXCEPT !.at = "preread", !.session = s,
                                   !.user = session[s].user, !.token = None]
    <3>2. q \in Request
      BY <2>0, <3>1 DEF Request
    <3>3. req' = [req EXCEPT ![r] = q] \/ Finish(r)
      BY <2>7 DEF FindSession
    <3> HIDE DEF q
    <3>4. req' \in [Requests -> Request]
      BY <2>0, <3>2, <3>3, RequestType
    <3> QED BY <2>0, <2>7, <3>4 DEF FindSession, TypeOK
  <2>8. CASE PreRead(r)
    <3>1. CASE Active(req[r].session) \/ req[r].op = "refresh"
      BY <2>0, <2>8, <3>1, GotoType DEF PreRead, TypeOK
    <3>2. CASE ~Active(req[r].session) /\ req[r].op # "refresh"
      <4>1. req[r].session \in Sessions
        BY <2>0, <2>8, <3>2, OpOfStep DEF PreRead, At, Knows, Mine
      <4>2. [req[r] EXCEPT !.at = "purge", !.todo = {req[r].session}] \in Request
        BY <2>0, <4>1 DEF Request
      <4>3. req' = [req EXCEPT ![r] =
                      [req[r] EXCEPT !.at = "purge", !.todo = {req[r].session}]]
        BY <2>0, <2>8, <3>2 DEF PreRead, TypeOK
      <4> QED BY <2>0, <2>8, <4>2, <4>3, RequestType DEF PreRead, TypeOK
    <3> QED BY <3>1, <3>2
  <2>9. CASE LockAccount(r)
    <3>1. ReadUnderLock(r) \subseteq Sessions
      BY <2>0, <2>9, OpOfStep
         DEF LockAccount, At, ReadUnderLock, ActiveSessions, Knows, Mine
    <3>2. [req[r] EXCEPT !.at = "commit", !.seen = ReadUnderLock(r)] \in Request
      BY <2>0, <3>1 DEF Request
    <3>3. req' = [req EXCEPT ![r] =
                    [req[r] EXCEPT !.at = "commit", !.seen = ReadUnderLock(r)]]
      BY <2>0, <2>9 DEF LockAccount, TypeOK
    <3>4. req' \in [Requests -> Request]
      BY <2>0, <3>2, <3>3, RequestType
    <3>5. lock' \in [Users -> Requests \cup {None}]
      BY <2>0, <2>9 DEF LockAccount, TypeOK
    <3>6. UNCHANGED <<session, token, cache, check, known, raced>>
      BY <2>9 DEF LockAccount
    <3> QED BY <2>0, <3>4, <3>5, <3>6 DEF TypeOK
  <2>10. ASSUME NEW s \in Sessions, NEW t \in Tokens, CommitLogin(r, s, t)
         PROVE  TypeOK'
    <3>1. req[r].user \in Users
      BY <2>0, <2>10 DEF CommitLogin, StepFits
    <3>2. session' \in [Sessions -> SessionRow]
      <4> SUFFICES ASSUME NEW x \in Sessions PROVE session'[x] \in SessionRow
        BY <2>0, <2>10 DEF CommitLogin, TypeOK
      <4>1. session[x] \in SessionRow
        BY <2>0 DEF TypeOK
      <4> QED BY <2>10, <3>1, <4>1 DEF CommitLogin, SessionRow, RevokedRow, Reasons
    <3>3. token' \in [Tokens -> TokenRow]
      BY <2>0, <2>10 DEF CommitLogin, TypeOK, TokenRow
    <3> DEFINE q == [req[r] EXCEPT !.at = "purge", !.session = s, !.next = t,
                                   !.seen = {}, !.todo = req[r].seen]
    <3>4. q \in Request
      BY <2>0 DEF Request
    <3>5. req' = [req EXCEPT ![r] = q]
      BY <2>0, <2>10 DEF CommitLogin, TypeOK
    <3> HIDE DEF q
    <3>6. raced' \subseteq Sessions
      BY <2>0, <2>10 DEF CommitLogin, NoteOverlap, TypeOK, Request
    <3>7. req' \in [Requests -> Request]
      BY <2>0, <3>4, <3>5, RequestType
    <3>8. lock' \in [Users -> Requests \cup {None}] /\ UNCHANGED <<cache, check, known>>
      BY <2>0, <2>10, RequestType DEF CommitLogin
    <3> QED BY <2>0, <3>2, <3>3, <3>6, <3>7, <3>8 DEF TypeOK
  <2>11. CASE CommitRevocation(r)
    <3>1. req[r].op \in {"reuse", "logout"} => req[r].session \in Sessions
      BY <2>0, <2>11, OpOfStep DEF CommitRevocation, At, Knows, Mine
    <3>2. session' \in [Sessions -> SessionRow]
      <4> SUFFICES ASSUME NEW x \in Sessions PROVE session'[x] \in SessionRow
        BY <2>0, <2>11 DEF CommitRevocation, TypeOK
      <4>1. session[x] \in SessionRow
        BY <2>0 DEF TypeOK
      <4> QED BY <2>11, <4>1
              DEF CommitRevocation, SessionRow, RevokedRow, Reason, Reasons
    <3> DEFINE q == [req[r] EXCEPT !.at = "purge", !.seen = {},
                       !.todo = IF req[r].op = "revokeAll" THEN req[r].seen
                                                           ELSE {req[r].session}]
    <3>3. q \in Request
      BY <2>0, <2>11, <3>1 DEF CommitRevocation, Request
    <3>4. req' = [req EXCEPT ![r] = q]
      BY <2>0, <2>11 DEF CommitRevocation, TypeOK
    <3> HIDE DEF q
    <3>5. raced' \subseteq Sessions
      BY <2>0, <2>11 DEF CommitRevocation, NoteOverlap, TypeOK, Request
    <3>6. req' \in [Requests -> Request]
      BY <2>0, <3>3, <3>4, RequestType
    <3>7. /\ lock' \in [Users -> Requests \cup {None}]
          /\ UNCHANGED <<token, cache, check, known>>
      BY <2>0, <2>11, RequestType DEF CommitRevocation
    <3> QED BY <2>0, <3>2, <3>5, <3>6, <3>7 DEF TypeOK
  <2>12. ASSUME NEW t \in Tokens, CommitRotation(r, t) PROVE TypeOK'
    <3>1. session' \in [Sessions -> SessionRow]
      BY <2>0, <2>12 DEF CommitRotation, TypeOK, SessionRow, Request
    <3>2. token' \in [Tokens -> TokenRow]
      <4>1. /\ req[r].token \in Tokens \cup {None}
            /\ req[r].session \in Sessions \cup {None}
        BY <2>0 DEF Request
      <4>2. \A x \in Tokens : [token[x] EXCEPT !.used = TRUE] \in TokenRow
        <5> SUFFICES ASSUME NEW x \in Tokens, token[x] \in TokenRow
                     PROVE  [token[x] EXCEPT !.used = TRUE] \in TokenRow
          BY <2>0 DEF TypeOK
        <5> QED BY DEF TokenRow
      <4>3. [session |-> req[r].session, used |-> FALSE, parent |-> req[r].token]
              \in TokenRow
        BY <4>1 DEF TokenRow
      <4>4. token' = [token EXCEPT
                        ![req[r].token] = [token[req[r].token] EXCEPT !.used = TRUE],
                        ![t] = [session |-> req[r].session, used |-> FALSE,
                                parent |-> req[r].token]]
        BY <2>12 DEF CommitRotation
      <4> QED BY <2>0, <4>2, <4>3, <4>4 DEF TypeOK
    <3>3. [req[r] EXCEPT !.at = "fill", !.next = t, !.seen = {}] \in Request
      BY <2>0 DEF Request
    <3>4. req' = [req EXCEPT ![r] = [req[r] EXCEPT !.at = "fill", !.next = t,
                                                   !.seen = {}]]
      BY <2>0, <2>12 DEF CommitRotation, TypeOK
    <3>5. req' \in [Requests -> Request]
      BY <2>0, <3>3, <3>4, RequestType
    <3>6. /\ lock' \in [Users -> Requests \cup {None}]
          /\ UNCHANGED <<cache, check, known, raced>>
      BY <2>0, <2>12, RequestType DEF CommitRotation
    <3> QED BY <2>0, <3>1, <3>2, <3>5, <3>6 DEF TypeOK
  <2>13. CASE RefuseRotation(r)
    BY <2>0, <2>13, RequestType, GotoType DEF RefuseRotation, TypeOK
  <2>14. ASSUME NEW s \in Sessions, PurgeCache(r, s) PROVE TypeOK'
    BY <2>0, <2>14
       DEF PurgeCache, DeleteEntry, NoteDeletion, TypeOK, Request
  <2>15. ASSUME NEW s \in Sessions, PurgeFails(r, s) PROVE TypeOK'
    BY <2>0, <2>15, RequestType DEF PurgeFails, TypeOK, Request
  <2>16. CASE PurgeDone(r)
    BY <2>0, <2>16, RequestType, GotoType DEF PurgeDone, TypeOK
  <2>17. CASE FillCache(r) \/ FillFails(r)
    <3>1. req[r].session \in Sessions /\ req[r].next \in Tokens
      BY <2>0, <2>17, OpOfStep DEF FillCache, FillFails, At, Knows, Mine
    <3> QED BY <2>0, <2>17, <3>1, RequestType DEF FillCache, FillFails, TypeOK
  <2>18. CASE AnswerRefused(r)
    BY <2>0, <2>18, RequestType DEF AnswerRefused, TypeOK
  <2>19. CASE RequestDies(r)
    BY <2>0, <2>19, RequestType DEF RequestDies, TypeOK, Request
  <2> QED
    BY <2>1, <2>2, <2>3, <2>4, <2>5, <2>6, <2>7, <2>8, <2>9, <2>10, <2>11,
       <2>12, <2>13, <2>14, <2>15, <2>16, <2>17, <2>18, <2>19 DEF Serve
<1>2. ASSUME NEW c \in Checks, Authenticate(c) PROVE TypeOK'
  BY <1>2
     DEF Authenticate, CheckHit, CheckMiss, CheckRead, CheckFill, CheckEnds,
         CheckAt, CheckGoto, Inv, ChecksOK, TypeOK, Check, NoCheck
<1>3. ASSUME NEW s \in Sessions, Evict(s) PROVE TypeOK'
  BY <1>3 DEF Evict, DeleteEntry, NoteDeletion, Inv, TypeOK
<1>4. CASE UNCHANGED vars
  BY <1>4 DEF vars, Inv, TypeOK
<1> QED BY <1>1, <1>2, <1>3, <1>4 DEF Next
-----------------------------------------------------------------------------
(* What the transactions do to the tables                                  *)

\* Sessions and tokens only move forward.
Grows ==
  /\ \A s \in Sessions : session[s].state # "absent" =>
       session'[s].state # "absent" /\ session'[s].user = session[s].user
  /\ \A s \in Sessions : Revoked(s) => Revoked(s)'
  /\ \A t \in Tokens : token[t].session # None =>
       token'[t].session = token[t].session
  /\ \A t \in Tokens : token[t].used => token'[t].used

\* No session and no token of another account changes.
TouchesOnly(u) ==
  /\ \A s \in Sessions : session'[s] # session[s] =>
       session'[s].user = u /\ (session[s].user = u \/ session[s].state = "absent")
  /\ \A t \in Tokens : token'[t] # token[t] /\ token[t].session # None =>
       session[token[t].session].user = u

\* What a request has read when it commits, by what it is for.
LEMMA SeenAtCommit ==
  ASSUME Inv, NEW r \in Requests, At(r, "commit")
  PROVE  /\ req[r].op \in {"login", "revokeAll"} =>
              req[r].seen = ActiveSessions(req[r].user)
         /\ req[r].op \in {"reuse", "logout"} =>
              req[r].seen = {req[r].session} \cap ActiveSessions(req[r].user)
         /\ req[r].op = "refresh" /\ req[r].seen # {} =>
              RotationAllowed(req[r].session, req[r].token)
BY DEF Inv, LocksOK, ReadUnderLock

\* Steps that write neither table keep what is true of them.
LEMMA QuietTables ==
  ASSUME Tables, UNCHANGED <<session, token>>,
         \A t \in known' : token[t].session # None
  PROVE  Tables' /\ Grows /\ \A u : TouchesOnly(u)
BY DEF Tables, RowsOK, TokensOK, ParentsOK, AtMostOne, KnownIssued, Grows,
       TouchesOnly, Active, Revoked, ActiveSessions

\* A login leaves its account with the session it has begun and no other.
LEMMA LoginTables ==
  ASSUME Inv, NEW r \in Requests, NEW s \in Sessions, NEW t \in Tokens,
         CommitLogin(r, s, t)
  PROVE  Tables' /\ Grows /\ TouchesOnly(req[r].user)
<1>0. /\ TypeOK /\ Tables /\ StepFits(r) /\ req[r].user \in Users
      /\ req[r].seen = ActiveSessions(req[r].user)
  BY SeenAtCommit DEF Inv, RequestsOK, CommitLogin, StepFits
<1>1. s \notin req[r].seen /\ session[s].state = "absent"
      /\ token[t].session = None /\ token[t].parent = None /\ ~token[t].used
  BY <1>0 DEF CommitLogin, ActiveSessions, Active, Tables, TokensOK
<1>2. \A x \in Sessions :
        session'[x] = IF x = s THEN [state |-> "active", user |-> req[r].user,
                                     token |-> t, reason |-> None]
                      ELSE IF x \in req[r].seen THEN RevokedRow(x, "NEW_LOGIN")
                      ELSE session[x]
  BY DEF CommitLogin
<1>3. \A x \in Sessions : x # s =>
        /\ session'[x].user = session[x].user /\ session'[x].token = session[x].token
        /\ session'[x].state = IF x \in req[r].seen THEN "revoked" ELSE session[x].state
        /\ x \notin req[r].seen => session'[x] = session[x]
  <2> TAKE x \in Sessions
  <2>1. session[x] \in SessionRow
    BY <1>0 DEF TypeOK
  <2>2. x # s => session'[x] =
          IF x \in req[r].seen
            THEN [session[x] EXCEPT !.state = "revoked", !.reason = "NEW_LOGIN"]
            ELSE session[x]
    BY <1>2 DEF RevokedRow
  <2> QED BY <2>1, <2>2 DEF SessionRow
<1>4. /\ \A x \in Tokens : x # t => token'[x] = token[x]
      /\ token'[t].session = s /\ token'[t].parent = None /\ ~token'[t].used
  <2>1. token[t] \in TokenRow
    BY <1>0 DEF TypeOK
  <2>2. token' = [token EXCEPT ![t] = [token[t] EXCEPT !.session = s]]
    BY DEF CommitLogin
  <2> QED BY <1>0, <1>1, <2>1, <2>2 DEF TypeOK, TokenRow
<1>5. /\ session'[s].state = "active" /\ session'[s].user = req[r].user
      /\ session'[s].token = t /\ session'[s].reason = None
  BY <1>2
<1>6. RowsOK'
  <2> SUFFICES ASSUME NEW x \in Sessions, session'[x].state # "absent"
               PROVE  /\ session'[x].user \in Users /\ session'[x].token \in Tokens
                      /\ token'[session'[x].token].session = x
                      /\ session'[x].state = "active" => session'[x].reason = None
    BY DEF RowsOK, Active
  <2>1. CASE x = s
    BY <1>0, <1>4, <1>5, <2>1
  <2>2. CASE x # s
    <3>1. session[x].state # "absent"
      BY <1>0, <1>3, <2>2 DEF ActiveSessions, Active
    <3>2. /\ session[x].user \in Users /\ session[x].token \in Tokens
          /\ token[session[x].token].session = x
          /\ session[x].state = "active" => session[x].reason = None
      BY <1>0, <3>1 DEF Tables, RowsOK, Active
    <3>3. session[x].token # t
      BY <1>1, <3>2
    <3> QED BY <1>3, <1>4, <2>2, <3>2, <3>3
  <2> QED BY <2>1, <2>2
<1>7. TokensOK'
  BY <1>0, <1>1, <1>3, <1>4, <1>5 DEF TokensOK, RowsOK, Tables, TypeOK, TokenRow
<1>8. ParentsOK'
  BY <1>0, <1>1, <1>4 DEF ParentsOK, Tables, TypeOK, TokenRow
<1>9. AtMostOne'
  BY <1>0, <1>3, <1>5 DEF AtMostOne, ActiveSessions, Active, Tables, TypeOK,
                          SessionRow
<1>10. KnownIssued'
  BY <1>0, <1>4 DEF KnownIssued, Tables, TypeOK, CommitLogin
<1>11. Grows
  BY <1>0, <1>1, <1>3, <1>4, <1>5 DEF Grows, Revoked
<1>12. TouchesOnly(req[r].user)
  BY <1>0, <1>1, <1>3, <1>4, <1>5 DEF TouchesOnly, ActiveSessions
<1> QED BY <1>6, <1>7, <1>8, <1>9, <1>10, <1>11, <1>12 DEF Tables

\* A revocation ends active sessions of its account and gives out no token.
LEMMA RevocationTables ==
  ASSUME Inv, NEW r \in Requests, CommitRevocation(r)
  PROVE  /\ Tables' /\ Grows /\ TouchesOnly(req[r].user)
         /\ \A s \in Sessions : Revoked(s)' => Revoked(s) \/ s \in req[r].seen
         /\ \A s \in req[r].seen : Revoked(s)'
<1>0. /\ TypeOK /\ Tables /\ req[r].seen \subseteq ActiveSessions(req[r].user)
  BY SeenAtCommit DEF Inv, CommitRevocation
<1>1. \A x \in Sessions :
        /\ session'[x].user = session[x].user /\ session'[x].token = session[x].token
        /\ session'[x].state = IF x \in req[r].seen THEN "revoked" ELSE session[x].state
        /\ x \notin req[r].seen => session'[x] = session[x]
  <2> TAKE x \in Sessions
  <2>1. session[x] \in SessionRow
    BY <1>0 DEF TypeOK
  <2>2. session'[x] = IF x \in req[r].seen
                        THEN [session[x] EXCEPT !.state = "revoked",
                                                !.reason = Reason(req[r].op)]
                        ELSE session[x]
    BY DEF CommitRevocation, RevokedRow
  <2> QED BY <2>1, <2>2 DEF SessionRow
<1>2. token' = token /\ known' = known
  BY DEF CommitRevocation
<1>3. \A x \in req[r].seen : session[x].state = "active" /\ session[x].user = req[r].user
                             /\ x \in Sessions
  BY <1>0 DEF ActiveSessions, Active
<1>4. RowsOK'
  BY <1>0, <1>1, <1>2, <1>3 DEF RowsOK, Active, Tables
<1>41. TokensOK' /\ ParentsOK' /\ KnownIssued'
  <2>1. \A x \in Tokens : token[x].session \in Sessions \cup {None}
    BY <1>0 DEF TypeOK, TokenRow
  <2> QED BY <1>0, <1>1, <1>2, <1>3, <2>1
          DEF TokensOK, ParentsOK, KnownIssued, Tables
<1>5. AtMostOne'
  BY <1>0, <1>1 DEF AtMostOne, ActiveSessions, Active, Tables
<1>6. Grows /\ TouchesOnly(req[r].user)
  BY <1>1, <1>2, <1>3 DEF Grows, TouchesOnly, Revoked
<1> QED BY <1>1, <1>3, <1>4, <1>41, <1>5, <1>6 DEF Tables, Revoked

\* A rotation uses the current token of an active session and replaces it.
LEMMA RotationTables ==
  ASSUME Inv, NEW r \in Requests, NEW t \in Tokens, CommitRotation(r, t)
  PROVE  /\ Tables' /\ Grows /\ TouchesOnly(req[r].user)
         /\ \A s \in Sessions : Revoked(s)' => Revoked(s)
<1> DEFINE s == req[r].session
           old == req[r].token
<1>0. /\ TypeOK /\ Tables /\ Knows(r)
      /\ RotationAllowed(s, old)
      /\ s \in Sessions /\ old \in Tokens /\ token[old].session = s
      /\ session[s].user = req[r].user /\ req[r].user \in Users
  BY SeenAtCommit DEF Inv, RequestsOK, CommitRotation, Knows, Mine, At, Tables, RowsOK
<1> HIDE DEF s, old
<1>1. /\ session[s].state = "active" /\ session[s].token = old /\ ~token[old].used
      /\ token[t].session = None /\ token[t].parent = None /\ ~token[t].used
      /\ t # old
  BY <1>0 DEF RotationAllowed, Active, CommitRotation, Tables, TokensOK
<1>2. /\ \A x \in Sessions : x # s => session'[x] = session[x]
      /\ session'[s].state = "active" /\ session'[s].user = req[r].user
      /\ session'[s].token = t /\ session'[s].reason = None
  BY <1>0 DEF CommitRotation, TypeOK, s
<1>3. /\ \A x \in Tokens : x \notin {t, old} => token'[x] = token[x]
      /\ token'[old].session = s /\ token'[old].parent = token[old].parent
      /\ token'[old].used
      /\ token'[t].session = s /\ token'[t].parent = old /\ ~token'[t].used
  <2>1. token[old] \in TokenRow
    BY <1>0 DEF TypeOK
  <2>2. token' = [token EXCEPT ![old] = [token[old] EXCEPT !.used = TRUE],
                    ![t] = [session |-> s, used |-> FALSE, parent |-> old]]
    BY DEF CommitRotation, s, old
  <2>3. token'[t] = [session |-> s, used |-> FALSE, parent |-> old]
    BY <1>0, <2>2 DEF TypeOK
  <2>4. token'[old] = [token[old] EXCEPT !.used = TRUE]
    BY <1>0, <1>1, <2>2 DEF TypeOK
  <2>5. \A x \in Tokens : x \notin {t, old} => token'[x] = token[x]
    BY <1>0, <2>2 DEF TypeOK
  <2> QED BY <1>0, <2>1, <2>3, <2>4, <2>5 DEF TokenRow
<1>4. \A x \in Tokens : /\ token[x].session \in Sessions \cup {None}
                       /\ token[x].parent \in Tokens \cup {None}
  BY <1>0 DEF TypeOK, TokenRow
<1>5. RowsOK'
  <2>1. \A x \in Sessions : session[x].state # "absent" => session[x].token # t
    BY <1>0, <1>1 DEF Tables, RowsOK
  <2> QED BY <1>0, <1>1, <1>2, <1>3, <2>1 DEF RowsOK, Active, Tables
<1>6. TokensOK'
  <2> SUFFICES ASSUME NEW x \in Tokens
               PROVE  /\ token'[x].session = None =>
                           token'[x].parent = None /\ ~token'[x].used
                      /\ token'[x].session # None =>
                           /\ session'[token'[x].session].state # "absent"
                           /\ token'[x].used
                                <=> session'[token'[x].session].token # x
    BY DEF TokensOK
  <2>1. CASE x \in {t, old}
    BY <1>0, <1>1, <1>2, <1>3, <2>1
  <2>2. CASE x \notin {t, old}
    BY <1>0, <1>1, <1>2, <1>3, <1>4, <2>2 DEF Tables, TokensOK
  <2> QED BY <2>1, <2>2
<1>7. ParentsOK'
  <2>1. \A x \in Tokens : token[x].parent \notin {old, t}
    BY <1>0, <1>1, <1>4 DEF Tables, ParentsOK
  <2> QED BY <1>0, <1>1, <1>3, <1>4, <2>1 DEF ParentsOK, Tables
<1>8. AtMostOne'
  BY <1>0, <1>1, <1>2 DEF AtMostOne, ActiveSessions, Active, Tables
<1>9. KnownIssued'
  BY <1>0, <1>3 DEF KnownIssued, Tables, TypeOK, CommitRotation
<1>10. Grows
  BY <1>0, <1>1, <1>2, <1>3, <1>4 DEF Grows, Revoked
<1>11. TouchesOnly(req[r].user)
  BY <1>0, <1>1, <1>2, <1>3, <1>4 DEF TouchesOnly
<1> QED BY <1>2, <1>5, <1>6, <1>7, <1>8, <1>9, <1>10, <1>11 DEF Tables, Revoked
-----------------------------------------------------------------------------
(* Requests                                                                *)

\* What a request knows stays true when another one moves.
LEMMA OthersKnow ==
  ASSUME TypeOK, Grows, NEW x \in Requests, StepFits(x), Knows(x), req'[x] = req[x]
  PROVE  StepFits(x)' /\ Knows(x)'
<1>1. StepFits(x)'
  BY DEF StepFits, At
<1>2. Mine(x) => Mine(x)'
  BY DEF Mine, Grows
<1>3. (\E t \in Tokens : token[t].session = req[x].session /\ token[t].used)
        /\ Mine(x) => (\E t \in Tokens : token[t].session = req[x].session /\ token[t].used)'
  BY DEF Grows, Mine
<1>4. \A t \in Tokens \cup {None} : t \in Tokens /\ token[t].session # None =>
        token'[t].session = token[t].session
  BY DEF Grows
<1>5. Mine(x) /\ Revoked(req[x].session) => Revoked(req[x].session)'
  BY DEF Grows, Mine
<1>6. Knows(x)'
  <2> USE <1>4 DEF Knows, At
  <2>1. (req[x].op = "refresh" \/ At(x, "find") =>
           req[x].token \in Tokens /\ token[req[x].token].session # None)'
    OBVIOUS
  <2>2. (req[x].op \in {"refresh", "reuse", "logout"} =>
           At(x, "history") \/ At(x, "find") \/ Mine(x))'
    BY <1>2
  <2>3. (req[x].op = "refresh" /\ ~At(x, "history") =>
           token[req[x].token].session = req[x].session)'
    OBVIOUS
  <2>4. (req[x].op = "reuse" =>
           \E t \in Tokens : token[t].session = req[x].session /\ token[t].used)'
    BY <1>3 DEF StepFits, StepsOf
  <2>5. (req[x].op \in {"reuse", "logout"} /\ At(x, "purge") =>
           Revoked(req[x].session))'
    BY <1>5
  <2>6. (req[x].op = "login" /\ req[x].at \in {"purge", "fill"} =>
           req[x].session \in Sessions)'
    OBVIOUS
  <2>7. (At(x, "fill") => /\ req[x].next \in Tokens
                          /\ token[req[x].next].session # None)'
    OBVIOUS
  <2>8. (req[x].op = "login" /\ At(x, "purge") =>
           /\ req[x].next \in Tokens /\ token[req[x].next].session # None)'
    OBVIOUS
  <2> QED BY <2>1, <2>2, <2>3, <2>4, <2>5, <2>6, <2>7, <2>8
<1> QED BY <1>1, <1>6
\* The fields that a request which has just begun, moved on or ended has.
LEMMA RequestFields ==
  ASSUME TypeOK, NEW r \in Requests
  PROVE  /\ Finish(r) => req'[r] = NoRequest
         /\ \A step : Goto(r, step) =>
              /\ req'[r].at = step /\ req'[r].op = req[r].op
              /\ req'[r].user = req[r].user /\ req'[r].session = req[r].session
              /\ req'[r].token = req[r].token /\ req'[r].next = req[r].next
              /\ req'[r].seen = req[r].seen /\ req'[r].todo = req[r].todo
BY DEF TypeOK, Request, Finish, Goto

\* A request that has ended knows nothing.
LEMMA FinishedKnows ==
  ASSUME NEW r \in Requests, req'[r] = NoRequest
  PROVE  StepFits(r)' /\ Knows(r)'
<1>1. /\ NoRequest.op = "none" /\ NoRequest.at = "idle" /\ NoRequest.seen = {}
      /\ NoRequest.todo = {}
  BY DEF NoRequest
<1> QED BY <1>1 DEF StepFits, StepsOf, Knows, At

\* The steps that write the tables.
Commits(r) ==
  \/ \E s \in Sessions, t \in Tokens : CommitLogin(r, s, t)
  \/ CommitRevocation(r)
  \/ \E t \in Tokens : CommitRotation(r, t)

\* No other step of a request does.
LEMMA QuietStep ==
  ASSUME NEW r \in Requests, Serve(r), ~Commits(r)
  PROVE  UNCHANGED <<session, token>>
BY DEF Serve, Commits, StartLogin, StartRevokeAll, StartRefresh, StartLogout,
       FindHistory, FindActive, FindSession, PreRead, LockAccount, RefuseRotation,
       PurgeCache, PurgeFails, PurgeDone, FillCache, FillFails, AnswerRefused,
       RequestDies

\* What a request that does not write the tables knows after its own step.
LEMMA OwnKnowledge ==
  ASSUME Inv, NEW r \in Requests, Serve(r), ~Commits(r)
  PROVE  StepFits(r)' /\ Knows(r)'
<1>0. /\ TypeOK /\ Tables /\ StepFits(r) /\ Knows(r) /\ req[r] \in Request
      /\ UNCHANGED <<session, token>>
  BY RequestType, QuietStep DEF Inv, RequestsOK
<1> USE <1>0 DEF At
<1>1. ASSUME NEW u \in Users, StartLogin(r, u) \/ StartRevokeAll(r, u)
      PROVE  StepFits(r)' /\ Knows(r)'
  <2>1. /\ req'[r].op \in {"login", "revokeAll"} /\ req'[r].at = "lock"
        /\ req'[r].user = u /\ req'[r].seen = {} /\ req'[r].todo = {}
    <3>1. \E op \in {"login", "revokeAll"} :
            req'[r] = [NoRequest EXCEPT !.op = op, !.at = "lock", !.user = u]
      BY <1>1 DEF StartLogin, StartRevokeAll, TypeOK
    <3> QED BY <3>1 DEF NoRequest
  <2> QED BY <2>1 DEF StepFits, StepsOf, Knows
<1>2. ASSUME NEW t \in Tokens, StartRefresh(r, t) \/ StartLogout(r, t)
      PROVE  StepFits(r)' /\ Knows(r)'
  <2>1. /\ \/ req'[r].op = "refresh" /\ req'[r].at = "history"
           \/ req'[r].op = "logout" /\ req'[r].at = "find"
        /\ req'[r].token = t /\ req'[r].seen = {} /\ req'[r].todo = {}
    <3>1. \/ req'[r] = [NoRequest EXCEPT !.op = "refresh", !.at = "history",
                                          !.token = t]
          \/ req'[r] = [NoRequest EXCEPT !.op = "logout", !.at = "find", !.token = t]
      BY <1>2 DEF StartRefresh, StartLogout, TypeOK
    <3> QED BY <3>1 DEF NoRequest
  <2>2. token[t].session # None
    BY <1>2 DEF StartRefresh, StartLogout, Tables, KnownIssued
  <2> QED BY <2>1, <2>2 DEF StepFits, StepsOf, Knows
<1>3. CASE FindHistory(r)
  <2> DEFINE t == req[r].token
             s == token[t].session
             q == [req[r] EXCEPT !.session = s, !.user = session[s].user]
  <2>1. /\ req[r].op = "refresh" /\ req[r].seen = {} /\ req[r].todo = {}
        /\ t \in Tokens /\ s \in Sessions /\ session[s].state # "absent"
    BY <1>3, OpOfStep DEF FindHistory, StepFits, Knows, TypeOK, TokenRow, Tables,
                          TokensOK
  <2>2. /\ q.session = s /\ q.user = session[s].user /\ q.op = "refresh"
        /\ q.token = t /\ q.seen = {} /\ q.todo = {}
        /\ \A o, a : [q EXCEPT !.op = o, !.at = a, !.token = None]
                     = [q EXCEPT !.op = o, !.at = a, !.token = None]
    BY <2>1 DEF Request
  <2>3. req'[r] = IF token[t].used
                    THEN [q EXCEPT !.op = "reuse", !.at = "preread", !.token = None]
                    ELSE [q EXCEPT !.at = "active"]
    BY <1>3 DEF FindHistory, TypeOK
  <2>4. q \in [op : {"refresh"}, at : {"history"}, user : {session[s].user},
               session : {s}, token : {t}, next : Tokens \cup {None},
               seen : {{}}, todo : {{}}]
    BY <1>3, <2>1 DEF FindHistory, Request
  <2> HIDE DEF q
  <2>5. /\ req'[r].session = s /\ req'[r].user = session[s].user
        /\ req'[r].seen = {} /\ req'[r].todo = {}
        /\ token[t].used => req'[r].op = "reuse" /\ req'[r].at = "preread"
        /\ ~token[t].used => /\ req'[r].op = "refresh" /\ req'[r].at = "active"
                             /\ req'[r].token = t
    BY <2>3, <2>4
  <2> HIDE DEF s, t
  <2>6. CASE token[t].used
    BY <2>1, <2>5, <2>6 DEF StepFits, StepsOf, Knows, Mine, s
  <2>7. CASE ~token[t].used
    BY <2>1, <2>5, <2>7 DEF StepFits, StepsOf, Knows, Mine, s
  <2> QED BY <2>6, <2>7
<1>4. CASE FindActive(r) \/ AnswerRefused(r)
  <2>1. CASE req'[r] = NoRequest
    BY <2>1, FinishedKnows
  <2>2. CASE req'[r] # NoRequest
    <3>1. /\ req[r].at = "active" /\ req[r].op = "refresh"
          /\ Goto(r, "preread") \/ Goto(r, "refused")
      BY <1>4, <2>2, OpOfStep, RequestFields DEF FindActive, AnswerRefused
    <3>2. /\ req'[r].at \in {"preread", "refused"} /\ req'[r].op = "refresh"
          /\ req'[r].user = req[r].user /\ req'[r].session = req[r].session
          /\ req'[r].token = req[r].token
          /\ req'[r].seen = {} /\ req'[r].todo = {}
      BY <3>1, RequestFields DEF StepFits
    <3> QED BY <3>1, <3>2 DEF StepFits, StepsOf, Knows, Mine
  <2> QED BY <2>1, <2>2
<1>5. CASE FindSession(r)
  <2> DEFINE s == token[req[r].token].session
  <2>1. CASE req'[r] = NoRequest
    BY <2>1, FinishedKnows
  <2>2. CASE req'[r] # NoRequest
    <3>1. /\ req[r].op = "logout" /\ req[r].seen = {} /\ req[r].todo = {}
          /\ s \in Sessions /\ session[s].state # "absent"
      BY <1>5, OpOfStep DEF FindSession, StepFits, Knows, TypeOK, TokenRow, Tables,
                            TokensOK
    <3>2. req'[r] = [req[r] EXCEPT !.at = "preread", !.session = s,
                                   !.user = session[s].user, !.token = None]
      BY <1>5, <2>2, RequestFields DEF FindSession, TypeOK
    <3> HIDE DEF s
    <3>3. /\ req'[r].op = "logout" /\ req'[r].at = "preread" /\ req'[r].session = s
          /\ req'[r].user = session[s].user /\ req'[r].seen = {} /\ req'[r].todo = {}
      BY <3>1, <3>2 DEF Request
    <3> QED BY <3>1, <3>3 DEF StepFits, StepsOf, Knows, Mine
  <2> QED BY <2>1, <2>2
<1>6. CASE PreRead(r)
  <2>0. req[r].op \in {"refresh", "reuse", "logout"} /\ Mine(r) /\ req[r].at = "preread"
    BY <1>6, OpOfStep DEF PreRead, Knows
  <2>1. CASE Active(req[r].session) \/ req[r].op = "refresh"
    BY <1>6, <2>0, <2>1, RequestFields DEF PreRead, StepFits, StepsOf, Knows, Mine
  <2>2. CASE ~Active(req[r].session) /\ req[r].op # "refresh"
    <3>1. req'[r] = [req[r] EXCEPT !.at = "purge", !.todo = {req[r].session}]
      BY <1>6, <2>2 DEF PreRead, TypeOK
    <3>2. /\ req'[r].op = req[r].op /\ req'[r].at = "purge"
          /\ req'[r].session = req[r].session /\ req'[r].user = req[r].user
          /\ req'[r].seen = req[r].seen /\ req'[r].todo = {req[r].session}
      BY <3>1 DEF Request
    <3>3. Revoked(req[r].session)
      BY <2>0, <2>2 DEF Mine, Active, Revoked, TypeOK, SessionRow
    <3> QED BY <2>0, <2>2, <3>2, <3>3 DEF StepFits, StepsOf, Knows, Mine, Revoked
  <2> QED BY <2>1, <2>2
<1>7. CASE LockAccount(r)
  <2>1. req'[r] = [req[r] EXCEPT !.at = "commit", !.seen = ReadUnderLock(r)]
    BY <1>7 DEF LockAccount, TypeOK
  <2>2. /\ req'[r].op = req[r].op /\ req'[r].at = "commit"
        /\ req'[r].session = req[r].session /\ req'[r].user = req[r].user
        /\ req'[r].token = req[r].token /\ req'[r].todo = req[r].todo
    BY <2>1 DEF Request
  <2>3. req[r].at = "lock"
    BY <1>7 DEF LockAccount
  <2>4. StepFits(r)'
    BY <2>2, <2>3, OpOfStep DEF StepFits, StepsOf
  <2>5. Knows(r)'
    BY <2>2, <2>3, OpOfStep DEF Knows, Mine
  <2> QED BY <2>4, <2>5
<1>8. CASE RefuseRotation(r)
  BY <1>8, RequestFields DEF RefuseRotation, StepFits, StepsOf, Knows, Mine
<1>9. ASSUME NEW s \in Sessions, PurgeCache(r, s) \/ PurgeFails(r, s)
      PROVE  StepFits(r)' /\ Knows(r)'
  <2>1. CASE req'[r] = NoRequest
    BY <2>1, FinishedKnows
  <2>2. CASE req'[r] # NoRequest
    <3>1. req'[r] = [req[r] EXCEPT !.todo = @ \ {s}] /\ req[r].at = "purge"
      BY <1>9, <2>2, RequestFields DEF PurgeCache, PurgeFails, TypeOK
    <3>2. /\ req'[r].op = req[r].op /\ req'[r].at = req[r].at
          /\ req'[r].session = req[r].session /\ req'[r].user = req[r].user
          /\ req'[r].token = req[r].token /\ req'[r].todo = req[r].todo \ {s}
          /\ req'[r].next = req[r].next /\ req'[r].seen = req[r].seen
      BY <3>1 DEF Request
    <3> QED BY <3>1, <3>2, OpOfStep DEF StepFits, StepsOf, Knows, Mine, Revoked
  <2> QED BY <2>1, <2>2
<1>10. CASE PurgeDone(r)
  <2>1. CASE req[r].op # "login"
    BY <1>10, <2>1, RequestFields, FinishedKnows DEF PurgeDone
  <2>2. CASE req[r].op = "login"
    BY <1>10, <2>2, RequestFields DEF PurgeDone, StepFits, StepsOf, Knows, Mine
  <2> QED BY <2>1, <2>2
<1>11. CASE FillCache(r) \/ FillFails(r) \/ RequestDies(r)
  BY <1>11, RequestFields, FinishedKnows DEF FillCache, FillFails, RequestDies
<1> QED
  BY <1>1, <1>2, <1>3, <1>4, <1>5, <1>6, <1>7, <1>8, <1>9, <1>10, <1>11
     DEF Serve, Commits
\* What a request knows after its commit.
LEMMA CommitKnowledge ==
  ASSUME Inv, NEW r \in Requests, Commits(r)
  PROVE  StepFits(r)' /\ Knows(r)'
<1>0. /\ TypeOK /\ Tables /\ StepFits(r) /\ Knows(r) /\ req[r] \in Request
      /\ req[r].at = "commit" /\ req[r].todo = {}
  BY RequestType DEF Inv, RequestsOK, Commits, CommitLogin, CommitRevocation,
                     CommitRotation, At, StepFits
<1>1. ASSUME NEW s \in Sessions, NEW t \in Tokens, CommitLogin(r, s, t)
      PROVE  StepFits(r)' /\ Knows(r)'
  <2>1. req'[r] = [req[r] EXCEPT !.at = "purge", !.session = s, !.next = t,
                                 !.seen = {}, !.todo = req[r].seen]
    BY <1>0, <1>1 DEF CommitLogin, TypeOK
  <2>2. /\ req'[r].op = "login" /\ req'[r].at = "purge" /\ req'[r].session = s
        /\ req'[r].next = t /\ req'[r].seen = {} /\ req'[r].user = req[r].user
    <3>1. req[r].op = "login"
      BY <1>1 DEF CommitLogin
    <3> QED BY <1>0, <2>1, <3>1 DEF Request
  <2>3. token'[t].session = s
    <3>1. token[t] \in TokenRow
      BY <1>0 DEF TypeOK
    <3> QED BY <1>0, <1>1, <3>1 DEF CommitLogin, TypeOK, TokenRow
  <2> QED BY <1>0, <1>1, <2>2, <2>3 DEF CommitLogin, StepFits, StepsOf, Knows, At
<1>2. CASE CommitRevocation(r)
  <2>1. /\ req'[r] = [req[r] EXCEPT !.at = "purge", !.seen = {},
             !.todo = IF req[r].op = "revokeAll" THEN req[r].seen
                                                 ELSE {req[r].session}]
        /\ req[r].op \in {"reuse", "logout", "revokeAll"} /\ token' = token
    BY <1>0, <1>2 DEF CommitRevocation, TypeOK
  <2>2. /\ req'[r].op = req[r].op /\ req'[r].at = "purge"
        /\ req'[r].session = req[r].session /\ req'[r].seen = {}
        /\ req'[r].user = req[r].user /\ req'[r].next = req[r].next
        /\ req'[r].todo = IF req[r].op = "revokeAll" THEN req[r].seen
                                                      ELSE {req[r].session}
    BY <1>0, <2>1 DEF Request
  <2>3. StepFits(r)'
    BY <1>0, <2>1, <2>2 DEF StepFits, StepsOf, At
  <2>4. req[r].op \in {"reuse", "logout"} => Mine(r)' /\ Revoked(req[r].session)'
    <3> SUFFICES ASSUME req[r].op \in {"reuse", "logout"}
                 PROVE  Mine(r)' /\ Revoked(req[r].session)'
      OBVIOUS
    <3>1. Mine(r)
      BY <1>0 DEF Knows, At
    <3>2. Mine(r)'
      BY <1>2, <2>2, <3>1, RevocationTables DEF Mine, Grows
    <3>3. CASE Active(req[r].session)
      <4>1. req[r].session \in req[r].seen
        BY <1>0, <3>1, <3>3, SeenAtCommit DEF Mine, ActiveSessions, At
      <4>2. session'[req[r].session].state = "revoked"
        BY <1>2, <4>1, RevocationTables DEF Revoked
      <4> QED BY <2>2, <3>2, <4>2 DEF Revoked
    <3>4. CASE ~Active(req[r].session)
      <4>1. Revoked(req[r].session)
        BY <1>0, <3>1, <3>4 DEF Mine, Active, Revoked, TypeOK, SessionRow
      <4> QED BY <1>2, <2>2, <3>1, <4>1, RevocationTables DEF Grows, Mine, Revoked
    <3> QED BY <3>3, <3>4
  <2>5. Knows(r)'
    BY <1>0, <2>1, <2>2, <2>4 DEF Knows, At, Revoked
  <2> QED BY <2>3, <2>5
<1>3. ASSUME NEW t \in Tokens, CommitRotation(r, t)
      PROVE  StepFits(r)' /\ Knows(r)'
  <2>1. req'[r] = [req[r] EXCEPT !.at = "fill", !.next = t, !.seen = {}]
    BY <1>0, <1>3 DEF CommitRotation, TypeOK
  <2>2. /\ req'[r].op = "refresh" /\ req'[r].at = "fill" /\ req'[r].next = t
        /\ req'[r].seen = {} /\ req'[r].session = req[r].session
        /\ req'[r].todo = {} /\ req'[r].user = req[r].user
        /\ req'[r].token = req[r].token
    <3>1. req[r].op = "refresh"
      BY <1>3 DEF CommitRotation
    <3> QED BY <1>0, <2>1, <3>1 DEF Request
  <2>3. Mine(r) /\ token[req[r].token].session = req[r].session
        /\ req[r].token \in Tokens /\ req[r].session # None
    BY <1>0, <1>3 DEF CommitRotation, Knows, At, Mine
  <2>4. Mine(r)' /\ token'[req[r].token].session = req[r].session
    BY <1>3, <2>2, <2>3, RotationTables DEF Mine, Grows
  <2>5. token'[t].session = req[r].session
    BY <1>0, <1>3 DEF CommitRotation, TypeOK
  <2> QED BY <2>2, <2>3, <2>4, <2>5 DEF StepFits, StepsOf, Knows, At
<1> QED BY <1>1, <1>2, <1>3 DEF Commits

\* No request but the one that moves changes, and no check.
LEMMA OnlyOneMoves ==
  ASSUME Inv, NEW r \in Requests, Serve(r), NEW x \in Requests, x # r
  PROVE  req'[x] = req[x] /\ check' = check
BY DEF Serve, Inv, TypeOK, StartLogin, StartRevokeAll, StartRefresh, StartLogout,
       FindHistory, FindActive, FindSession, PreRead, LockAccount, CommitLogin,
       CommitRevocation, CommitRotation, RefuseRotation, PurgeCache, PurgeFails,
       PurgeDone, FillCache, FillFails, AnswerRefused, RequestDies, Goto, Finish

\* Every step of a request leaves the tables in order and moves them forward.
LEMMA ServeTables ==
  ASSUME Inv, NEW r \in Requests, Serve(r)
  PROVE  /\ Tables' /\ Grows
         /\ Commits(r) => TouchesOnly(req[r].user)
         /\ ~Commits(r) => UNCHANGED <<session, token>>
<1>1. CASE Commits(r)
  BY <1>1, LoginTables, RevocationTables, RotationTables DEF Commits
<1>2. CASE ~Commits(r)
  <2>1. UNCHANGED <<session, token>>
    BY <1>2, QuietStep
  <2>2. \A t \in known' : token[t].session # None
    <3>1. known' = known \/ FillCache(r)
      BY <1>2
         DEF Serve, Commits, StartLogin, StartRevokeAll, StartRefresh, StartLogout,
             FindHistory, FindActive, FindSession, PreRead, LockAccount,
             RefuseRotation, PurgeCache, PurgeFails, PurgeDone, FillFails,
             AnswerRefused, RequestDies
    <3> QED BY <3>1 DEF FillCache, Inv, Tables, KnownIssued, RequestsOK, Knows
  <2> QED BY <1>2, <2>1, <2>2, QuietTables DEF Inv
<1> QED BY <1>1, <1>2

\* What every request knows stays true.
LEMMA RequestsStep ==
  ASSUME Inv, NEW r \in Requests, Serve(r)
  PROVE  RequestsOK'
<1> SUFFICES ASSUME NEW x \in Requests PROVE StepFits(x)' /\ Knows(x)'
  BY DEF RequestsOK
<1>1. CASE x = r
  BY <1>1, OwnKnowledge, CommitKnowledge
<1>2. CASE x # r
  BY <1>2, OthersKnow, OnlyOneMoves, ServeTables DEF Inv, RequestsOK
<1> QED BY <1>1, <1>2
-----------------------------------------------------------------------------
(* The account locks                                                       *)

\* A step takes the lock, gives it back, or has none before and after.
LEMMA LockMoves ==
  ASSUME Inv, NEW r \in Requests, Serve(r)
  PROVE  \/ LockAccount(r)
         \/ Release(r) /\ ~At(r, "commit")'
         \/ lock' = lock /\ ~At(r, "commit") /\ ~At(r, "commit")'
<1>0. TypeOK /\ req[r] \in Request /\ req \in [Requests -> Request]
  BY RequestType DEF Inv, TypeOK
<1>1. CASE Commits(r)
  <2>1. Release(r)
    BY <1>1 DEF Commits, CommitLogin, CommitRevocation, CommitRotation
  <2>2. ASSUME NEW s \in Sessions, NEW t \in Tokens, CommitLogin(r, s, t)
        PROVE  req'[r].at = "purge"
    <3>1. req'[r] = [req[r] EXCEPT !.at = "purge", !.session = s, !.next = t,
                                   !.seen = {}, !.todo = req[r].seen]
      BY <1>0, <2>2 DEF CommitLogin
    <3> QED BY <1>0, <3>1 DEF Request
  <2>3. CASE CommitRevocation(r)
    <3>1. req'[r] = [req[r] EXCEPT !.at = "purge", !.seen = {},
            !.todo = IF req[r].op = "revokeAll" THEN req[r].seen
                                                ELSE {req[r].session}]
      BY <1>0, <2>3 DEF CommitRevocation
    <3> QED BY <1>0, <2>1, <3>1 DEF Request, At
  <2>4. ASSUME NEW t \in Tokens, CommitRotation(r, t) PROVE req'[r].at = "fill"
    <3>1. req'[r] = [req[r] EXCEPT !.at = "fill", !.next = t, !.seen = {}]
      BY <1>0, <2>4 DEF CommitRotation
    <3> QED BY <1>0, <3>1 DEF Request
  <2> QED BY <1>1, <2>1, <2>2, <2>3, <2>4 DEF Commits, At
<1>2. CASE RefuseRotation(r) \/ RequestDies(r)
  BY <1>0, <1>2, RequestFields DEF RefuseRotation, RequestDies, At, NoRequest
<1>3. CASE ~Commits(r) /\ ~RefuseRotation(r) /\ ~RequestDies(r) /\ ~LockAccount(r)
  <2>1. lock' = lock
    BY <1>3
       DEF Serve, Commits, StartLogin, StartRevokeAll, StartRefresh, StartLogout,
           FindHistory, FindActive, FindSession, PreRead, PurgeCache, PurgeFails,
           PurgeDone, FillCache, FillFails, AnswerRefused
  <2>2. ~At(r, "commit")
    BY <1>3
       DEF Serve, Commits, StartLogin, StartRevokeAll, StartRefresh, StartLogout,
           FindHistory, FindActive, FindSession, PreRead, PurgeCache, PurgeFails,
           PurgeDone, FillCache, FillFails, AnswerRefused, At
  <2>3. ~At(r, "commit")'
    <3>0. NoRequest \in Request /\ NoRequest.at = "idle"
      BY RequestType DEF Inv, NoRequest
    <3>1. ASSUME NEW u \in Users, StartLogin(r, u) \/ StartRevokeAll(r, u)
          PROVE  req'[r].at = "lock"
      <4>1. \E op \in {"login", "revokeAll"} :
              req'[r] = [NoRequest EXCEPT !.op = op, !.at = "lock", !.user = u]
        BY <1>0, <3>1 DEF StartLogin, StartRevokeAll
      <4> QED BY <4>1 DEF NoRequest
    <3>2. ASSUME NEW t \in Tokens, StartRefresh(r, t) \/ StartLogout(r, t)
          PROVE  req'[r].at \in {"history", "find"}
      <4>1. \E op \in {"refresh", "logout"}, at \in {"history", "find"} :
              req'[r] = [NoRequest EXCEPT !.op = op, !.at = at, !.token = t]
        BY <1>0, <3>2 DEF StartRefresh, StartLogout
      <4> QED BY <4>1 DEF NoRequest
    <3>3. CASE FindHistory(r)
      <4> DEFINE t == req[r].token
                 s == token[t].session
                 q == [req[r] EXCEPT !.session = s, !.user = session[s].user]
      <4>1. req'[r] \in {[q EXCEPT !.op = "reuse", !.at = "preread", !.token = None],
                         [q EXCEPT !.at = "active"]}
        BY <1>0, <3>3 DEF FindHistory
      <4> QED BY <1>0, <4>1 DEF Request, At
    <3>4. CASE FindSession(r)
      <4> DEFINE s == token[req[r].token].session
                 q == [req[r] EXCEPT !.at = "preread", !.session = s,
                                     !.user = session[s].user, !.token = None]
      <4>1. req'[r] = NoRequest \/ req' = [req EXCEPT ![r] = q]
        BY <3>4, RequestFields, <1>0 DEF FindSession
      <4>2. q.at = "preread"
        BY <1>0 DEF Request
      <4> HIDE DEF q
      <4> QED BY <1>0, <3>0, <4>1, <4>2 DEF At
    <3>5. CASE PreRead(r)
      <4>1. \/ Goto(r, "lock") \/ Goto(r, "refused")
            \/ req'[r] = [req[r] EXCEPT !.at = "purge", !.todo = {req[r].session}]
        BY <1>0, <3>5 DEF PreRead
      <4>2. CASE Goto(r, "lock") \/ Goto(r, "refused")
        BY <1>0, <4>2, RequestFields DEF At
      <4> QED BY <1>0, <4>1, <4>2 DEF Request, At
    <3>6. ASSUME NEW s \in Sessions, PurgeCache(r, s) \/ PurgeFails(r, s)
          PROVE  req'[r].at # "commit"
      <4>1. \/ req'[r] = NoRequest
            \/ req[r].at = "purge" /\ req'[r] = [req[r] EXCEPT !.todo = @ \ {s}]
        BY <1>0, <3>6, RequestFields DEF PurgeCache, PurgeFails, At
      <4> QED BY <1>0, <3>0, <4>1 DEF Request
    <3>7. CASE FindActive(r) \/ PurgeDone(r) \/ FillCache(r) \/ FillFails(r)
               \/ AnswerRefused(r)
      BY <1>0, <3>0, <3>7, RequestFields
         DEF FindActive, PurgeDone, FillCache, FillFails, AnswerRefused, At
    <3> QED BY <1>3, <3>1, <3>2, <3>3, <3>4, <3>5, <3>6, <3>7 DEF Serve, Commits, At
  <2> QED BY <2>1, <2>2, <2>3
<1> QED BY <1>1, <1>2, <1>3

\* What one request has read under its lock, another does not change.
LEMMA OthersRead ==
  ASSUME Inv, NEW r \in Requests, Serve(r), NEW x \in Requests, x # r, At(x, "commit")
  PROVE  ReadUnderLock(x)' = ReadUnderLock(x)
<1>0. /\ req'[x] = req[x] /\ StepFits(x) /\ Knows(x) /\ TypeOK /\ Tables
      /\ lock[req[x].user] = x /\ req[x].user \in Users
  <2>1. /\ req'[x] = req[x] /\ StepFits(x) /\ Knows(x) /\ TypeOK /\ Tables
        /\ lock[req[x].user] = x
    BY OnlyOneMoves DEF Inv, RequestsOK, LocksOK
  <2>2. req[x].user \in Users
    BY <2>1, OpOfStep DEF StepFits, Knows, Mine, At, Tables, RowsOK
  <2> QED BY <2>1, <2>2
<1>1. CASE ~Commits(r)
  BY <1>0, <1>1, ServeTables
     DEF ReadUnderLock, ActiveSessions, Active, RotationAllowed
<1>2. CASE Commits(r)
  <2>1. req[r].user # req[x].user
    <3>1. At(r, "commit")
      BY <1>2 DEF Commits, CommitLogin, CommitRevocation, CommitRotation
    <3> QED BY <1>0, <3>1 DEF Inv, LocksOK
  <2>2. TouchesOnly(req[r].user)
    BY <1>2, ServeTables
  <2>3. ActiveSessions(req[x].user)' = ActiveSessions(req[x].user)
    BY <1>0, <2>1, <2>2 DEF TouchesOnly, ActiveSessions, Active
  <2>4. CASE req[x].op = "refresh"
    <3>1. /\ Mine(x) /\ req[x].token \in Tokens
          /\ token[req[x].token].session = req[x].session
          /\ token[req[x].token].session # None
      BY <1>0, <2>4 DEF Knows, At
    <3>2. /\ session'[req[x].session] = session[req[x].session]
          /\ token'[req[x].token] = token[req[x].token]
      BY <2>1, <2>2, <3>1 DEF TouchesOnly, Mine
    <3> QED BY <1>0, <2>4, <3>2 DEF ReadUnderLock, RotationAllowed, Active
  <2>5. CASE req[x].op # "refresh"
    <3>1. req[x].op \in {"login", "revokeAll", "reuse", "logout"}
      BY <1>0, <2>5, OpOfStep DEF At
    <3> QED BY <1>0, <2>3, <2>5, <3>1 DEF ReadUnderLock
  <2> QED BY <2>4, <2>5
<1> QED BY <1>1, <1>2

\* Two transactions on one account exclude each other until their commit.
LEMMA LocksStep ==
  ASSUME Inv, TypeOK', NEW r \in Requests, Serve(r)
  PROVE  LocksOK'
<1>0. TypeOK /\ LocksOK /\ None \notin Requests
  BY DEF Inv
<1>1. ASSUME NEW x \in Requests, x # r, At(x, "commit")'
      PROVE  (lock[req[x].user] = x /\ req[x].seen = ReadUnderLock(x))'
  <2>1. req'[x] = req[x] /\ At(x, "commit") /\ req[x].user \in Users
    BY <1>1, OnlyOneMoves, OpOfStep
       DEF At, Inv, RequestsOK, StepFits, Knows, Mine, Tables, RowsOK
  <2>2. lock[req[x].user] = x /\ req[x].seen = ReadUnderLock(x)
    BY <1>0, <2>1 DEF LocksOK
  <2>3. lock'[req[x].user] = x
    BY <1>0, <1>1, <2>1, <2>2, LockMoves DEF LockAccount, RowFree, Release, TypeOK
  <2> QED BY <1>1, <2>1, <2>2, <2>3, OthersRead
<1>2. ASSUME At(r, "commit")'
      PROVE  (lock[req[r].user] = r /\ req[r].seen = ReadUnderLock(r))'
  <2>1. LockAccount(r)
    BY <1>2, LockMoves
  <2>2. req'[r] = [req[r] EXCEPT !.at = "commit", !.seen = ReadUnderLock(r)]
    BY <1>0, <2>1 DEF LockAccount, TypeOK
  <2>3. /\ req'[r].op = req[r].op /\ req'[r].user = req[r].user
        /\ req'[r].session = req[r].session /\ req'[r].token = req[r].token
        /\ req'[r].seen = ReadUnderLock(r)
    BY <1>0, <2>2, RequestType DEF Request
  <2>4. ReadUnderLock(r)' = ReadUnderLock(r)
    BY <2>1, <2>3 DEF LockAccount, ReadUnderLock, ActiveSessions, Active,
                      RotationAllowed
  <2>5. req[r].user \in Users
    BY <2>1, OpOfStep DEF LockAccount, At, Inv, RequestsOK, StepFits, Knows, Mine,
                          Tables, RowsOK
  <2>6. lock'[req[r].user] = r
    BY <1>0, <2>1, <2>5 DEF LockAccount, TypeOK
  <2> QED BY <2>3, <2>4, <2>6
<1>3. ASSUME NEW u \in Users, lock'[u] # None
      PROVE  (At(lock[u], "commit") /\ req[lock[u]].user = u)'
  <2>1. CASE LockAccount(r) /\ u = req[r].user
    <3>1. lock'[u] = r
      BY <1>0, <2>1 DEF LockAccount, TypeOK
    <3>2. req'[r] = [req[r] EXCEPT !.at = "commit", !.seen = ReadUnderLock(r)]
      BY <1>0, <2>1 DEF LockAccount, TypeOK
    <3>3. req'[r].at = "commit" /\ req'[r].user = u
      BY <1>0, <2>1, <3>2, RequestType DEF Request
    <3> QED BY <3>1, <3>3 DEF At
  <2>2. CASE ~(LockAccount(r) /\ u = req[r].user)
    <3>1. lock'[u] = lock[u] /\ lock[u] \in Requests
      BY <1>0, <1>3, <2>2, LockMoves DEF LockAccount, Release, TypeOK
    <3>2. At(lock[u], "commit") /\ req[lock[u]].user = u
      BY <1>0, <1>3, <3>1 DEF LocksOK
    <3>3. lock[u] # r
      BY <1>0, <1>3, <2>2, <3>1, <3>2, LockMoves DEF LockAccount, Release, TypeOK, At
    <3> QED BY <3>1, <3>2, <3>3, OnlyOneMoves DEF At
  <2> QED BY <2>1, <2>2
<1> QED BY <1>1, <1>2, <1>3 DEF LocksOK
-----------------------------------------------------------------------------
(* The cache                                                               *)

\* Request r has read s as active and has yet to write its entry.
Fills(r, s) ==
  /\ req[r].op \in {"login", "refresh"} /\ req[r].at \in {"purge", "fill"}
  /\ req[r].session = s

\* An overlap is forgotten only with an entry that goes and nobody writes again.
LEMMA OverlapKept ==
  ASSUME Inv, NEW r \in Requests, Serve(r), NEW s \in raced
  PROVE  /\ BeingFilled(s) => s \in raced'
         /\ s \in cache' => s \in raced'
<1>1. \/ \E x \in Sessions : PurgeCache(r, x)
      \/ raced \subseteq raced'
  BY DEF Serve, StartLogin, StartRevokeAll, StartRefresh, StartLogout, FindHistory,
         FindActive, FindSession, PreRead, LockAccount, CommitLogin, CommitRevocation,
         CommitRotation, RefuseRotation, PurgeFails, PurgeDone, FillCache, FillFails,
         AnswerRefused, RequestDies, NoteOverlap
<1> QED BY <1>1 DEF PurgeCache, DeleteEntry, NoteDeletion

\* Whoever revokes a session has its entry to delete, and notes who fills it.
LEMMA NewlyRevoked ==
  ASSUME Inv, NEW r \in Requests, Serve(r), NEW s \in Sessions,
         Revoked(s)', ~Revoked(s)
  PROVE  /\ s \in req'[r].todo
         /\ BeingFilled(s) => s \in raced'
<1>0. TypeOK /\ req[r] \in Request /\ StepFits(r) /\ Commits(r)
  BY ServeTables, RequestType DEF Inv, RequestsOK, Revoked
<1>1. ASSUME NEW x \in Sessions, NEW t \in Tokens, CommitLogin(r, x, t)
      PROVE  s \in req'[r].todo /\ s \in req[r].seen /\ NoteOverlap(req[r].seen)
  <2>1. s \in req[r].seen
    BY <1>1 DEF CommitLogin, Revoked
  <2>2. req'[r] = [req[r] EXCEPT !.at = "purge", !.session = x, !.next = t,
                                 !.seen = {}, !.todo = req[r].seen]
    BY <1>0, <1>1 DEF CommitLogin, TypeOK
  <2>3. req'[r].todo = req[r].seen
    BY <1>0, <2>2 DEF Request
  <2> QED BY <1>1, <2>1, <2>3 DEF CommitLogin
<1>2. CASE CommitRevocation(r)
  <2>1. s \in req[r].seen /\ NoteOverlap(req[r].seen) /\ At(r, "commit")
    BY <1>2, RevocationTables DEF CommitRevocation
  <2>2. req'[r] = [req[r] EXCEPT !.at = "purge", !.seen = {},
          !.todo = IF req[r].op = "revokeAll" THEN req[r].seen
                                              ELSE {req[r].session}]
    BY <1>0, <1>2 DEF CommitRevocation, TypeOK
  <2>3. req'[r].todo = IF req[r].op = "revokeAll" THEN req[r].seen
                                                  ELSE {req[r].session}
    BY <1>0, <2>2 DEF Request
  <2>4. req[r].op \in {"reuse", "logout"} => req[r].seen \subseteq {req[r].session}
    BY <2>1, SeenAtCommit
  <2>5. s \in req'[r].todo
    BY <1>2, <2>1, <2>3, <2>4 DEF CommitRevocation
  <2> QED BY <2>1, <2>5 DEF NoteOverlap
<1>3. ~\E t \in Tokens : CommitRotation(r, t)
  BY RotationTables
<1> QED BY <1>0, <1>1, <1>2, <1>3 DEF Commits, NoteOverlap

\* Only an active session begins to be filled.
LEMMA NewlyFilled ==
  ASSUME Inv, NEW r \in Requests, Serve(r), NEW s \in Sessions,
         BeingFilled(s)', Revoked(s)'
  PROVE  BeingFilled(s)
<1>0. TypeOK /\ req[r] \in Request /\ StepFits(r)
  BY RequestType DEF Inv, RequestsOK
<1>1. ASSUME NEW x \in Requests, x # r, Fills(x, s)' PROVE BeingFilled(s)
  BY <1>1, OnlyOneMoves DEF Fills, BeingFilled
<1>2. ASSUME NEW c \in Checks, check'[c].at = "fill", check'[c].session = s
      PROVE  BeingFilled(s)
  <2>1. check' = check
    BY DEF Serve, StartLogin, StartRevokeAll, StartRefresh, StartLogout, FindHistory,
           FindActive, FindSession, PreRead, LockAccount, CommitLogin,
           CommitRevocation, CommitRotation, RefuseRotation, PurgeCache, PurgeFails,
           PurgeDone, FillCache, FillFails, AnswerRefused, RequestDies
  <2> QED BY <1>2, <2>1 DEF BeingFilled
<1>3. ASSUME Fills(r, s)' PROVE BeingFilled(s)
  <2>1. ASSUME NEW x \in Sessions, NEW t \in Tokens, CommitLogin(r, x, t) PROVE FALSE
    <3>1. req'[r] = [req[r] EXCEPT !.at = "purge", !.session = x, !.next = t,
                                   !.seen = {}, !.todo = req[r].seen]
      BY <1>0, <2>1 DEF CommitLogin, TypeOK
    <3>2. x = s
      BY <1>0, <1>3, <3>1 DEF Fills, Request
    <3> QED BY <2>1, <3>2 DEF CommitLogin, Revoked
  <2>2. ASSUME NEW t \in Tokens, CommitRotation(r, t) PROVE FALSE
    <3>1. req'[r] = [req[r] EXCEPT !.at = "fill", !.next = t, !.seen = {}]
      BY <1>0, <2>2 DEF CommitRotation, TypeOK
    <3>2. req[r].session = s
      BY <1>0, <1>3, <3>1 DEF Fills, Request
    <3> QED BY <1>0, <2>2, <3>2 DEF CommitRotation, Revoked, TypeOK
  <2>3. CASE CommitRevocation(r)
    <3>1. req'[r] = [req[r] EXCEPT !.at = "purge", !.seen = {},
            !.todo = IF req[r].op = "revokeAll" THEN req[r].seen
                                                ELSE {req[r].session}]
      BY <1>0, <2>3 DEF CommitRevocation, TypeOK
    <3>2. req'[r].op \in {"reuse", "logout", "revokeAll"}
      BY <1>0, <2>3, <3>1 DEF CommitRevocation, Request
    <3> QED BY <1>3, <3>2 DEF Fills
  <2>4. CASE ~Commits(r)
    <3>1. ASSUME NEW x \in Sessions, PurgeCache(r, x) \/ PurgeFails(r, x)
          PROVE  BeingFilled(s)
      <4>1. \/ req'[r] = NoRequest
            \/ req[r].at = "purge" /\ req'[r] = [req[r] EXCEPT !.todo = @ \ {x}]
        BY <1>0, <3>1, RequestFields DEF PurgeCache, PurgeFails, At, TypeOK
      <4>2. NoRequest.op = "none"
        BY DEF NoRequest
      <4>3. req[r].at = "purge" /\ req'[r] = [req[r] EXCEPT !.todo = @ \ {x}]
        BY <1>3, <4>1, <4>2 DEF Fills
      <4>4. req'[r].op = req[r].op /\ req'[r].session = req[r].session
        BY <1>0, <4>3 DEF Request
      <4> QED BY <1>3, <4>3, <4>4 DEF Fills, BeingFilled
    <3>2. CASE PurgeDone(r)
      <4>1. (Goto(r, "fill") /\ At(r, "purge")) \/ req'[r] = NoRequest
        BY <1>0, <3>2, RequestFields DEF PurgeDone
      <4>2. NoRequest.op = "none"
        BY DEF NoRequest
      <4> QED BY <1>0, <1>3, <4>1, <4>2, RequestFields DEF Fills, BeingFilled, At
    <3>3. CASE ~At(r, "purge") /\ ~At(r, "commit")
      <4>1. StepFits(r)' /\ TypeOK
        BY <1>0, <2>4, OwnKnowledge
      <4>2. CASE FillCache(r) \/ FillFails(r) \/ RequestDies(r) \/ AnswerRefused(r)
        BY <1>0, <1>3, <4>2, RequestFields
           DEF FillCache, FillFails, RequestDies, AnswerRefused, Fills, NoRequest
      <4>3. CASE FindActive(r)
        BY <1>0, <1>3, <4>3, RequestFields DEF FindActive, Fills
      <4>4. CASE PreRead(r)
        <5>1. CASE Goto(r, "lock") \/ Goto(r, "refused")
          BY <1>0, <1>3, <5>1, RequestFields DEF Fills
        <5>2. CASE req'[r] = [req[r] EXCEPT !.at = "purge", !.todo = {req[r].session}]
          <6>1. req[r].op \in {"reuse", "logout"} \/ Goto(r, "lock") \/ Goto(r, "refused")
            BY <1>0, <4>4, OpOfStep DEF PreRead
          <6>2. req'[r].op = req[r].op
            BY <1>0, <5>2 DEF Request
          <6> QED BY <1>3, <5>1, <6>1, <6>2 DEF Fills
        <5> QED BY <1>0, <4>4, <5>1, <5>2 DEF PreRead, TypeOK
      <4>5. CASE LockAccount(r)
        <5>1. req'[r] = [req[r] EXCEPT !.at = "commit", !.seen = ReadUnderLock(r)]
          BY <1>0, <4>5 DEF LockAccount, TypeOK
        <5> QED BY <1>0, <1>3, <5>1 DEF Fills, Request
      <4>6. ASSUME NEW u \in Users, StartLogin(r, u) \/ StartRevokeAll(r, u)
            PROVE  BeingFilled(s)
        <5>1. \E op \in {"login", "revokeAll"} :
                req'[r] = [NoRequest EXCEPT !.op = op, !.at = "lock", !.user = u]
          BY <1>0, <4>6 DEF StartLogin, StartRevokeAll, TypeOK
        <5> QED BY <1>3, <5>1 DEF Fills, NoRequest
      <4>7. ASSUME NEW t \in Tokens, StartRefresh(r, t) \/ StartLogout(r, t)
            PROVE  BeingFilled(s)
        <5>1. \E op \in {"refresh", "logout"}, at \in {"history", "find"} :
                req'[r] = [NoRequest EXCEPT !.op = op, !.at = at, !.token = t]
          BY <1>0, <4>7 DEF StartRefresh, StartLogout, TypeOK
        <5> QED BY <1>3, <5>1 DEF Fills, NoRequest
      <4>8. CASE FindHistory(r)
        <5> DEFINE t == req[r].token
                   y == token[t].session
                   q == [req[r] EXCEPT !.session = y, !.user = session[y].user]
        <5>1. req'[r] \in {[q EXCEPT !.op = "reuse", !.at = "preread", !.token = None],
                           [q EXCEPT !.at = "active"]}
          BY <1>0, <4>8 DEF FindHistory, TypeOK
        <5> QED BY <1>0, <1>3, <5>1 DEF Request, Fills
      <4>9. CASE FindSession(r)
        <5> DEFINE y == token[req[r].token].session
                   q == [req[r] EXCEPT !.at = "preread", !.session = y,
                                       !.user = session[y].user, !.token = None]
        <5>1. req'[r] = NoRequest \/ req'[r] = q
          BY <1>0, <4>9, RequestFields DEF FindSession, TypeOK
        <5>2. q.at = "preread" /\ NoRequest.at = "idle"
          BY <1>0 DEF Request, NoRequest
        <5> HIDE DEF q
        <5> QED BY <1>3, <5>1, <5>2 DEF Fills
      <4> QED
        BY <2>4, <3>1, <3>2, <3>3, <4>2, <4>3, <4>4, <4>5, <4>6, <4>7, <4>8, <4>9
           DEF Serve, Commits, RefuseRotation
    <3>4. CASE At(r, "purge") \/ At(r, "commit")
      <4>1. \/ \E x \in Sessions : PurgeCache(r, x) \/ PurgeFails(r, x)
            \/ PurgeDone(r) \/ RequestDies(r) \/ RefuseRotation(r)
        BY <2>4, <3>4
           DEF Serve, Commits, At, StartLogin, StartRevokeAll, StartRefresh,
               StartLogout, FindHistory, FindActive, FindSession, PreRead,
               LockAccount, FillCache, FillFails, AnswerRefused
      <4>2. CASE RequestDies(r) \/ RefuseRotation(r)
        BY <1>0, <1>3, <4>2, RequestFields
           DEF RequestDies, RefuseRotation, Fills, NoRequest
      <4> QED BY <3>1, <3>2, <4>1, <4>2
    <3> QED BY <3>3, <3>4
  <2> QED BY <2>1, <2>2, <2>3, <2>4 DEF Commits
<1> QED BY <1>1, <1>2, <1>3 DEF BeingFilled, Fills

\* An overlap is noted for every fill that goes on after a revocation.
LEMMA FillsStep ==
  ASSUME Inv, NEW r \in Requests, Serve(r)
  PROVE  FillsOK'
<1> SUFFICES ASSUME NEW s \in Sessions, Revoked(s)', BeingFilled(s)'
             PROVE  s \in raced'
  BY DEF FillsOK
<1>1. BeingFilled(s)
  BY NewlyFilled
<1>2. CASE ~Revoked(s)
  BY <1>1, <1>2, NewlyRevoked
<1>3. CASE Revoked(s)
  BY <1>1, <1>3, OverlapKept DEF Inv, FillsOK
<1> QED BY <1>2, <1>3

\* An entry that is to be deleted goes, stays to be deleted, or is noted.
LEMMA TodoMoves ==
  ASSUME Inv, NEW r \in Requests, Serve(r), NEW s \in req[r].todo, s \in cache'
  PROVE  s \in req'[r].todo \/ s \in raced'
<1>0. /\ TypeOK /\ StepFits(r) /\ req[r] \in Request /\ At(r, "purge")
      /\ req[r].op \in {"login", "revokeAll", "reuse", "logout"}
  <2>1. TypeOK /\ StepFits(r) /\ req[r] \in Request
    BY RequestType DEF Inv, RequestsOK
  <2>2. At(r, "purge")
    BY <2>1 DEF StepFits
  <2> QED BY <2>1, <2>2, OpOfStep
<1>1. \/ \E y \in Sessions : PurgeCache(r, y) \/ PurgeFails(r, y)
      \/ PurgeDone(r) \/ RequestDies(r)
  BY <1>0
     DEF Serve, At, StartLogin, StartRevokeAll, StartRefresh, StartLogout,
         FindHistory, FindActive, FindSession, PreRead, LockAccount, CommitLogin,
         CommitRevocation, CommitRotation, RefuseRotation, FillCache, FillFails,
         AnswerRefused
<1>2. ASSUME NEW y \in Sessions, req' = [req EXCEPT ![r].todo = @ \ {y}]
      PROVE  req'[r].todo = req[r].todo \ {y}
  BY <1>0, <1>2 DEF TypeOK, Request
<1>3. ASSUME NEW y \in Sessions, PurgeCache(r, y)
      PROVE  s \in req'[r].todo
  BY <1>2, <1>3 DEF PurgeCache, DeleteEntry
<1>4. ASSUME NEW y \in Sessions, PurgeFails(r, y)
      PROVE  s \in req'[r].todo \/ s \in raced'
  <2>1. CASE y = s
    BY <1>4, <2>1 DEF PurgeFails
  <2>2. CASE y # s
    <3>1. req[r].op \in {"login", "revokeAll"}
      BY <1>0, <1>4, <2>2 DEF PurgeFails, StepFits
    <3> QED BY <1>2, <1>4, <2>2, <3>1 DEF PurgeFails
  <2> QED BY <2>1, <2>2
<1>5. CASE PurgeDone(r)
  BY <1>5 DEF PurgeDone
<1>6. CASE RequestDies(r)
  BY <1>6 DEF RequestDies
<1> QED BY <1>1, <1>3, <1>4, <1>5, <1>6

\* A step of a request keeps the promise of its revocation.
LEMMA ImmediateStep ==
  ASSUME Inv, NEW r \in Requests, Serve(r)
  PROVE  UndisturbedRevocationIsImmediate'
<1> SUFFICES ASSUME NEW s \in cache', Revoked(s)'
             PROVE  s \in raced' \/ BeingPurged(s)'
  BY DEF UndisturbedRevocationIsImmediate
<1>0. TypeOK /\ StepFits(r) /\ Knows(r) /\ req[r] \in Request
  BY RequestType DEF Inv, RequestsOK
<1>1. cache' \subseteq cache \/ FillCache(r) \/ FillFails(r)
  BY DEF Serve, StartLogin, StartRevokeAll, StartRefresh, StartLogout, FindHistory,
         FindActive, FindSession, PreRead, LockAccount, CommitLogin, CommitRevocation,
         CommitRotation, RefuseRotation, PurgeCache, DeleteEntry, PurgeFails,
         PurgeDone, AnswerRefused, RequestDies
<1>2. CASE s \notin cache
  <2>1. /\ FillCache(r) \/ FillFails(r)
        /\ s = req[r].session /\ session' = session /\ raced' = raced
    BY <1>1, <1>2 DEF FillCache, FillFails
  <2>2. req[r].at = "fill" /\ req[r].op \in {"login", "refresh"}
    BY <1>0, <2>1, OpOfStep DEF FillCache, FillFails, At
  <2>3. s \in Sessions
    BY <1>0, <2>1, <2>2 DEF Knows, At, Mine
  <2>4. BeingFilled(s) /\ Revoked(s)
    BY <2>1, <2>2 DEF BeingFilled, Revoked
  <2> QED BY <2>1, <2>3, <2>4 DEF Inv, FillsOK
<1>3. CASE s \in cache /\ ~Revoked(s)
  <2>1. s \in req'[r].todo
    BY <1>0, <1>3, NewlyRevoked DEF TypeOK
  <2> QED BY <2>1 DEF BeingPurged
<1>4. CASE s \in cache /\ Revoked(s)
  <2>1. CASE s \in raced
    BY <2>1, OverlapKept
  <2>2. ASSUME NEW x \in Requests, s \in req[x].todo
        PROVE  s \in raced' \/ BeingPurged(s)'
    BY <2>2, TodoMoves, OnlyOneMoves DEF BeingPurged
  <2> QED BY <1>4, <2>1, <2>2 DEF Inv, UndisturbedRevocationIsImmediate, BeingPurged
<1> QED BY <1>2, <1>3, <1>4

-----------------------------------------------------------------------------
(* The invariant is inductive                                              *)

\* Every step of a request.
LEMMA ServeStep ==
  ASSUME Inv, NEW r \in Requests, Serve(r)
  PROVE  Inv'
<1>1. TypeOK'
  BY TypeStep DEF Next
<1>2. Tables' /\ RequestsOK'
  BY ServeTables, RequestsStep
<1>3. LocksOK'
  BY <1>1, LocksStep
<1>4. check' = check
  BY OnlyOneMoves DEF Serve, StartLogin, StartRevokeAll, StartRefresh, StartLogout,
     FindHistory, FindActive, FindSession, PreRead, LockAccount, CommitLogin,
     CommitRevocation, CommitRotation, RefuseRotation, PurgeCache, PurgeFails,
     PurgeDone, FillCache, FillFails, AnswerRefused, RequestDies
<1>5. ChecksOK'
  BY <1>4 DEF Inv, ChecksOK
<1> QED BY <1>1, <1>2, <1>3, <1>5, FillsStep, ImmediateStep DEF Inv

\* Steps that leave the tables, the requests and the locks alone.
LEMMA QuietInv ==
  ASSUME Inv, UNCHANGED <<session, token, lock, req, known>>
  PROVE  Tables' /\ RequestsOK' /\ LocksOK'
<1>1. Tables'
  BY QuietTables DEF Inv, Tables, KnownIssued
<1>2. RequestsOK'
  BY DEF Inv, RequestsOK, StepFits, Knows, Mine, At, Revoked
<1>3. LocksOK'
  <2>1. \A r \in Requests : ReadUnderLock(r)' = ReadUnderLock(r)
    BY DEF ReadUnderLock, ActiveSessions, RotationAllowed, Active
  <2> QED BY <2>1 DEF Inv, LocksOK, At
<1> QED BY <1>1, <1>2, <1>3

\* A protected request reads a session before it writes its entry; what it
\* writes of a session revoked in between was noted by the revocation.
LEMMA AuthenticateStep ==
  ASSUME Inv, NEW c \in Checks, Authenticate(c)
  PROVE  Inv'
<1>0. TypeOK' /\ UNCHANGED <<session, token, lock, req, known, raced>>
  <2>1. UNCHANGED <<session, token, lock, req, known, raced>>
    BY DEF Authenticate, CheckHit, CheckMiss, CheckRead, CheckFill, CheckEnds
  <2> QED BY <2>1, TypeStep DEF Next
<1>1. ASSUME NEW x \in Checks, check'[x].at \in {"read", "fill"}
      PROVE  /\ check'[x].session \in Sessions
             /\ \/ check'[x] = check[x]
                \/ check'[x].at = "fill" => Active(check'[x].session)
  <2> USE <1>1
  <2>0. check[x] \in Check
    BY DEF Inv, TypeOK
  <2>1. CASE x # c
    BY <2>1 DEF Authenticate, CheckHit, CheckMiss, CheckRead, CheckFill, CheckEnds,
                CheckGoto, Inv, TypeOK, ChecksOK
  <2>2. CASE x = c
    <3>1. ASSUME NEW s \in Sessions, CheckMiss(c, s)
          PROVE  check'[c].at = "read" /\ check'[c].session = s
      BY <3>1 DEF CheckMiss, Inv, TypeOK
    <3>2. CASE CheckRead(c)
      <4>1. check'[c].at \in {"read", "fill"} =>
              /\ check[c].at = "read" /\ Active(check[c].session)
              /\ check'[c].session = check[c].session
        BY <2>0, <2>2, <3>2
           DEF CheckRead, CheckAt, CheckGoto, Inv, TypeOK, Check, NoCheck
      <4> QED BY <2>2, <4>1 DEF Inv, ChecksOK
    <3>3. CASE CheckFill(c) \/ CheckEnds(c) \/ \E s \in Sessions : CheckHit(c, s)
      BY <2>2, <3>3 DEF CheckFill, CheckEnds, CheckHit, NoCheck, Inv, TypeOK
    <3> QED BY <2>2, <3>1, <3>2, <3>3 DEF Authenticate
  <2> QED BY <2>1, <2>2
<1>2. ChecksOK'
  BY <1>1 DEF ChecksOK
<1>3. FillsOK'
  <2> SUFFICES ASSUME NEW s \in Sessions, Revoked(s), BeingFilled(s)'
               PROVE  BeingFilled(s)
    BY <1>0 DEF FillsOK, Revoked, Inv
  <2>1. ASSUME NEW x \in Checks, check'[x].at = "fill", check'[x].session = s
        PROVE  BeingFilled(s)
    BY <1>1, <2>1 DEF Active, Revoked, BeingFilled
  <2> QED BY <1>0, <2>1 DEF BeingFilled
<1>4. UndisturbedRevocationIsImmediate'
  <2> SUFFICES ASSUME NEW s \in cache', Revoked(s), s \notin cache
               PROVE  s \in raced
    BY <1>0 DEF UndisturbedRevocationIsImmediate, Revoked, BeingPurged, Inv
  <2>1. check[c].at = "fill" /\ check[c].session = s
    BY DEF Authenticate, CheckHit, CheckMiss, CheckRead, CheckFill, CheckEnds, CheckAt
  <2> QED BY <2>1 DEF Inv, ChecksOK, FillsOK, BeingFilled
<1> QED BY <1>0, <1>2, <1>3, <1>4, QuietInv DEF Inv

\* An eviction forgets an overlap only when nobody is writing the entry again.
LEMMA EvictStep ==
  ASSUME Inv, NEW s \in Sessions, Evict(s)
  PROVE  Inv'
<1>1. TypeOK' /\ UNCHANGED <<session, token, lock, req, check, known>>
  BY TypeStep DEF Next, Evict
<1>2. FillsOK' /\ UndisturbedRevocationIsImmediate' /\ ChecksOK'
  BY <1>1 DEF Evict, DeleteEntry, NoteDeletion, Inv, FillsOK, BeingFilled, Revoked,
              UndisturbedRevocationIsImmediate, BeingPurged, ChecksOK
<1> QED BY <1>1, <1>2, QuietInv DEF Inv

\* Nothing exists in the beginning.
LEMMA InitInv == ASSUME Init PROVE Inv
<1>0. TypeOK
  BY DEF Init, TypeOK, SessionRow, NoSession, TokenRow, NoToken, Request, NoRequest,
         Check, NoCheck
<1>1. /\ \A s \in Sessions : session[s].state = "absent"
      /\ \A t \in Tokens : /\ token[t].session = None /\ token[t].parent = None
                          /\ ~token[t].used
      /\ known = {} /\ cache = {}
  BY DEF Init, NoSession, NoToken
<1>2. Tables
  BY <1>1 DEF Tables, RowsOK, TokensOK, ParentsOK, AtMostOne, KnownIssued,
              ActiveSessions, Active
<1>3. \A r \in Requests : /\ req[r] = NoRequest /\ req[r].op = "none"
                         /\ req[r].at = "idle" /\ req[r].seen = {}
                         /\ req[r].todo = {}
  BY DEF Init, NoRequest
<1>4. RequestsOK
  BY <1>3 DEF RequestsOK, StepFits, StepsOf, Knows, At
<1>5. LocksOK /\ ChecksOK
  BY <1>3 DEF LocksOK, ChecksOK, Init, At, NoCheck
<1>6. FillsOK /\ UndisturbedRevocationIsImmediate
  BY <1>1 DEF FillsOK, UndisturbedRevocationIsImmediate, Revoked
<1> QED BY <1>0, <1>2, <1>4, <1>5, <1>6 DEF Inv

\* No step breaks the invariant.
LEMMA InvStep == Inv /\ [Next]_vars => Inv'
<1> SUFFICES ASSUME Inv, [Next]_vars PROVE Inv'
  OBVIOUS
<1>1. CASE UNCHANGED vars
  <2>1. TypeOK' /\ Tables' /\ RequestsOK' /\ LocksOK'
    BY <1>1, TypeStep, QuietInv DEF vars
  <2>2. ChecksOK' /\ FillsOK' /\ UndisturbedRevocationIsImmediate'
    BY <1>1 DEF vars, Inv, ChecksOK, FillsOK, BeingFilled, Revoked, BeingPurged,
                UndisturbedRevocationIsImmediate
  <2> QED BY <2>1, <2>2 DEF Inv
<1> QED BY <1>1, ServeStep, AuthenticateStep, EvictStep DEF Next

\* The invariant holds in every reachable state.
THEOREM SessionsInvariant == Spec => []Inv
BY InitInv, InvStep, PTL DEF Spec

-----------------------------------------------------------------------------
(* The properties                                                          *)

\* Rows, tokens, cache entries, locks, requests and checks keep their types.
THEOREM SessionsTypeCorrect == Spec => []TypeOK
BY SessionsInvariant, PTL DEF Inv

\* Logins that race on one account leave it with one active session: the later
\* one reads under the lock what the earlier one has committed.
THEOREM LoginsAreExclusive == Spec => []OneActiveSession
<1>1. Inv => OneActiveSession
  <2> SUFFICES ASSUME Inv, NEW u \in Users
               PROVE  Cardinality(ActiveSessions(u)) <= 1
    BY DEF OneActiveSession
  <2>1. CASE ActiveSessions(u) = {}
    BY <2>1, FS_EmptySet
  <2>2. CASE ActiveSessions(u) # {}
    <3>1. PICK s \in ActiveSessions(u) : TRUE
      BY <2>2
    <3>2. ActiveSessions(u) = {s}
      BY <3>1 DEF Inv, Tables, AtMostOne
    <3> QED BY <3>2, FS_Singleton
  <2> QED BY <2>1, <2>2
<1> QED BY <1>1, SessionsInvariant, PTL

\* No token is exchanged twice, and all but the last of a session are used.
THEOREM RotationsFormAChain == Spec => []RotationIsLinear
<1>1. Inv => RotationIsLinear
  BY DEF Inv, Tables, TokensOK, ParentsOK, RotationIsLinear
<1> QED BY <1>1, SessionsInvariant, PTL

\* When the deletions of a revocation are over, an entry that still admits the
\* session was written or kept by somebody the revocation overlapped.
THEOREM RevocationIsImmediate == Spec => []UndisturbedRevocationIsImmediate
BY SessionsInvariant, PTL DEF Inv

\* A logout that is answered has ended its session, unless its token was used.
THEOREM LogoutEnds == Spec => LogoutEndsSession
<1>1. ASSUME Inv, NEW r \in Requests, req[r].op = "logout",
             FindSession(r) \/ PurgeDone(r), req'[r] = NoRequest
      PROVE  IF At(r, "find")
               THEN token[req[r].token].used \/ Revoked(token[req[r].token].session)
               ELSE Revoked(req[r].session)
  <2>0. /\ TypeOK /\ Tables /\ StepFits(r) /\ Knows(r) /\ req[r] \in Request
    BY <1>1, RequestType DEF Inv, RequestsOK
  <2>1. CASE FindSession(r)
    <3> DEFINE t == req[r].token
               s == token[t].session
               q == [req[r] EXCEPT !.at = "preread", !.session = s,
                                   !.user = session[s].user, !.token = None]
    <3>1. At(r, "find") /\ t \in Tokens /\ s \in Sessions
          /\ session[s].state # "absent"
      BY <2>0, <2>1 DEF FindSession, Knows, Tables, TokensOK, TypeOK, TokenRow
    <3>2. ~(CurrentTokenOf(s, t) /\ Active(s))
      <4>1. q.at = "preread" /\ NoRequest.at = "idle"
        BY <2>0 DEF Request, NoRequest
      <4>2. CurrentTokenOf(s, t) /\ Active(s) => req'[r] = q
        BY <2>0, <2>1 DEF FindSession, TypeOK
      <4> HIDE DEF q
      <4> QED BY <1>1, <4>1, <4>2
    <3>3. ~Active(s) => Revoked(s)
      BY <2>0, <3>1 DEF Active, Revoked, TypeOK, SessionRow
    <3>4. ~token[t].used => session[s].token = t
      BY <2>0, <3>1 DEF Tables, TokensOK
    <3> QED BY <3>1, <3>2, <3>3, <3>4 DEF CurrentTokenOf
  <2>2. CASE PurgeDone(r)
    BY <1>1, <2>0, <2>2 DEF PurgeDone, At, Knows
  <2> QED BY <1>1, <2>1, <2>2
<1>2. Inv /\ [Next]_vars =>
        [\A r \in Requests :
           /\ req[r].op = "logout" /\ req'[r] = NoRequest
           /\ FindSession(r) \/ PurgeDone(r)
           => IF At(r, "find")
                THEN token[req[r].token].used \/ Revoked(token[req[r].token].session)
                ELSE Revoked(req[r].session)]_vars
  BY <1>1
<1> QED BY <1>2, SessionsInvariant, PTL DEF Spec, LogoutEndsSession

-----------------------------------------------------------------------------
(* The transactions are the atomic operations of SessionRegistry           *)

\* What the registry calls live is what the code calls active.
LEMMA SameSessions ==
  /\ \A s : Registry!Live(s) <=> Active(s)
  /\ \A u : Registry!LiveSessions(u) = ActiveSessions(u)
BY DEF Registry!Live, Registry!LiveSessions, Active, ActiveSessions

\* A login, committed, is the login of the registry.
LEMMA LoginIsAtomic ==
  ASSUME Inv, NEW r \in Requests, NEW s \in Sessions, NEW t \in Tokens,
         CommitLogin(r, s, t)
  PROVE  Registry!Login(req[r].user, s, t) /\ req[r].user \in Users
<1>1. /\ req[r].seen = Registry!LiveSessions(req[r].user) /\ req[r].user \in Users
      /\ session \in [Sessions -> SessionRow]
  BY SeenAtCommit, SameSessions DEF CommitLogin, Inv, RequestsOK, StepFits, TypeOK
<1>2. session' = [Registry!Ended(req[r].seen, "NEW_LOGIN") EXCEPT ![s] =
        [state |-> "active", user |-> req[r].user, token |-> t, reason |-> None]]
  BY DEF CommitLogin, RevokedRow, Registry!Ended
<1> QED BY <1>1, <1>2 DEF CommitLogin, Registry!Login, Registry!Unissued

\* A revocation, committed, ends what it is for, or finds it ended.
LEMMA RevocationIsAtomic ==
  ASSUME Inv, NEW r \in Requests, CommitRevocation(r)
  PROVE  Registry!Next \/ UNCHANGED Registry!vars
<1> USE DEF Registry!Next
<1>0. TypeOK /\ StepFits(r) /\ Knows(r) /\ At(r, "commit")
      /\ req[r].op \in {"reuse", "logout", "revokeAll"}
  BY DEF Inv, RequestsOK, CommitRevocation
<1>1. session' = Registry!Ended(req[r].seen, Reason(req[r].op)) /\ token' = token
  BY DEF CommitRevocation, RevokedRow, Registry!Ended
<1>2. CASE req[r].op = "revokeAll"
  <2>1. Registry!PasswordReset(req[r].user)
    BY <1>0, <1>1, <1>2, SeenAtCommit, SameSessions
       DEF Registry!PasswordReset, Reason
  <2> QED BY <1>0, <1>2, <2>1 DEF StepFits
<1>3. CASE req[r].op \in {"reuse", "logout"} /\ req[r].seen = {}
  <2>1. session' = session
    BY <1>0, <1>1, <1>3 DEF Registry!Ended, TypeOK
  <2> QED BY <1>1, <2>1 DEF Registry!vars
<1>4. CASE req[r].op \in {"reuse", "logout"} /\ req[r].seen # {}
  <2> DEFINE s == req[r].session
  <2>1. req[r].seen = {s} /\ Registry!Live(s) /\ s \in Sessions
    BY <1>0, <1>4, SeenAtCommit, SameSessions DEF ActiveSessions
  <2>2. CASE req[r].op = "logout"
    <3>1. Registry!Logout(s)
      BY <1>1, <2>1, <2>2 DEF Registry!Logout, Reason
    <3> QED BY <2>1, <3>1
  <2>3. CASE req[r].op = "reuse"
    <3>1. Registry!Reuse(s)
      BY <1>0, <1>1, <2>1, <2>3 DEF Registry!Reuse, Reason, Knows
    <3> QED BY <2>1, <3>1
  <2> QED BY <1>4, <2>2, <2>3
<1> QED BY <1>0, <1>2, <1>3, <1>4

\* A rotation, committed, is the rotation of the registry.
LEMMA RotationIsAtomic ==
  ASSUME Inv, NEW r \in Requests, NEW t \in Tokens, CommitRotation(r, t)
  PROVE  Registry!Rotate(req[r].session, t) /\ req[r].session \in Sessions
<1> DEFINE s == req[r].session
           old == req[r].token
<1>0. /\ TypeOK /\ RotationAllowed(s, old) /\ s \in Sessions
      /\ session[s].user = req[r].user /\ session[s].reason = None
      /\ session[s].state = "active" /\ session[s].token = old
  BY SeenAtCommit
     DEF Inv, RequestsOK, CommitRotation, Knows, Mine, At, Tables, RowsOK,
         RotationAllowed, Active
<1>1. session' = [session EXCEPT ![s].token = t]
  <2>1. session[s] \in SessionRow
    BY <1>0 DEF TypeOK
  <2>2. [session[s] EXCEPT !.token = t]
          = [state |-> "active", user |-> req[r].user, token |-> t, reason |-> None]
    BY <1>0, <2>1 DEF SessionRow
  <2> QED BY <2>2 DEF CommitRotation
<1>2. token' = [token EXCEPT ![session[s].token].used = TRUE,
                  ![t] = [session |-> s, used |-> FALSE, parent |-> session[s].token]]
  BY <1>0 DEF CommitRotation
<1>3. Registry!Live(s) /\ Registry!Unissued(t)
  BY <1>0 DEF CommitRotation, Registry!Live, Registry!Unissued
<1>4. Registry!Rotate(s, t)
  <2> HIDE DEF s
  <2> QED BY <1>1, <1>2, <1>3 DEF Registry!Rotate
<1> QED BY <1>0, <1>4

\* Each step of a request is the atomic operation, at its commit, or nothing.
LEMMA RegistryStep ==
  ASSUME Inv, NEW r \in Requests, Serve(r)
  PROVE  Registry!Next \/ UNCHANGED Registry!vars
<1>1. CASE Commits(r)
  BY <1>1, LoginIsAtomic, RevocationIsAtomic, RotationIsAtomic
     DEF Commits, Registry!Next
<1>2. CASE ~Commits(r)
  BY <1>2, QuietStep DEF Registry!vars
<1> QED BY <1>1, <1>2

\* The sessions' transactions implement their atomic specification.
THEOREM SessionsImplementRegistry == Spec => ImplementsRegistry
<1>1. Init => Registry!Init
  BY DEF Init, NoSession, NoToken, Registry!Init
<1>2. Inv /\ [Next]_vars => [Registry!Next]_(Registry!vars)
  <2> SUFFICES ASSUME Inv, [Next]_vars
               PROVE  Registry!Next \/ UNCHANGED Registry!vars
    OBVIOUS
  <2>1. CASE UNCHANGED vars
    BY <2>1 DEF vars, Registry!vars
  <2>2. ASSUME NEW c \in Checks, Authenticate(c) PROVE UNCHANGED Registry!vars
    BY <2>2 DEF Authenticate, CheckHit, CheckMiss, CheckRead, CheckFill, CheckEnds,
                Registry!vars
  <2>3. ASSUME NEW s \in Sessions, Evict(s) PROVE UNCHANGED Registry!vars
    BY <2>3 DEF Evict, Registry!vars
  <2> QED BY <2>1, <2>2, <2>3, RegistryStep DEF Next
<1> QED BY <1>1, <1>2, SessionsInvariant, PTL
        DEF Spec, ImplementsRegistry, Registry!Spec
=============================================================================
