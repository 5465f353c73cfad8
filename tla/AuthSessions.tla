---------------------------- MODULE AuthSessions ----------------------------
(***************************************************************************)
(* Authentication sessions: AuthSessionService over the session tables of  *)
(* PostgreSQL (TypeormAuthRepository) and the session cache in Redis, by   *)
(* any number of API instances.  A transaction is its unlocked read, the   *)
(* account lock with the reads under it, and its commit.  The expiry of    *)
(* sessions and access tokens is a refusal that may come at any time.      *)
(***************************************************************************)
EXTENDS Naturals, FiniteSets

CONSTANTS Users, Sessions, Tokens,  \* accounts, session ids, refresh tokens
          Requests,  \* login, refresh, logout and reset requests in flight
          Checks,    \* protected requests in flight
          Faults,    \* whether API processes die and Redis commands fail
          None

ASSUME SessionsAssumption ==
  /\ Faults \in BOOLEAN
  /\ None \notin Users \cup Sessions \cup Tokens \cup Requests

VARIABLES
  session,    \* auth_sessions
  token,      \* session_refresh_tokens
  cache,      \* sessions with an entry in Redis (every entry says active)
  lock,       \* lock[u]: the request whose transaction holds u's account row
  req,        \* req[r]: the request
  check,      \* check[c]: a run of AuthSessionGuard
  known,      \* refresh tokens that reached a client
  raced       \* history: revoked sessions whose entry outlived the revocation or
              \* was being written then, and has not been deleted since

vars == <<session, token, cache, lock, req, check, known, raced>>

Reasons == {"NEW_LOGIN", "REFRESH_REUSE", "LOGOUT", "PASSWORD_RESET"}

SessionRow == [state: {"absent", "active", "revoked"}, user: Users \cup {None},
               token: Tokens \cup {None}, reason: Reasons \cup {None}]

NoSession == [state |-> "absent", user |-> None, token |-> None, reason |-> None]

\* parent is history: the token this one was rotated from.
TokenRow == [session: Sessions \cup {None}, used: BOOLEAN,
             parent: Tokens \cup {None}]

NoToken == [session |-> None, used |-> FALSE, parent |-> None]

\* seen: the active sessions read under the lock; todo: cache entries to delete.
Request == [op: {"none", "login", "refresh", "reuse", "logout", "revokeAll"},
            at: {"idle", "history", "active", "find", "preread", "lock",
                 "commit", "purge", "fill", "refused"},
            user: Users \cup {None}, session: Sessions \cup {None},
            token: Tokens \cup {None}, next: Tokens \cup {None},
            seen: SUBSET Sessions, todo: SUBSET Sessions]

NoRequest == [op |-> "none", at |-> "idle", user |-> None, session |-> None,
              token |-> None, next |-> None, seen |-> {}, todo |-> {}]

Check == [at: {"idle", "read", "fill", "accepted"}, session: Sessions \cup {None}]

NoCheck == [at |-> "idle", session |-> None]

TypeOK ==
  /\ session \in [Sessions -> SessionRow]
  /\ token \in [Tokens -> TokenRow]
  /\ cache \subseteq Sessions
  /\ lock \in [Users -> Requests \cup {None}]
  /\ req \in [Requests -> Request]
  /\ check \in [Checks -> Check]
  /\ known \subseteq Tokens
  /\ raced \subseteq Sessions

Init ==
  /\ session = [s \in Sessions |-> NoSession]
  /\ token = [t \in Tokens |-> NoToken]
  /\ cache = {}
  /\ lock = [u \in Users |-> None]
  /\ req = [r \in Requests |-> NoRequest]
  /\ check = [c \in Checks |-> NoCheck]
  /\ known = {}
  /\ raced = {}

Active(s) == session[s].state = "active"

Revoked(s) == session[s].state = "revoked"

ActiveSessions(u) == {s \in Sessions : Active(s) /\ session[s].user = u}

Registry == INSTANCE SessionRegistry WITH session <- session, token <- token

At(r, step) == req[r].at = step

Goto(r, step) == req' = [req EXCEPT ![r].at = step]

Finish(r) == req' = [req EXCEPT ![r] = NoRequest]

-----------------------------------------------------------------------------
(* Requests begin; what they read before they lock anything.               *)

\* The end of completeLogin and of resetPassword.
StartLogin(r, u) ==
  /\ At(r, "idle")
  /\ req' = [req EXCEPT ![r] = [NoRequest EXCEPT !.op = "login", !.at = "lock",
                                                 !.user = u]]
  /\ UNCHANGED <<session, token, cache, lock, check, known, raced>>

StartRevokeAll(r, u) ==
  /\ At(r, "idle")
  /\ req' = [req EXCEPT ![r] = [NoRequest EXCEPT !.op = "revokeAll",
                                                 !.at = "lock", !.user = u]]
  /\ UNCHANGED <<session, token, cache, lock, check, known, raced>>

\* CsrfOriginGuard.resolveSession: the current token of any session, or a used one
\* of an active session.  A token that was replaced is never current again, so
\* that the guard's reads are one step at the last of them.
PassesGuard(t) ==
  LET s == token[t].session
  IN  session[s].token = t \/ Active(s)

StartRefresh(r, t) ==
  /\ At(r, "idle") /\ t \in known /\ PassesGuard(t)
  /\ req' = [req EXCEPT ![r] = [NoRequest EXCEPT !.op = "refresh",
                                                 !.at = "history", !.token = t]]
  /\ UNCHANGED <<session, token, cache, lock, check, known, raced>>

StartLogout(r, t) ==
  /\ At(r, "idle") /\ t \in known /\ PassesGuard(t)
  /\ req' = [req EXCEPT ![r] = [NoRequest EXCEPT !.op = "logout", !.at = "find",
                                                 !.token = t]]
  /\ UNCHANGED <<session, token, cache, lock, check, known, raced>>

\* findRefreshTokenHistoryByHash: a used token turns the refresh into a
\* revocation of its session.
FindHistory(r) ==
  LET t == req[r].token
      s == token[t].session
      q == [req[r] EXCEPT !.session = s, !.user = session[s].user]
  IN  /\ At(r, "history")
      /\ req' = [req EXCEPT ![r] =
                   IF token[t].used
                     THEN [q EXCEPT !.op = "reuse", !.at = "preread", !.token = None]
                     ELSE [q EXCEPT !.at = "active"]]
      /\ UNCHANGED <<session, token, cache, lock, check, known, raced>>

\* findActiveSessionById and the comparisons after it; the session may have
\* expired.
FindActive(r) ==
  LET s == req[r].session
  IN  /\ At(r, "active")
      /\ \/ Active(s) /\ session[s].token = req[r].token /\ Goto(r, "preread")
         \/ Goto(r, "refused")
      /\ UNCHANGED <<session, token, cache, lock, check, known, raced>>

\* The hash stored with the session is the one of its login.
FirstTokenOf(s, t) == token[t].parent = None

\* findSessionByRefreshTokenHash
CurrentTokenOf(s, t) == session[s].token = t

\* Only the current token of an active session leads on, any other is answered
\* 204 at once.
FindSession(r) ==
  LET s == token[req[r].token].session
  IN  /\ At(r, "find")
      /\ IF CurrentTokenOf(s, req[r].token) /\ Active(s)
           THEN req' = [req EXCEPT ![r] =
                          [@ EXCEPT !.at = "preread", !.session = s,
                                    !.user = session[s].user, !.token = None]]
           ELSE Finish(r)
      /\ UNCHANGED <<session, token, cache, lock, check, known, raced>>

\* The unlocked read that begins revokeSession and rotateRefreshToken.
PreRead(r) ==
  /\ At(r, "preread")
  /\ IF Active(req[r].session) THEN Goto(r, "lock")
     ELSE IF req[r].op = "refresh" THEN Goto(r, "refused")
     ELSE req' = [req EXCEPT ![r] = [@ EXCEPT !.at = "purge",
                                              !.todo = {req[r].session}]]
  /\ UNCHANGED <<session, token, cache, lock, check, known, raced>>

-----------------------------------------------------------------------------
(* Under the account lock.                                                 *)

\* lockAccount without the pessimistic_write mode.
NoRowLock(u) == TRUE

RowFree(u) == lock[u] = None

\* A rotation that trusts what it read before it had the lock.
TrustPreRead(s, t) == TRUE

\* The comparisons rotateRefreshToken repeats under the lock.
RotationAllowed(s, t) == Active(s) /\ session[s].token = t /\ ~token[t].used

ReadUnderLock(r) ==
  CASE req[r].op \in {"login", "revokeAll"} -> ActiveSessions(req[r].user)
    [] req[r].op \in {"reuse", "logout"} ->
         {req[r].session} \cap ActiveSessions(req[r].user)
    [] OTHER -> IF RotationAllowed(req[r].session, req[r].token)
                  THEN {req[r].session} ELSE {}

LockAccount(r) ==
  /\ At(r, "lock")
  /\ RowFree(req[r].user)
  /\ lock' = [lock EXCEPT ![req[r].user] = r]
  /\ req' = [req EXCEPT ![r] = [@ EXCEPT !.at = "commit",
                                          !.seen = ReadUnderLock(r)]]
  /\ UNCHANGED <<session, token, cache, check, known, raced>>

Release(r) == lock' = [u \in Users |-> IF lock[u] = r THEN None ELSE lock[u]]

\* Somebody read s as active and has yet to write the cache.
BeingFilled(s) ==
  \/ \E c \in Checks : check[c].at = "fill" /\ check[c].session = s
  \/ \E r \in Requests : /\ req[r].op \in {"login", "refresh"}
                         /\ req[r].at \in {"purge", "fill"}
                         /\ req[r].session = s

\* Somebody revoked s and has yet to delete its cache entry.
BeingPurged(s) == \E r \in Requests : s \in req[r].todo

RevokedRow(s, reason) ==
  [session[s] EXCEPT !.state = "revoked", !.reason = reason]

NoteOverlap(set) == raced' = raced \cup {s \in set : BeingFilled(s)}

\* createExclusiveSession revokes what it read and inserts session and token.
CommitLogin(r, s, t) ==
  /\ At(r, "commit") /\ req[r].op = "login"
  /\ session[s].state = "absent" /\ token[t].session = None
  /\ session' = [x \in Sessions |->
       IF x = s THEN [state |-> "active", user |-> req[r].user, token |-> t,
                      reason |-> None]
       ELSE IF x \in req[r].seen THEN RevokedRow(x, "NEW_LOGIN")
       ELSE session[x]]
  /\ token' = [token EXCEPT ![t].session = s]
  /\ req' = [req EXCEPT ![r] = [@ EXCEPT !.at = "purge", !.session = s,
                                          !.next = t, !.seen = {},
                                          !.todo = req[r].seen]]
  /\ Release(r)
  /\ NoteOverlap(req[r].seen)
  /\ UNCHANGED <<cache, check, known>>

\* The name of the operation stored for its SessionRevocationReason.
OperationName(op) == op

Reason(op) ==
  CASE op = "reuse" -> "REFRESH_REUSE"
    [] op = "logout" -> "LOGOUT"
    [] op = "revokeAll" -> "PASSWORD_RESET"

\* revokeSession and revokeAllSessions; a session that somebody else revoked
\* stays as it is, its cache entry is deleted all the same.
CommitRevocation(r) ==
  /\ At(r, "commit") /\ req[r].op \in {"reuse", "logout", "revokeAll"}
  /\ session' = [s \in Sessions |->
       IF s \in req[r].seen THEN RevokedRow(s, Reason(req[r].op))
                            ELSE session[s]]
  /\ req' = [req EXCEPT ![r] =
       [@ EXCEPT !.at = "purge", !.seen = {},
                 !.todo = IF req[r].op = "revokeAll" THEN req[r].seen
                                                     ELSE {req[r].session}]]
  /\ Release(r)
  /\ NoteOverlap(req[r].seen)
  /\ UNCHANGED <<token, cache, check, known>>

\* The current token is used and the next one replaces it in the session read
\* under the lock, which was active then.
CommitRotation(r, t) ==
  LET s == req[r].session
      old == req[r].token
  IN  /\ At(r, "commit") /\ req[r].op = "refresh" /\ req[r].seen # {}
      /\ token[t].session = None
      /\ token' = [token EXCEPT ![old].used = TRUE,
                     ![t] = [session |-> s, used |-> FALSE, parent |-> old]]
      /\ session' = [session EXCEPT ![s] =
                       [state |-> "active", user |-> req[r].user, token |-> t,
                        reason |-> None]]
      /\ req' = [req EXCEPT ![r] = [@ EXCEPT !.at = "fill", !.next = t,
                                              !.seen = {}]]
      /\ Release(r)
      /\ UNCHANGED <<cache, check, known, raced>>

RefuseRotation(r) ==
  /\ At(r, "commit") /\ req[r].op = "refresh" /\ req[r].seen = {}
  /\ Goto(r, "refused")
  /\ Release(r)
  /\ UNCHANGED <<session, token, cache, check, known, raced>>

-----------------------------------------------------------------------------
(* After the commit: Redis, then the answer.                               *)

\* deleteSessionCache under another key: the entry stays.
KeepEntry(s) == UNCHANGED cache

DeleteEntry(s) == cache' = cache \ {s}

NoteDeletion(s) == raced' = IF BeingFilled(s) THEN raced ELSE raced \ {s}

PurgeCache(r, s) ==
  /\ At(r, "purge") /\ s \in req[r].todo
  /\ DeleteEntry(s) /\ NoteDeletion(s)
  /\ req' = [req EXCEPT ![r].todo = @ \ {s}]
  /\ UNCHANGED <<session, token, lock, check, known>>

\* DEL fails: login and reset go on, logout and refresh answer 503.
PurgeFails(r, s) ==
  /\ At(r, "purge") /\ s \in req[r].todo
  /\ Faults
  /\ raced' = raced \cup ({s} \cap cache)
  /\ IF req[r].op \in {"login", "revokeAll"}
       THEN req' = [req EXCEPT ![r].todo = @ \ {s}]
       ELSE Finish(r)
  /\ UNCHANGED <<session, token, cache, lock, check, known>>

PurgeDone(r) ==
  /\ At(r, "purge") /\ req[r].todo = {}
  /\ IF req[r].op = "login" THEN Goto(r, "fill") ELSE Finish(r)
  /\ UNCHANGED <<session, token, cache, lock, check, known, raced>>

\* setSessionCache, then the tokens are issued and delivered.
FillCache(r) ==
  /\ At(r, "fill")
  /\ cache' = cache \cup {req[r].session}
  /\ known' = known \cup {req[r].next}
  /\ Finish(r)
  /\ UNCHANGED <<session, token, lock, check, raced>>

\* SET fails or its reply is lost: 503, and the new tokens reach nobody.
FillFails(r) ==
  /\ At(r, "fill")
  /\ Faults
  /\ cache' \in {cache, cache \cup {req[r].session}}
  /\ Finish(r)
  /\ UNCHANGED <<session, token, lock, check, known, raced>>

\* 401 or, when rotateRefreshToken threw, 500.
AnswerRefused(r) ==
  /\ At(r, "refused")
  /\ Finish(r)
  /\ UNCHANGED <<session, token, cache, lock, check, known, raced>>

\* A database error or the death of the API process.
RequestDies(r) ==
  /\ ~At(r, "idle")
  /\ Faults
  /\ Finish(r)
  /\ Release(r)
  /\ raced' = raced \cup (req[r].todo \cap cache)
  /\ UNCHANGED <<session, token, cache, check, known>>

-----------------------------------------------------------------------------
(* Protected requests: AuthSessionGuard and validateSession.               *)

CheckAt(c, step) == check[c].at = step

CheckGoto(c, step) == check' = [check EXCEPT ![c].at = step]

\* A login or refresh has delivered an access token of s.
Presentable(s) == \E t \in known : token[t].session = s

\* The cache decides alone.
CheckHit(c, s) ==
  /\ CheckAt(c, "idle") /\ Presentable(s) /\ s \in cache
  /\ check' = [check EXCEPT ![c] = [at |-> "accepted", session |-> None]]
  /\ UNCHANGED <<session, token, cache, lock, req, known, raced>>

\* No entry, or Redis is unavailable.
CheckMiss(c, s) ==
  /\ CheckAt(c, "idle") /\ Presentable(s)
  /\ s \notin cache \/ Faults
  /\ check' = [check EXCEPT ![c] = [at |-> "read", session |-> s]]
  /\ UNCHANGED <<session, token, cache, lock, req, known, raced>>

CheckRead(c) ==
  /\ CheckAt(c, "read")
  /\ IF Active(check[c].session) THEN CheckGoto(c, "fill")
                                 ELSE check' = [check EXCEPT ![c] = NoCheck]
  /\ UNCHANGED <<session, token, cache, lock, req, known, raced>>

\* The request is accepted, also when the entry cannot be written.
CheckFill(c) ==
  /\ CheckAt(c, "fill")
  /\ \/ cache' = cache \cup {check[c].session}
     \/ Faults /\ UNCHANGED cache
  /\ check' = [check EXCEPT ![c] = NoCheck]
  /\ UNCHANGED <<session, token, lock, req, known, raced>>

\* The answer; or a refusal (expiry), or the death of the API process.
CheckEnds(c) ==
  /\ ~CheckAt(c, "idle")
  /\ check' = [check EXCEPT ![c] = NoCheck]
  /\ UNCHANGED <<session, token, cache, lock, req, known, raced>>

-----------------------------------------------------------------------------
Evict(s) ==
  /\ s \in cache
  /\ DeleteEntry(s) /\ NoteDeletion(s)
  /\ UNCHANGED <<session, token, lock, req, check, known>>

Serve(r) ==
  \/ \E u \in Users : StartLogin(r, u) \/ StartRevokeAll(r, u)
  \/ \E t \in Tokens : StartRefresh(r, t) \/ StartLogout(r, t)
  \/ FindHistory(r) \/ FindActive(r) \/ FindSession(r) \/ PreRead(r)
  \/ LockAccount(r)
  \/ \E s \in Sessions, t \in Tokens : CommitLogin(r, s, t)
  \/ CommitRevocation(r)
  \/ \E t \in Tokens : CommitRotation(r, t)
  \/ RefuseRotation(r)
  \/ \E s \in Sessions : PurgeCache(r, s) \/ PurgeFails(r, s)
  \/ PurgeDone(r) \/ FillCache(r) \/ FillFails(r) \/ AnswerRefused(r)
  \/ RequestDies(r)

Authenticate(c) ==
  \/ \E s \in Sessions : CheckHit(c, s) \/ CheckMiss(c, s)
  \/ CheckRead(c) \/ CheckFill(c) \/ CheckEnds(c)

Next ==
  \/ \E r \in Requests : Serve(r)
  \/ \E c \in Checks : Authenticate(c)
  \/ \E s \in Sessions : Evict(s)

Spec == Init /\ [][Next]_vars

-----------------------------------------------------------------------------
\* However logins, refreshes and revocations interleave, a user has at most one
\* active session: a new login revokes the sessions of logins it raced with.
OneActiveSession ==
  \A u \in Users : Cardinality(ActiveSessions(u)) <= 1

\* A refresh token is exchanged at most once, and the tokens of a session form a
\* chain: every one but the current is used, the current one is not.
RotationIsLinear ==
  /\ \A t, x \in Tokens :
       token[t].parent # None /\ token[t].parent = token[x].parent => t = x
  /\ \A t \in Tokens : token[t].session # None =>
       (token[t].used <=> session[token[t].session].token # t)

\* A revocation takes effect at once: when its cache deletions are done no entry
\* admits the session, unless a deletion failed or the entry was being filled
\* from a read made before the revocation.
UndisturbedRevocationIsImmediate ==
  \A s \in cache : Revoked(s) => s \in raced \/ BeingPurged(s)

\* spec.md: "QUANDO uma rota protegida receber um JWT cujo sessionId esteja
\* revogado, ENTAO o sistema DEVE rejeita-lo imediatamente": a check that begins
\* when the revocation and its cache deletions are over is not a cache hit.
RevokedSessionIsRejected ==
  [][\A c \in Checks, s \in Sessions :
       CheckHit(c, s) => Active(s) \/ BeingPurged(s)]_vars

\* A logout that is answered 204 has ended the session of its token, also one that
\* was rotated after the logout found it; only a token that a refresh had exchanged
\* before leaves its session as it is.
LogoutEndsSession ==
  [][\A r \in Requests :
       /\ req[r].op = "logout" /\ req'[r] = NoRequest
       /\ FindSession(r) \/ PurgeDone(r)
       => IF At(r, "find")
            THEN token[req[r].token].used \/ Revoked(token[req[r].token].session)
            ELSE Revoked(req[r].session)]_vars

\* The transactions of sessions, whatever they read before they have the account
\* lock, do what SessionRegistry does in one step: a revoked session never becomes
\* active again, keeps its first reason and gives out no further token.
ImplementsRegistry == Registry!Spec
=============================================================================
