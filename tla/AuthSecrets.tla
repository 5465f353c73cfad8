---------------------------- MODULE AuthSecrets ----------------------------
(***************************************************************************)
(* The secrets one account receives by e-mail: activation codes, the codes *)
(* of login challenges and password reset tokens.  A request of AuthService*)
(* issues one and enqueues a job, EmailProcessor generates, stores and     *)
(* mails the secret, a later request consumes it.  Secrets are told apart  *)
(* by identity: none is generated twice.  Rate limits and expiry may end a *)
(* request or take a key away at any time.  What a consumed login code or  *)
(* reset token does to sessions is AuthSessions.                           *)
(***************************************************************************)
EXTENDS Naturals, FiniteSets

CONSTANTS Secrets,      \* codes and tokens the workers may generate
          Requests,     \* requests of the account in flight
          Workers,      \* e-mail jobs being processed at a time
          MaxIssues,    \* bound: issuances, numbered in the order of creation
          Deliveries,   \* bound: deliveries of one job
          MaxFailures,  \* MAX_FAILED_LOGINS
          Placeholder,  \* the code of a challenge before its job has run
          None

Issues == 1..MaxIssues

Purposes == {"activation", "login", "reset"}

ASSUME SecretsAssumption ==
  /\ MaxIssues \in Nat /\ Deliveries \in Nat /\ MaxFailures \in Nat \ {0}
  /\ None \notin Secrets \cup Purposes \cup {Placeholder}
  /\ Placeholder \notin Secrets

VARIABLES
  account,   \* users.status, or "absent"
  issued,    \* issuances so far
  purpose,   \* purpose[i]: of issuance i (a login challenge has one issuance)
  valid,     \* issuances some issuance key in Redis names
  left,      \* left[i]: deliveries of the job of i still to come
  cooldown,  \* the resend key exists
  code,      \* the stored activation code
  live,      \* live[i]: the code of login challenge i, None without its key
  current,   \* the challenge the account's key names
  unused,    \* reset tokens with usedAt null, unexpired
  failures,  \* the failed-login counter
  locked,    \* the login-lock key exists
  run,       \* run[w]: a delivery being processed
  req,       \* req[r]: a request
  mailed,    \* secrets that reached the user
  madeFor,   \* history: madeFor[x]: the issuance secret x was generated for
  used,      \* history: secrets that activated, signed in or set a password
  serial     \* history: no two deliveries have been processed at a time

counters == <<cooldown, failures, locked>>
queue == <<issued, purpose, valid, left>>
stored == <<code, live, current, unused>>
history == <<mailed, madeFor, used, serial>>
vars == <<account, counters, queue, stored, run, req, history>>

Run == [at: {"idle", "find", "write", "recheck", "send"},
        issue: Issues \cup {0}, secret: Secrets \cup {None}]

NoRun == [at |-> "idle", issue |-> 0, secret |-> None]

\* known: findLoginChallengeUserId found the account; shut is history: the
\* account was locked when the code was consumed and has been since.
Request == [at: {"idle", "insert", "cooldown", "issue", "cool", "enqueue",
                 "gate", "challenge", "fail", "consumeCode", "activate",
                 "find", "firstGate", "consumeChallenge", "secondGate",
                 "session", "peek", "consumeToken", "password"},
            purpose: Purposes \cup {None}, issue: Issues \cup {0},
            secret: Secrets \cup {None}, known: BOOLEAN, shut: BOOLEAN]

NoRequest == [at |-> "idle", purpose |-> None, issue |-> 0, secret |-> None,
              known |-> FALSE, shut |-> FALSE]

TypeOK ==
  /\ account \in {"absent", "PENDING", "ACTIVE"}
  /\ issued \in 0..MaxIssues
  /\ purpose \in [Issues -> Purposes \cup {None}]
  /\ valid \subseteq Issues /\ left \in [Issues -> 0..Deliveries]
  /\ cooldown \in BOOLEAN /\ locked \in BOOLEAN /\ failures \in 0..MaxFailures
  /\ code \in Secrets \cup {None}
  /\ live \in [Issues -> Secrets \cup {Placeholder, None}]
  /\ current \in Issues \cup {0}
  /\ unused \subseteq Secrets
  /\ run \in [Workers -> Run] /\ req \in [Requests -> Request]
  /\ mailed \subseteq Secrets /\ used \subseteq Secrets
  /\ madeFor \in [Secrets -> Issues \cup {0}] /\ serial \in BOOLEAN

\* A visitor without an account, or a user whose activation is long over.
Init ==
  /\ account \in {"absent", "ACTIVE"}
  /\ issued = 0 /\ purpose = [i \in Issues |-> None]
  /\ valid = {} /\ left = [i \in Issues |-> 0]
  /\ cooldown = FALSE /\ failures = 0 /\ locked = FALSE
  /\ code = None /\ live = [i \in Issues |-> None] /\ current = 0 /\ unused = {}
  /\ run = [w \in Workers |-> NoRun] /\ req = [r \in Requests |-> NoRequest]
  /\ mailed = {} /\ madeFor = [x \in Secrets |-> 0] /\ used = {}
  /\ serial = TRUE

At(r, step) == req[r].at = step

Goto(r, step) == req' = [req EXCEPT ![r].at = step]

Begin(r, step, p) ==
  /\ At(r, "idle")
  /\ req' = [req EXCEPT ![r] = [NoRequest EXCEPT !.at = step, !.purpose = p]]

\* The answer, whatever it is.
Finish(r) == req' = [req EXCEPT ![r] = NoRequest]

\* x is accepted by the check it was made for.
Works(x) == code = x \/ x \in unused \/ \E i \in Issues : live[i] = x

-----------------------------------------------------------------------------
(* Issuing: register, resendEmailVerification, startLogin and              *)
(* requestPasswordReset.                                                   *)

\* The account read by e-mail decides how register goes on.
Register(r) ==
  /\ account # "ACTIVE"
  /\ Begin(r, IF account = "absent" THEN "insert" ELSE "cooldown", "activation")
  /\ UNCHANGED <<account, counters, queue, stored, run, history>>

\* The unique index on the e-mail rejects the second of two registrations.
CreatePendingAccount(r) ==
  /\ At(r, "insert")
  /\ IF account = "absent" THEN account' = "PENDING" /\ Goto(r, "issue")
                           ELSE UNCHANGED account /\ Finish(r)
  /\ UNCHANGED <<counters, queue, stored, run, history>>

Resend(r) ==
  /\ account = "PENDING"
  /\ Begin(r, "cooldown", "activation")
  /\ UNCHANGED <<account, counters, queue, stored, run, history>>

CheckCooldown(r) ==
  /\ At(r, "cooldown")
  /\ IF cooldown THEN Finish(r) ELSE Goto(r, "issue")
  /\ UNCHANGED <<account, counters, queue, stored, run, history>>

ForgotPassword(r) ==
  /\ account = "ACTIVE"
  /\ Begin(r, "issue", "reset")
  /\ UNCHANGED <<account, counters, queue, stored, run, history>>

\* A wrong password is recorded, whatever the status; a right one of an active
\* account has yet to pass the lock.
StartLogin(r) ==
  /\ \/ account = "ACTIVE" /\ Begin(r, "gate", "login")
     \/ account # "absent" /\ Begin(r, "fail", "login")
  /\ UNCHANGED <<account, counters, queue, stored, run, history>>

LoginGate(r) ==
  /\ At(r, "gate")
  /\ IF locked THEN Finish(r) ELSE Goto(r, "challenge")
  /\ UNCHANGED <<account, counters, queue, stored, run, history>>

\* A challenge that leaves the account's previous one usable.
KeepPrevious(i, x) ==
  /\ live' = [live EXCEPT ![i] = x]
  /\ current' = i

\* CREATE_LOGIN_CHALLENGE_LUA: the challenge the account's key names is deleted.
CreateLoginChallenge(i, x) ==
  /\ live' = [j \in Issues |-> IF j = i THEN x
                               ELSE IF j = current THEN None ELSE live[j]]
  /\ current' = i

Number(p) ==
  /\ issued < MaxIssues
  /\ issued' = issued + 1
  /\ purpose' = [purpose EXCEPT ![issued + 1] = p]

Challenge(r) ==
  /\ At(r, "challenge")
  /\ Number("login")
  /\ CreateLoginChallenge(issued + 1, Placeholder)
  /\ req' = [req EXCEPT ![r].at = "issue", ![r].issue = issued + 1]
  /\ UNCHANGED <<account, counters, valid, left, code, unused, run, history>>

\* setIssuance: one key per account, or one per challenge.
SetIssuance(r) ==
  /\ At(r, "issue")
  /\ IF req[r].purpose = "login"
       THEN /\ valid' = valid \cup {req[r].issue}
            /\ Goto(r, "enqueue")
            /\ UNCHANGED <<issued, purpose>>
       ELSE /\ Number(req[r].purpose)
            /\ valid' = {i \in valid : purpose[i] # req[r].purpose}
                          \cup {issued + 1}
            /\ req' = [req EXCEPT ![r].issue = issued + 1,
                 ![r].at = IF req[r].purpose = "activation"
                             THEN "cool" ELSE "enqueue"]
  /\ UNCHANGED <<account, counters, left, stored, run, history>>

SetCooldown(r) ==
  /\ At(r, "cool")
  /\ cooldown' = TRUE
  /\ Goto(r, "enqueue")
  /\ UNCHANGED <<account, failures, locked, queue, stored, run, history>>

Enqueue(r) ==
  /\ At(r, "enqueue")
  /\ left' = [left EXCEPT ![req[r].issue] = Deliveries]
  /\ Finish(r)
  /\ UNCHANGED <<account, counters, issued, purpose, valid, stored, run, history>>

\* INCREMENT_FAILED_LOGIN_LUA
RecordFailedLogin(r) ==
  /\ At(r, "fail")
  /\ failures' = IF failures < MaxFailures THEN failures + 1 ELSE failures
  /\ locked' = (locked \/ failures' = MaxFailures)
  /\ Finish(r)
  /\ UNCHANGED <<account, cooldown, queue, stored, run, history>>

-----------------------------------------------------------------------------
(* Consuming: verifyEmail, completeLogin and resetPassword.                *)

\* A user presents what has been mailed, or guesses wrong (None).
Present(r, step, i, x) ==
  /\ At(r, "idle")
  /\ req' = [req EXCEPT ![r] = [NoRequest EXCEPT !.at = step, !.issue = i,
                                                 !.secret = x]]
  /\ UNCHANGED <<account, counters, queue, stored, run, history>>

VerifyEmail(r, x) == account = "PENDING" /\ Present(r, "consumeCode", 0, x)

VerifyLogin(r, i, x) == purpose[i] = "login" /\ Present(r, "find", i, x)

ResetPassword(r, x) == Present(r, "peek", 0, x)

\* CONSUME_ACTIVATION_LUA; the attempts it counts are read nowhere.
ConsumeActivationCode(r) ==
  /\ At(r, "consumeCode")
  /\ IF code = req[r].secret /\ code # None
       THEN code' = None /\ Goto(r, "activate")
       ELSE UNCHANGED code /\ Finish(r)
  /\ UNCHANGED <<account, counters, queue, live, current, unused, run, history>>

\* The request has what it was for; x is used.
Use(r) == used' = used \cup {req[r].secret}

\* The key of the enumeration for its value.
StatusKey == "Active"

ActiveStatus == "ACTIVE"

ActivateAccount(r) ==
  /\ At(r, "activate")
  /\ account' = ActiveStatus
  /\ Use(r) /\ Finish(r)
  /\ UNCHANGED <<counters, queue, stored, run, mailed, madeFor, serial>>

FindChallenge(r) ==
  /\ At(r, "find")
  /\ LET known == live[req[r].issue] # None
     IN  req' = [req EXCEPT ![r].known = known,
                   ![r].at = IF known THEN "firstGate" ELSE "consumeChallenge"]
  /\ UNCHANGED <<account, counters, queue, stored, run, history>>

FirstGate(r) ==
  /\ At(r, "firstGate")
  /\ IF locked THEN Finish(r) ELSE Goto(r, "consumeChallenge")
  /\ UNCHANGED <<account, counters, queue, stored, run, history>>

\* CONSUME_LOGIN_CHALLENGE_LUA; a refusal counts if the challenge was found.
ConsumeLoginChallenge(r) ==
  LET i == req[r].issue
  IN  /\ At(r, "consumeChallenge")
      /\ IF live[i] # None /\ live[i] = req[r].secret
           THEN /\ live' = [live EXCEPT ![i] = None]
                /\ req' = [req EXCEPT ![r].at = "secondGate", ![r].shut = locked]
           ELSE /\ UNCHANGED live
                /\ IF req[r].known THEN Goto(r, "fail") ELSE Finish(r)
      /\ UNCHANGED <<account, counters, queue, code, current, unused, run,
                     history>>

\* A login that relies on the gate it passed before the code was compared.
AlreadyChecked == FALSE

LockedNow == locked

SecondGate(r) ==
  /\ At(r, "secondGate")
  /\ IF LockedNow THEN Finish(r) ELSE Goto(r, "session")
  /\ UNCHANGED <<account, counters, queue, stored, run, history>>

\* createSessionAfterLogin, for an account that is still active.
CreateSession(r) ==
  /\ At(r, "session") /\ account = "ACTIVE"
  /\ Use(r) /\ Finish(r)
  /\ UNCHANGED <<account, counters, queue, stored, run, mailed, madeFor, serial>>

\* The unlocked read of consumePasswordResetToken.
PeekToken(r) ==
  /\ At(r, "peek")
  /\ IF req[r].secret \in unused THEN Goto(r, "consumeToken") ELSE Finish(r)
  /\ UNCHANGED <<account, counters, queue, stored, run, history>>

\* A transaction that trusts the token it read before it had the lock.
TrustPeek(x) == TRUE

StillUnused(x) == x \in unused

\* The account lock, the second read and the update: every writer of the table
\* holds the lock, so they are one step.
ConsumeToken(r) ==
  /\ At(r, "consumeToken")
  /\ IF StillUnused(req[r].secret)
       THEN unused' = unused \ {req[r].secret} /\ Goto(r, "password")
       ELSE UNCHANGED unused /\ Finish(r)
  /\ UNCHANGED <<account, counters, queue, code, live, current, run, history>>

\* updatePasswordHash, then revokeAll (AuthSessions).
UpdatePassword(r) ==
  /\ At(r, "password")
  /\ Use(r) /\ Finish(r)
  /\ UNCHANGED <<account, counters, queue, stored, run, mailed, madeFor, serial>>

\* A rate limit, an unreachable Redis, a database error or a crash.
RequestEnds(r) ==
  /\ ~At(r, "idle")
  /\ Finish(r)
  /\ UNCHANGED <<account, counters, queue, stored, run, history>>

-----------------------------------------------------------------------------
(* The e-mail worker.  The queue delivers a job at least once: retries,    *)
(* stalled jobs and repeated adds are further deliveries.                  *)

RunAt(w, step) == run[w].at = step

RunGoto(w, step) == run' = [run EXCEPT ![w].at = step]

EndRun(w) == run' = [run EXCEPT ![w] = NoRun]

\* A worker that processes every job it is given.
AnyIssuance(i) == TRUE

IsCurrentIssuance(i) == i \in valid

\* A delivery and the first command of its run, the read of the issuance.
TakeJob(w, i) ==
  /\ RunAt(w, "idle") /\ left[i] > 0
  /\ left' = [left EXCEPT ![i] = @ - 1]
  /\ IF IsCurrentIssuance(i)
       THEN /\ run' = [run EXCEPT ![w] = [at |-> IF purpose[i] = "login"
                                                THEN "find" ELSE "write",
                                         issue |-> i, secret |-> None]]
            /\ serial' = (serial /\ \A v \in Workers : RunAt(v, "idle"))
       ELSE UNCHANGED <<run, serial>>
  /\ UNCHANGED <<account, counters, issued, purpose, valid, stored, req, mailed,
                 madeFor, used>>

FindUser(w) ==
  /\ RunAt(w, "find")
  /\ IF live[run[w].issue] = None THEN EndRun(w) ELSE RunGoto(w, "write")
  /\ UNCHANGED <<account, counters, queue, stored, req, history>>

\* createPasswordResetToken without markResetTokensUsed.
AddToken(x) == unused' = unused \cup {x}

CreateToken(x) == unused' = {x}

\* The secret is generated and stored: setActivationCode, createLoginChallenge
\* or createPasswordResetToken.
Store(w, x) ==
  LET i == run[w].issue
  IN  /\ RunAt(w, "write")
      /\ madeFor[x] = 0
      /\ madeFor' = [madeFor EXCEPT ![x] = i]
      /\ run' = [run EXCEPT ![w].at = "recheck", ![w].secret = x]
      /\ CASE purpose[i] = "activation" ->
                code' = x /\ UNCHANGED <<live, current, unused>>
           [] purpose[i] = "login" ->
                CreateLoginChallenge(i, x) /\ UNCHANGED <<code, unused>>
           [] purpose[i] = "reset" ->
                CreateToken(x) /\ UNCHANGED <<code, live, current>>
      /\ UNCHANGED <<account, counters, queue, req, mailed, used, serial>>

RecheckIssuance(w) ==
  /\ RunAt(w, "recheck")
  /\ IF IsCurrentIssuance(run[w].issue) THEN RunGoto(w, "send") ELSE EndRun(w)
  /\ UNCHANGED <<account, counters, queue, stored, req, history>>

SendMail(w) ==
  /\ RunAt(w, "send")
  /\ mailed' = mailed \cup {run[w].secret}
  /\ EndRun(w)
  /\ UNCHANGED <<account, counters, queue, stored, req, madeFor, used, serial>>

\* SMTP, Redis or PostgreSQL fails, or the worker process dies.
RunFails(w) ==
  /\ ~RunAt(w, "idle")
  /\ EndRun(w)
  /\ UNCHANGED <<account, counters, queue, stored, req, history>>

-----------------------------------------------------------------------------
(* Expiry. *)

ExpireIssuance(i) ==
  /\ i \in valid /\ valid' = valid \ {i}
  /\ UNCHANGED <<account, counters, issued, purpose, left, stored, run, req,
                 history>>

\* A challenge and the account's key to it have one lifetime.
ExpireSecrets ==
  /\ \/ code # None /\ code' = None /\ UNCHANGED <<live, current, unused>>
     \/ /\ current # 0 /\ current' = 0
        /\ live' = [live EXCEPT ![current] = None]
        /\ UNCHANGED <<code, unused>>
     \/ unused # {} /\ unused' = {} /\ UNCHANGED <<code, live, current>>
  /\ UNCHANGED <<account, counters, queue, run, req, history>>

ExpireCooldown ==
  /\ cooldown /\ cooldown' = FALSE
  /\ UNCHANGED <<account, failures, locked, queue, stored, run, req, history>>

ExpireFailures ==
  /\ failures > 0 /\ failures' = 0
  /\ UNCHANGED <<account, cooldown, locked, queue, stored, run, req, history>>

\* The lock is set for as long as the counter, and later than the counter.
ExpireLock ==
  /\ locked /\ failures < MaxFailures
  /\ locked' = FALSE
  /\ req' = [r \in Requests |-> [req[r] EXCEPT !.shut = FALSE]]
  /\ UNCHANGED <<account, cooldown, failures, queue, stored, run, history>>

-----------------------------------------------------------------------------
Issue(r) ==
  \/ Register(r) \/ CreatePendingAccount(r) \/ Resend(r) \/ CheckCooldown(r)
  \/ ForgotPassword(r) \/ StartLogin(r) \/ LoginGate(r) \/ Challenge(r)
  \/ SetIssuance(r) \/ SetCooldown(r) \/ Enqueue(r) \/ RecordFailedLogin(r)

Consume(r) ==
  \/ \E x \in mailed : VerifyEmail(r, x) \/ ResetPassword(r, x)
  \/ \E i \in Issues, x \in mailed \cup {None} : VerifyLogin(r, i, x)
  \/ ConsumeActivationCode(r) \/ ActivateAccount(r)
  \/ FindChallenge(r) \/ FirstGate(r) \/ ConsumeLoginChallenge(r)
  \/ SecondGate(r) \/ CreateSession(r)
  \/ PeekToken(r) \/ ConsumeToken(r) \/ UpdatePassword(r)

Process(w) ==
  \/ \E i \in Issues : TakeJob(w, i)
  \/ FindUser(w)
  \/ \E x \in Secrets : Store(w, x)
  \/ RecheckIssuance(w) \/ SendMail(w) \/ RunFails(w)

Expire ==
  \/ \E i \in Issues : ExpireIssuance(i)
  \/ ExpireSecrets \/ ExpireCooldown \/ ExpireFailures \/ ExpireLock

Next ==
  \/ \E r \in Requests : Issue(r) \/ Consume(r) \/ RequestEnds(r)
  \/ \E w \in Workers : Process(w)
  \/ Expire

Spec == Init /\ [][Next]_vars

-----------------------------------------------------------------------------
\* Of an account's login challenges and of its reset tokens at most one works at
\* any time, also when workers store secrets of several issuances at once.
OneSecretWorks ==
  /\ Cardinality({i \in Issues : live[i] # None}) <= 1
  /\ Cardinality(unused) <= 1

\* A secret activates, signs in or sets a password once, however many requests
\* present it at a time and whatever is delivered again.
SecretUsedOnce ==
  [][\A r \in Requests :
       ActivateAccount(r) \/ CreateSession(r) \/ UpdatePassword(r) =>
         req[r].secret \notin used]_vars

\* A code that is consumed while the account is locked signs nobody in before
\* the lock expires.
LockedLoginFails == \A r \in Requests : At(r, "session") => ~req[r].shut

\* A run of the worker stores a secret and so disables one that was mailed for a
\* newer issuance.
DisablesNewer(w, x) ==
  /\ RunAt(w, "write") /\ RunAt(w, "recheck")'
  /\ x \in mailed /\ Works(x) /\ ~Works(x)' /\ madeFor[x] > run[w].issue

\* While one job is processed at a time, a late or repeated job never disables
\* what was mailed for a newer issuance.
SerialRunsKeepNewer ==
  [][\A w \in Workers, x \in Secrets : serial => ~DisablesNewer(w, x)]_vars

\* spec.md: "QUANDO um novo Desafio de Login for criado para uma Conta, ENTAO o
\* desafio anterior deve ser invalidado": of two challenges the older is dead.
NewChallengeReplacesOld ==
  \A i, j \in Issues :
    i < j /\ purpose[j] = "login" => live[i] = None
=============================================================================
