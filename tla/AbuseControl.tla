---------------------------- MODULE AbuseControl ----------------------------
(***************************************************************************)
(* The counters that slow authentication down: rate limits of the requests *)
(* that send an e-mail and of logins, the failed-login counter and the     *)
(* login lock.  They are Redis keys shared by all API instances; each Lua  *)
(* script is one step.  A key's time to live counts down to zero, when     *)
(* Redis drops the key, so time itself is no part of the state.            *)
(***************************************************************************)
EXTENDS Naturals, FiniteSets, FiniteSetsExt

CONSTANTS Accounts, Ips,
          Operations,   \* register, resend and forgot-password
          Requests,     \* requests in flight over all API instances
          Hour,         \* RATE_LIMIT_TTL_SECONDS and TTL_ONE_HOUR_SECONDS
          LoginWindow,  \* LOGIN_RATE_LIMIT_TTL_SECONDS
          EmailLimit, IpLimit, LoginLimit,  \* ..._RATE_LIMIT
          MaxFailures,  \* MAX_FAILED_LOGINS
          None

ASSUME AbuseAssumption ==
  /\ Hour \in Nat \ {0} /\ LoginWindow \in 1..Hour
  /\ {EmailLimit, IpLimit, LoginLimit, MaxFailures} \subseteq Nat \ {0}
  /\ None \notin Accounts \cup Ips \cup Operations

EmailKey(op, a) == <<"email", op, a>>
IpKey(op, i) == <<"ip", op, i>>
LoginKey(i, a) == <<"login", i, a>>
FailedKey(a) == <<"failed", a>>

EmailKeys == {EmailKey(op, a) : op \in Operations, a \in Accounts}
IpKeys == {IpKey(op, i) : op \in Operations, i \in Ips}
LoginKeys == {LoginKey(i, a) : i \in Ips, a \in Accounts}
FailedKeys == {FailedKey(a) : a \in Accounts}

RateKeys == EmailKeys \cup IpKeys \cup LoginKeys

Limit(k) ==
  CASE k \in EmailKeys -> EmailLimit
    [] k \in IpKeys -> IpLimit
    [] k \in LoginKeys -> LoginLimit
    [] k \in FailedKeys -> MaxFailures

Ttl(k) == IF k \in LoginKeys THEN LoginWindow ELSE Hour

\* Bound: beyond it a counter's value makes no difference.
Cap(k) == IF k \in FailedKeys THEN Limit(k) ELSE Limit(k) + 1

VARIABLES
  count,   \* count[k]: the value of counter k, 0 when Redis has no such key
  ttl,     \* ttl[k]: how long counter k has yet to live
  lock,    \* lock[a]: how long the login lock of account a has yet to live
  req,     \* req[r]: the request
  passed,  \* history: passed[k][n], requests that counter k let pass n ago
  failed   \* history: failed[a][n], failures of account a recorded n ago

vars == <<count, ttl, lock, req, passed, failed>>

Request == [at: {"idle", "email", "ip", "send", "login", "password", "gate",
                 "challenge", "firstGate", "code", "failure", "secondGate",
                 "session"},
            op: Operations \cup {None}, account: Accounts \cup {None},
            ip: Ips \cup {None}]

NoRequest == [at |-> "idle", op |-> None, account |-> None, ip |-> None]

TypeOK ==
  /\ \A k \in RateKeys \cup FailedKeys :
       /\ count[k] \in 0..Cap(k) /\ ttl[k] \in 0..Ttl(k)
       /\ count[k] = 0 <=> ttl[k] = 0
       /\ k \in RateKeys => passed[k] \in [0..(Ttl(k) - 1) -> 0..(Limit(k) + 1)]
  /\ lock \in [Accounts -> 0..Hour]
  /\ req \in [Requests -> Request]
  /\ failed \in [Accounts -> [0..(2 * Hour - 1) -> 0..MaxFailures]]

Init ==
  /\ count = [k \in RateKeys \cup FailedKeys |-> 0]
  /\ ttl = [k \in RateKeys \cup FailedKeys |-> 0]
  /\ lock = [a \in Accounts |-> 0]
  /\ req = [r \in Requests |-> NoRequest]
  /\ passed = [k \in RateKeys |-> [n \in 0..(Ttl(k) - 1) |-> 0]]
  /\ failed = [a \in Accounts |-> [n \in 0..(2 * Hour - 1) |-> 0]]

Lower(a, b) == IF a < b THEN a ELSE b

-----------------------------------------------------------------------------
(* Time                                                                    *)

Down(n) == IF n = 0 THEN 0 ELSE n - 1

Older(ages) ==
  [n \in DOMAIN ages |-> IF n = 0 THEN 0 ELSE ages[n - 1]]

Tick ==
  /\ ttl' = [k \in DOMAIN ttl |-> Down(ttl[k])]
  /\ count' = [k \in DOMAIN count |-> IF ttl[k] = 1 THEN 0 ELSE count[k]]
  /\ lock' = [a \in Accounts |-> Down(lock[a])]
  /\ passed' = [k \in RateKeys |-> Older(passed[k])]
  /\ failed' = [a \in Accounts |-> Older(failed[a])]
  /\ UNCHANGED req

-----------------------------------------------------------------------------
(* INCREMENT_RATE_LIMIT_LUA and INCREMENT_FAILED_LOGIN_LUA                 *)

\* EXPIRE after every INCR.
AlwaysExpire(k) == TRUE

\* EXPIRE by the INCR that finds a key.
ExpireAtSecond(k) == count[k] = 1

\* EXPIRE only by the INCR that created the key.
SetsExpiry(k) == count[k] = 0

Incr(k) ==
  /\ count' = [count EXCEPT ![k] = Lower(@ + 1, Cap(k))]
  /\ ttl' = [ttl EXCEPT ![k] = IF SetsExpiry(k) THEN Ttl(k) ELSE @]

\* A test that lets one request more through.
BeyondLimit(k) == count[k] <= Limit(k)

\* The count the script returns does not exceed the limit.
WithinLimit(k) == count[k] < Limit(k)

NotePassed(k) ==
  passed' = IF WithinLimit(k)
              THEN [passed EXCEPT ![k][0] = Lower(@ + 1, Limit(k) + 1)] ELSE passed

\* The lock only when the limit is reached, not beyond it.
LockOnce(a) == count[FailedKey(a)] = MaxFailures - 1

\* The failure reaches the limit or comes after it.
Locks(a) == count[FailedKey(a)] + 1 >= MaxFailures

\* The window of the rate limit in place of the hour.
LockForWindow == LoginWindow

LockTime == Hour

IncrFailed(a) ==
  /\ Incr(FailedKey(a))
  /\ lock' = IF Locks(a) THEN [lock EXCEPT ![a] = LockTime] ELSE lock
  /\ failed' = [failed EXCEPT ![a][0] = Lower(@ + 1, MaxFailures)]

-----------------------------------------------------------------------------
(* Requests                                                                *)

At(r, step) == req[r].at = step

Goto(r, step) == req' = [req EXCEPT ![r].at = step]

Finish(r) == req' = [req EXCEPT ![r] = NoRequest]

Begin(r, step, op, a, i) ==
  /\ At(r, "idle")
  /\ req' = [req EXCEPT ![r] = [at |-> step, op |-> op, account |-> a, ip |-> i]]
  /\ UNCHANGED <<count, ttl, lock, passed, failed>>

\* register, resendEmailVerification and requestPasswordReset
StartMail(r, op, a, i) == Begin(r, "email", op, a, i)

StartLogin(r, a, i) == Begin(r, "login", None, a, i)

\* completeLogin with the challenge of an account; without one nothing counts.
CompleteLogin(r, a) == Begin(r, "firstGate", None, a, None)

RateKey(r) ==
  CASE At(r, "email") -> EmailKey(req[r].op, req[r].account)
    [] At(r, "ip") -> IpKey(req[r].op, req[r].ip)
    [] At(r, "login") -> LoginKey(req[r].ip, req[r].account)

\* One INCR of a rate limit: 429, or on to the next step.
CountRate(r, step, next) ==
  /\ At(r, step)
  /\ Incr(RateKey(r))
  /\ NotePassed(RateKey(r))
  /\ IF WithinLimit(RateKey(r)) THEN Goto(r, next) ELSE Finish(r)
  /\ UNCHANGED <<lock, failed>>

\* The e-mail counter first: it is used up also when the address is refused next.
CountEmail(r) == CountRate(r, "email", "ip")

CountIp(r) == CountRate(r, "ip", "send")

CountLogin(r) == CountRate(r, "login", "password")

\* The account's password is compared before anybody looks at the lock.
CheckPassword(r) ==
  /\ At(r, "password")
  /\ Goto(r, "gate") \/ Goto(r, "failure")
  /\ UNCHANGED <<count, ttl, lock, passed, failed>>

\* recordFailedLogin: 429 when it locked, otherwise 401.
RecordFailure(r) ==
  /\ At(r, "failure")
  /\ IncrFailed(req[r].account)
  /\ Finish(r)
  /\ UNCHANGED passed

\* isLoginLocked
Gate(r, from, next) ==
  /\ At(r, from)
  /\ IF lock[req[r].account] > 0 THEN Finish(r) ELSE Goto(r, next)
  /\ UNCHANGED <<count, ttl, lock, passed, failed>>

LoginGate(r) == Gate(r, "gate", "challenge")

FirstGate(r) == Gate(r, "firstGate", "code")

SecondGate(r) == Gate(r, "secondGate", "session")

\* consumeLoginChallenge: the code is right, wrong or gone.
ConsumeCode(r) ==
  /\ At(r, "code")
  /\ Goto(r, "secondGate") \/ Goto(r, "failure")
  /\ UNCHANGED <<count, ttl, lock, passed, failed>>

\* The rest of the request; or it ends early: no such account, a pending one, 503.
Answer(r) ==
  /\ ~At(r, "idle")
  /\ Finish(r)
  /\ UNCHANGED <<count, ttl, lock, passed, failed>>

\* A script has run and its reply is lost: the Redis client sends it again, or
\* the request ends with 503.
LostReply(r) ==
  /\ \/ /\ \E step \in {"email", "ip", "login"} : At(r, step)
        /\ Incr(RateKey(r))
        /\ UNCHANGED <<lock, failed>>
     \/ At(r, "failure") /\ IncrFailed(req[r].account)
  /\ UNCHANGED req \/ Finish(r)
  /\ UNCHANGED passed

MailStep(r) ==
  \/ \E op \in Operations, a \in Accounts, i \in Ips : StartMail(r, op, a, i)
  \/ CountEmail(r) \/ CountIp(r)

LoginStep(r) ==
  \/ \E a \in Accounts : CompleteLogin(r, a) \/ \E i \in Ips : StartLogin(r, a, i)
  \/ CountLogin(r) \/ CheckPassword(r) \/ LoginGate(r)
  \/ FirstGate(r) \/ ConsumeCode(r) \/ SecondGate(r) \/ RecordFailure(r)

Next ==
  \/ \E r \in Requests :
       MailStep(r) \/ LoginStep(r) \/ Answer(r) \/ LostReply(r)
  \/ Tick

Spec == Init /\ [][Next]_vars

\* Time passes; no client has to do anything.
Fairness == WF_vars(Tick)

-----------------------------------------------------------------------------
SumOf(ages, N) == MapThenSumSet(LAMBDA n : ages[n], N)

\* A limit is one of fixed windows that begin with a request: in no period as long
\* as a window does a counter let more than twice its limit pass, however requests,
\* expiries and lost replies fall together.
BurstIsBounded ==
  \A k \in RateKeys : SumOf(passed[k], DOMAIN passed[k]) <= 2 * Limit(k)

Recent(a) == {n \in DOMAIN failed[a] : failed[a][n] > 0}

\* An account is locked only by MaxFailures failures within one hour, never by
\* failures of different hours, and for one hour from the last of them: a failure
\* beyond the limit, also one during the lock, begins the hour again.
LockFollowsFailures ==
  \A a \in Accounts :
    /\ lock[a] > 0 =>
         LET last == Hour - lock[a]
         IN  SumOf(failed[a], last..(last + Hour - 1)) >= MaxFailures
    /\ count[FailedKey(a)] = MaxFailures => lock[a] = Hour - Min(Recent(a))

\* No gate lets a login pass for an account that has used up its failures of the
\* hour: the lock never ends before the counter that set it, so that an unlocked
\* account has attempts left.  It is the gate that decides: another request may use
\* them up before the challenge or the session is made.
LoginNeedsAttemptsLeft ==
  [][\A r \in Requests :
       LoginGate(r) \/ SecondGate(r) =>
         At(r, "idle")' \/ count[FailedKey(req[r].account)] < MaxFailures]_vars

\* No counter grows for ever: each runs out, also while clients keep sending
\* requests that it refuses, so that a rate limit accepts requests again.  The
\* refusals of the login lock need not end, because failures renew it, but nothing
\* less does: an account stays locked for ever only if failures use up its attempts
\* again and again, and logins that the lock refuses do not prolong it.
LimitsRunOut ==
  /\ \A k \in RateKeys \cup FailedKeys : count[k] > 0 ~> count[k] = 0
  /\ \A a \in Accounts : []<>(lock[a] = 0 \/ count[FailedKey(a)] = MaxFailures)
=============================================================================
