# Shortlink in TLA+

A specification of the parts of Shortlink whose correctness depends on the
order of things: transactions of several API instances on one account, the
Redis caches in front of PostgreSQL, the access queue and its nightly
finalizer, the reports read meanwhile, the life of authentication sessions, the
codes and tokens that are sent by e-mail, and the counters that slow abuse down. The modules are translated
from the code under `src/`; paths below are relative to it.

## The system

Shortlink runs as any number of API processes (`main.ts`) and worker processes
(`worker.ts`) over one PostgreSQL and one Redis. Processes share no memory.
PostgreSQL runs transactions at READ COMMITTED; Redis runs commands and Lua
scripts one at a time; BullMQ queues live in Redis and deliver a job at least
once.

| component | state | operations | what is hard | what makes it correct | module |
|---|---|---|---|---|---|
| Link transactions (`links.service.ts`, `typeorm-links.repository.ts`) | table `links`, account row locks | `createOrRestore`, `changeStatus`, retry with a new code | read-then-write over several statements, code collisions, waiting for the lock | limit of active links, one row per user and URL, a code keeps its link, all answered | `LinkTransactions`, `LinkRegistry`, `LinkTable` |
| Link resolution (`LinksService.resolve`, `redis-link-resolution-cache.service.ts`) | table `links`, one Redis entry per code | resolve, deactivate, reactivate, expiry | a fill races a deactivation; Redis fails halfway | staleness is bounded and needs an overlap; an active link is always found | `LinkResolution` |
| Access collection and recording (`register-public-link-resolve.ts`, `queue-link-access-collector.service.ts`, `link-statistics.processor.ts`, `recordAccess`) | BullMQ jobs, five statistics tables, an advisory lock per link and day | enqueue, deliver, record, drop late jobs | at-least-once delivery, retries, stalls, lost adds | figures are exact, a visitor is unique once a day | `LinkStatistics`, `AccessLedger` |
| Day finalizer (`link-statistics-finalizer.service.ts`, `finalizeDays`) | markers of closed days | close past days, delete their raw rows | races recording, another finalizer, its own failures | closed days never change and keep no raw rows | `LinkStatistics`, `AccessLedger` |
| Sessions (`auth-session.service.ts`, `typeorm-auth.repository.ts`) | `auth_sessions`, `session_refresh_tokens`, account row locks, session cache | complete login, refresh, reuse, logout, revoke all | concurrent logins and refreshes, commit first and cache later | one active session, linear rotation, final revocation, a logout ends its session | `AuthSessions`, `SessionRegistry` |
| Session guard (`auth-session.guard.ts`, `validateSession`) | session cache | check, read, fill | a fill races a revocation | a revoked session is rejected | `AuthSessions` |
| Verification codes and e-mail worker (`auth.service.ts`, `redis-auth-state.service.ts`, `email.processor.ts`) | codes, challenges, issuances in Redis; the `auth-email` queue | issue, generate, store, mail, consume | late, repeated and overlapping jobs; check, store, check, send | one challenge works, a code works once, late jobs leave newer mail alone | `AuthSecrets` |
| Password reset tokens (`typeorm-auth.repository.ts`) | `password_reset_tokens` | issue, consume, change password, revoke | a read before the lock, three transactions in a row | one token works, once; old sessions end | `AuthSecrets` (revocation in `AuthSessions`) |
| Login lock and rate limits (`auth.service.ts`, the two counting Lua scripts) | counters and locks with expiry in Redis | count, refuse, lock, check | windows and locks with lifetimes of their own, lost replies, a check that precedes what it protects | bursts are bounded, counters run out, lock and failures agree, only new failures prolong a lock | `AbuseControl`; what the lock protects: `AuthSecrets` |
| Statistics report (`link-statistics.service.ts`, `getReport`) | none | resolve the period, four queries | month ends and leap days; rows change between the queries | the period is what was asked, its series have no gap, its parts agree | `ReportPeriod`, `StatisticsReport` |
| CSRF origin guard (`csrf-origin.guard.ts`) | none | which refresh tokens pass | reads sessions that change | refresh and logout begin only for tokens of sessions | guard `PassesGuard` of `AuthSessions` |
| URLs, e-mail, passwords, hashes, pseudonyms, GeoIP, bot detection, SMTP, audit, bootstrap, migrations | - | pure functions, I/O or wiring | - | - | not modelled |

The components meet in data, not in calls: resolution reads what the link
transactions commit, a redirect starts an access, and every owner operation
passes the session guard. `LinkResolution` therefore takes a link transaction
as one step, which is what `LinkTransactions` is shown and proved to
implement, and takes a cache entry to be its lifetime alone, because a short
code never changes its link and destination (`LinkIdentityKept`, also proved).
In the same way `StatisticsReport` reads the tables of `AccessLedger`, where an
access is recorded and a day closed in one step, which is what `LinkStatistics`
is shown and proved to implement.

## Modules

**`LinkTable`** holds the `links` table and the operators the other link
modules share. A row is keyed by its short code; the column is unique, is never
updated and no code path deletes a link, so uuid and code identify each other.

**`LinkRegistry`** is the abstract specification: a request (`Ask`) takes effect
and is answered in one step. `CreateExisting`, `CreateReactivating`,
`CreateNew`, `CreateExhausted`, `CreateRefused`, `StatusRefused`,
`StatusApplied` say what each outcome of `CreateOrRestoreLinkResult` and
`ChangeLinkStatusResult` means; `Fail` leaves nothing behind.

**`LinkTransactions`** runs the two transactions statement by statement.
`tx[r].at` is the next statement, `tx[r].seen` the row found, `tx[r].attempt`
the counter of the loop in `LinksService.create`, `lock[u]` the FOR UPDATE lock
on the account row. The write and the commit are one step because a transaction
writes in its last statement. An `INSERT` under a taken code is `Collide`, which
goes back to `lock` with a new transaction, as the loop does; a violation of the
other unique index would be the outcome `duplicate_url`, which the code does not
handle and which `NoDuplicateInsert` shows never to happen. `Abort` is any
error, or the death of the process.

**`LinkResolution`** is the cache in front of the table. A visitor reads the
cache, then the database, then fills the cache; an owner looks the link up,
deletes the entry and then commits. Every Redis command may fail, with or
without its effect (`CacheReadFails`, the second disjunct of `FillCache`,
`InvalidateFails`). Time is a counter of ticks; `Ttl` is the configured
lifetime. The variables `dead` and `raced`, and the fields `alwaysDead`,
`alwaysLive` and `overlap`, are history: no guard of the code's actions reads
them (`Tick` reads `age` to bound how long a resolution may take).

**`LinkStatistics`** has a producer per access, BullMQ's jobs, the workers and
the finalizers. A transaction is its advisory lock, the read of the marker under
it and its commit; what it writes in between nobody sees. The queue is external
code, modelled by how the repository configures and uses it: an `add` whose job
id exists is ignored (`jobId: access-<eventId>`), completed jobs are removed and
failed ones kept, an escaping error is retried up to the configured attempts, a
job whose worker is gone or slow becomes stalled and is delivered again while
its first worker may still be running.

**`AccessLedger`** is the abstract specification of that: an access is redirected
(`Redirected`), counted at most once and never into a closed day (`Count`), and a
past day with accesses is closed (`Close`). `ImplementsLedger` checks every
delivery, retry and finalizer run of `LinkStatistics` against it.

**`ReportPeriod`** has the calendar functions of the report. A date is the record
of the three numbers in `YYYY-MM-DD`, whether a calendar has it or not. The
JavaScript `Date` is external and modelled by what ECMAScript says it computes:
`Date.UTC` lets months and days roll over and takes the years 0 to 99 for 1900
to 1999, a parsed ISO date does not. `EachUtcMonth` is a bounded function for
the loop of the code: an accepted period has at most 12 months.

**`StatisticsReport`** is one report in flight. `report.at` is its next statement:
the period, the link and its owner, then the days, the months, the countries and
the totals, each reading the tables of an `AccessLedger` that keeps recording
(`Recording`). `quiet` is history: nothing has been recorded for the report's
link and period since its first statement.

**`AuthSessions`** has one record per request in flight (`req[r].at` the next
statement, `req[r].op` login, refresh, reuse, logout or revokeAll), the account
lock, the two session tables, the set of sessions with a cache entry, and the
runs of the guard. A refresh with a used token becomes a `reuse` request, as in
`refresh`. A transaction is its unlocked read (`PreRead`), the lock with the
reads under it (`LockAccount`, whose result is `req[r].seen`) and its commit.
Expiry is a refusal that may come at any moment (`FindActive`, `CheckEnds`).
`Faults` says whether processes die and Redis commands fail, so that the
findings are shown to need neither.

A refresh or logout begins only for a token `CsrfOriginGuard` lets pass
(`PassesGuard`): the current token of a session, or a used one of an active
session.

**`SessionRegistry`** is the abstract specification of the session tables: a login
ends the account's sessions and begins one, a rotation exchanges the current
token, a logout, a reuse and a password reset end sessions for their reason, each
in one step. `ImplementsRegistry` checks every transaction of `AuthSessions`,
with what it read before it had the lock, against it.

**`AbuseControl`** has the counters of the requests that send an e-mail (per
operation by e-mail address and by IP address), of logins (by address and
account) and of failed logins, and the login lock. `count[k]` and `ttl[k]` are a
Redis counter and its remaining lifetime, `lock[a]` the lifetime of a lock; a
`Tick` lowers all lifetimes and drops what has none left. The two Lua scripts are
`Incr` and `IncrFailed`. `req[r].at` is the next step of a request in the order
of `register`, `resendEmailVerification`, `requestPasswordReset`, `startLogin`
and `completeLogin`; `LostReply` is a script that ran and is sent again or
answered 503. `passed` and `failed` are history: how many requests a counter let
pass, and how many failures were recorded, at each age. Counters stop one above
their limit, where their value makes no more difference. Redis is assumed to
keep its counter keys until they expire.

**`AuthSecrets`** follows the secrets of one account from the request that
issues them to the one that consumes them. An issuance is a number in the order
of creation, `purpose[i]` its purpose and `valid` the set of issuances whose key
still holds them: the key of activation and reset is per account, so a new
issuance takes the place of the old one, the key of a login is per challenge. A
login challenge has exactly one issuance and shares its number. `live[i]` is the
code stored under challenge `i` (`Placeholder` until its job has run), `current`
what the account's challenge key names, `code` the stored activation code and
`unused` the reset tokens with `usedAt` null. `left[i]` are the deliveries of
the job still to come; `run[w]` is a delivery being processed, `req[r]` a
request. Every Redis command, Lua script and committed transaction is one step,
and `RequestEnds` and `RunFails` may follow any of them, so a command may take
effect and its reply be lost. `serial`, `madeFor`, `used` and `req[r].shut` are
history. Secrets are told apart by identity: two equal six-digit codes are left
out, and a wrong guess is `None`.

`MC...` modules give the constants and their symmetry to TLC.

## Runs

| run | shows | bounds |
|---|---|---|
| `link_transactions` | type, limit, no duplicate insert, reads under the lock stay true, identity of links, refinement of `LinkRegistry` | 2 users, 2 URLs, 3 codes, 2 requests, limit 1, 2 attempts |
| `link_liveness` | every request is answered | 3 requests of one user, one code |
| `link_resolution` | stale entries live at most `Ttl + MaxHold` ticks after the deactivation and exist only if a resolution overlapped it; an active link is found | 1 code, owner and stranger, 3 visitors, 2 status requests, `Ttl` 2, `MaxHold` 2 |
| `link_dead_redirect` | finding: a deactivated link is redirected | as above |
| `link_statistics` | exact daily and monthly figures, closed days keep no raw rows and never change, a completed job is counted or its day is closed, refinement of `AccessLedger` | 2 accesses, 1 link, 2 countries, 1 visitor, 2 days in 2 months, 2 workers, 1 finalizer, 2 attempts, 1 stall |
| `statistics_liveness` | every job settles, raw rows are deleted | 1 access sent up to twice, 2 workers, 2 finalizers |
| `statistics_report` | exactly the calendar's periods of at most 12 months are accepted; the series have every date and month once; later statements see no less than earlier ones, and a report nothing disturbs adds up | 2 accesses, 1 link, 2 users, 2 countries, 1 visitor; 3 days around a leap day and a new year; 11 query dates, 5 of them in no calendar or before the year 100, and absent ones |
| `auth_sessions` | one active session, linear rotation, immediate effect without overlap or failure, a logout ends its session, refinement of `SessionRegistry` | 1 user, 2 sessions, 3 tokens, 2 requests, 1 check, faults on |
| `auth_stale_session` | finding: a revoked session is admitted from the cache | same, faults off |
| `auth_secrets` | one challenge and one reset token work at a time; a secret is used once; a code consumed while the account is locked signs nobody in; jobs processed one after the other never disable what was mailed later | 2 workers, 2 requests, 2 issuances, 2 secrets, 1 delivery of a job, lock after 1 failure |
| `auth_old_challenge` | finding: an older login challenge comes back | 1 worker, 1 request, no failure needed |
| `abuse_control` | no counter lets more than twice its limit pass in a window's time; an account is locked by enough failures of one hour and for an hour from the last; an account has attempts left when a login passes a gate of the lock; counters run out also while they refuse requests; an account stays locked only by new failures | 1 account, 1 address, 2 requests, one e-mail operation or logins; windows of 2 and 1 ticks; limits 2, 1 and 2, lock after 2 failures |

Why the bounds are enough: the limit of active links is compared with a count,
so 1 shows what 10 would, and two requests are all that can be inside one
account's critical section and waiting for it. Three codes let a user own an
active and a deactivated link while a third row collides. Cache entries of
different codes, aggregates of different links and sessions of different
accounts share no row, key or lock, so one of each is enough; three visitors
allow a fill, a second fill and a redirect around one deactivation. Secrets of
different accounts share no key either, and two issuances are an older and a
newer one of the same or of different purposes; a job delivered late is enough
for them, and the theorems hold for repeated deliveries too. A report reads rows
of one link, so accesses of another change nothing it sees; the query dates are
the ends of February, of a year and of a period of 12 months. E-mail and login
requests share no counter, so `abuse_control` checks them in separate behaviours
(`kind` in `MCAbuseControl`); two requests are one that counts and one that
counts, checks or fails in between, and a window of two ticks has a moment inside
it and one at its end. Two days in
two months are the last day of one month, closed during the next. The bounds
that have no counterpart in the code are `MaxDay`, `MaxSends` (how often a Redis
client repeats one add), `MaxHold` (how long a resolution may stay between
its read and its fill; the code sets no limit), `MaxIssues` and `Deliveries`
(issuances and deliveries of one job in a behaviour) and the sizes of the sets.

Deadlock is checked in every run: each model lets its clients ask again.

## Fairness

* `LinkTransactions`: PostgreSQL executes the statements it is sent (weak
  fairness of a client's own steps) and queues the waiters of a row lock, so a
  waiter is not passed over for ever (strong fairness of `LockAccount`). Nothing
  is assumed of new requests or of failures.
* `LinkStatistics`: workers process jobs and BullMQ's stalled check keeps
  running (weak), PostgreSQL grants advisory locks in turn (strong). The nightly
  run recurs (`@Cron`), and not every one fails (strong fairness of its steps):
  a finalizer that failed every night would keep the raw rows.

* `AbuseControl`: only time must pass (`WF_vars(Tick)`). No client has to send,
  finish or stop sending anything, so `LimitsRunOut` holds against clients that
  keep trying. Its first part is that every counter runs out, so that a rate limit
  accepts requests again. The refusals by the login lock need not end: a failure
  during the lock begins its hour again, and when the counter runs out,
  `MaxFailures` new failures can lock the account before the lock has ended. The
  second part is that nothing less keeps it locked: an account that is never
  unlocked has its counter filled again and again, and logins that the lock refuses
  do not prolong it.

## Findings

* **A deactivated link can be redirected** (`link_dead_redirect`).
  `links/spec.md:206` rules it out. `changeStatus` invalidates the entry before
  its commit and not after it, and `resolve` fills the cache with a read of any
  age. `link_resolution` shows how far it goes: the entry lives at most
  `Ttl + MaxHold` after the deactivation, and a deactivation that no resolution
  overlaps takes effect at once.
* **A revoked session can be admitted** (`auth_stale_session`).
  `authentication/spec.md:116` and ADR 0001 promise immediate rejection. A login
  writes `active: true` after its commit, when a second login may already have
  revoked the session and deleted its entry. The same happens to the fill in
  `validateSession` and after a failed, ignored deletion.
* **An older login challenge can replace a newer one** (`auth_old_challenge`).
  `authentication/spec.md:65` and `:101` say the opposite. `createLoginChallenge`
  serves the request that opens a challenge and the worker that stores its code,
  and deletes whatever challenge the account's key names. A job that found its
  challenge just before a second `startLogin` replaced it deletes the newer
  challenge and mails the code of the older; the second check of the issuance
  does not stop it, because login issuances are kept per challenge. The newer
  job then finds no challenge and mails nothing.

Observed, without a run of its own: `authentication/spec.md:250` wants the
refresh that loses a race for one token treated as reuse. The loser gets
`InvalidRefreshTokenError` (401, `auth-session.service.ts:107`) or a plain
`Error` of `rotateRefreshToken` (500, `typeorm-auth.repository.ts:147`), and the
session stays active; in `AuthSessions` it ends in `AnswerRefused`.

Also without a run of its own: when the deletion of a revoked session's entry has
failed (a login or a reset ignores that, a logout answers 503), a later logout of
the session finds it revoked (`auth-session.service.ts:151`), answers 204 and leaves
the entry, where `authentication/spec.md:115` wants it invalidated; the guard
admits the session until the entry expires. In `AuthSessions` this is `PurgeFails`
followed by `FindSession`; `UndisturbedRevocationIsImmediate` excepts it.

Observed, and left without a verdict because no document decides it: a logout
with a superseded token answers 204 and revokes nothing; a rotation whose
cache write fails leaves the client with a used token; a day without raw rows at
01:00 gets no marker, so a job of it that arrives later is still counted and its
raw rows wait for the next run. Of the mailed secrets: two workers that process
jobs of one account at the same time can store an older activation code or reset
token over one mailed later, which `design.md:366` hopes to prevent and which
`SerialRunsKeepNewer` excludes for jobs in a row; the previous activation code
works until the new job stores its own, although `design.md:260` invalidates it
at the issuance; `resetPassword` consumes, stores and revokes in three
transactions where `design.md:283` has one, so a failure in between costs the
token or leaves old sessions; the resend cooldown is checked and set in two
commands, so two resends may both issue a code. Of the counters: a request refused for its IP
address has used up one of its e-mail address's attempts; limits of fixed windows
let up to twice their number pass around a window's end; an increment whose reply
is lost counts twice when the client repeats it; a failure during the lock, which
`startLogin` records for a wrong password before it looks at the lock, begins the
hour of the lock again. Of the report: the months are whole even where the period
covers a part of them, so they add up to the days only for whole months; the
figures of a report during which accesses are recorded may differ between its
parts; dates before the year 100 are refused, because `Date.UTC` moves them.

## Proofs

`LinkTransactionsProofs` proves, for every set of users, URLs, codes and
requests, every limit and every number of attempts:

* `TransactionsTypeCorrect`, `ActiveLimitHolds`, `NoDuplicateInsertHolds`,
  `LockedReadsHold`: the invariants of `link_transactions`;
* `LinkIdentityHolds`: the action property, on which `LinkResolution` relies;
* `TransactionsImplementRegistry`: the refinement of `LinkRegistry`.

Assumed are the named assumptions of the modules: `Codes` is finite, the limit
is a natural number, there is at least one attempt, and `None` is neither a row,
a code nor a request. The limit alone is not inductive: a transaction that has
compared the count could find the room used up when it writes. The inductive
invariant is `TypeOK`, `LockedReadsStayTrue`, `ActiveLimit` and
`NoDuplicateInsert`, where `LockedReadsStayTrue` says that a request inside its
transaction holds the lock of its account (`StepFits`), and that the row it saw
(`SeenHolds`) and the room it found (`RoomHolds`) are still there. A step of one
request preserves these facts of another because the other belongs to another
account, whose rows the step does not touch, or is not inside its transaction
(`OtherConsistent`, `QuietStep`). The limit after a write follows from the
cardinality of a set with one more element (`CountAfterWrite`). For the
refinement each committing step is matched with one action of the registry;
steps between `Begin` and the commit stutter; `SameVocabulary` identifies the
operators the registry instance shares with the table.

`LinkResolutionProofs` proves, for every set of links, visitors and owners,
every entry lifetime `Ttl` and every `MaxHold`:

* `ResolutionTypeCorrect`: the types;
* `StaleEntryIsBounded`: the bound on the life of a stale entry;
* `UndisturbedDeactivation`: what no resolution overlaps takes effect at once;
* `LiveLinksAreFound`: an active link is found whatever Redis does.

Assumed are that `Ttl` is a positive and `MaxHold` any natural number, and that
`None` is neither a row nor a code. The bound on a stale entry is not inductive:
it says nothing of the resolutions that have yet to fill. The inductive
invariant `Inv` adds what each party knows: a resolution that holds a read knows
that the link exists and that its deactivation, if any, is no older than the
read (`VisitOK`); a status change between its invalidation and its commit knows
that, unless it has been overlapped, there is no entry and nobody who could fill
one (`ChangeOK`); and the same holds of a deactivated link whose deactivation
was not overlapped (`LinkOK`). Steps are grouped by what they disturb: a
resolution without a read (`LocalVisitStep`), requests that move on and entries
that vanish (`QuietStep`), activations by either path (`ActivationStep`), and
one lemma for each of the read, the fill, the deactivation and the tick.

`AuthSecretsProofs` proves, for every set of secrets, requests and workers and
any number of issuances, deliveries and failures:

* `SecretsTypeCorrect`: the types;
* `OneSecretWorksAlways`: one challenge and one reset token at a time;
* `SecretsUsedOnce`: a secret has its effect once;
* `LockedLoginsFail`: a code consumed under the lock signs nobody in;
* `SerialRunsNeverRegress`: jobs processed one at a time leave newer mail alone.

Assumed are that the bounds are natural numbers, that an account is locked after
at least one failure, and that neither `None` nor `Placeholder` is a secret.
None of the five is inductive. `TypeInv` adds to the types what each request and
run knows of its issuance. `OneInv` says that a challenge with a code is the one
the account's key names. `UseInv` says where a secret is: in one place where it
is accepted, or held by one request that has yet to use it, or used, and a
secret that has not been generated is nowhere; a step either stores a secret
nobody has had, moves one from its place to a request, uses one, or does none of
these. `LockInv` says that a request knows of a lock only while it exists. The
last theorem needs the most: numbers are given in order and the key of an account
names the last issuance of its purpose (`NumberInv`); a secret is stored where
the purpose of its issuance says (`PlaceInv`); and, as long as no two runs have
overlapped, at most one is under way, and if it is about to store no working
secret that was mailed for its purpose is newer (`SerialInv`). An activation or
reset run gets there from the read of the issuance, which was the last one; a
login run from the read of its challenge, which is the only one.

`AuthSessionsProofs` proves, for every set of accounts, sessions, tokens, requests
and checks, with and without faults:

* `SessionsTypeCorrect`: the types;
* `LoginsAreExclusive`: an account has one active session at most;
* `RotationsFormAChain`: every token of a session but its current one is used, and
  no token is exchanged for two;
* `RevocationIsImmediate`: no entry of a revoked session is left, unless its
  deletion failed, it was filled from an earlier read or is yet to be deleted;
* `LogoutEnds`: an answered logout has ended the session of its token, unless the
  token had been exchanged before;
* `SessionsImplementRegistry`: the refinement of `SessionRegistry`.

Assumed is only that `None` is no member of the sets. One active session is not
inductive: a login between its read and its commit must know all it has to
revoke. `LocksOK` says that a request about to commit holds the lock of its account
and that what it read under the lock is still what it would read; `Tables` relates
rows and tokens (a token that was issued belongs to a session that exists, and is
used unless it is the session's); `RequestsOK` says which session and token a
request works for at each step, and that what it found before the lock belongs to
its account for good (`Mine`). Nobody can commit for an account whose lock another
request holds, so a step touches the rows of one account only (`TouchesOnly`) and
rows and tokens only move forward (`Grows`). For the cache, who is about to write an
entry of a revoked session has overlapped the revocation (`FillsOK`).

`LinkStatisticsProofs` proves, for every set of accesses, links, days, workers and
finalizers and every number of attempts, stalls and repeated adds:

* `StatisticsTypeCorrect`: the types;
* `FiguresAreExact`: the aggregates are the counted accesses and their visitors;
* `ClosedDaysStayEmpty` and `ClosedFiguresAreFrozen`: what is closed keeps no raw
  rows and no step changes it;
* `CompletedJobsAreCounted`: a completed job was counted or came too late;
* `StatisticsImplementLedger`: the refinement of `AccessLedger`.

Assumed are that the bounds are natural numbers, with one attempt and one add at
least, that no process is a worker and a finalizer, and that `None` is none of the
values. The figures need the most: an access is counted at most once although its
job may be processed any number of times. A worker about to write holds the lock of
its day and the day is open (`WorkerFits`); an open day still has the event row of
each access counted for it and the observation of each visitor seen (`RowsOK`), so
that the unique keys of these rows tell a repetition; a job is held only while it
is processed (`JobsOK`); a finalizer closes only past days for which something was
counted (`RunFits`). A figure is a cardinality, and a row that gets one more access
is a set with one more element.

`AbuseControlProofs` proves, for every set of accounts and addresses, every number
of requests, every limit and every length of the windows:

* `AbuseControlTypeCorrect`: the types;
* `BurstsAreBounded`: no period of a window's length passes more than twice the
  limit;
* `LocksFollowFailures`: a lock has enough failures of one hour behind it, and
  lasts an hour from the last;
* `AttemptsAreLeft`: when a login passes a gate of the lock, its account has attempts
  left.

Assumed are that limits and windows are positive, that the window of logins is no
longer than an hour, and that `None` is no account, address or operation. A bound
of twice the limit says nothing of where in the period the requests were.
`WindowFits` does: the window that is open began `Ttl(k) - ttl[k]` ticks ago and
has let pass no more than was counted, and the part of the period before it is
within the limit by itself; when the window ends, it becomes that part. For the
lock, the failures counted are in the hour the counter has been running, and while
a counter is full its account is locked for at least as long and the last failure is as
old as the lock (`FailuresFit`): from this follows that the lock never ends before
the counter that set it.

`StatisticsReportProofs` proves, for every set of links, countries, accesses and
days from 1970 on and every query, whatever numbers its dates are made of:

* `ReportTypeCorrect`: the types;
* `QueriesAreValidated`: `resolvePeriod` accepts exactly the allowed periods;
* `SeriesHaveNoGaps`: the series have every date and every month of the period
  once, in order, and show what was read;
* `LaterReadsCoverEarlier`: what a later statement returns covers the earlier ones;
* `QuietReportsAddUp`: a report during which nothing is recorded adds up.

Assumed are that days and countries are finite, that the clock is past 1970, as
`Date.now()` is, that a date of a query consists of natural numbers, as its pattern
ensures, and that `None` is no date and no link. The first half is the calendar: the
day number of a date and the date of a day number are inverse
(`CalendarDateIsInverse`, `CalendarDateIsDate`), dates are ordered as their numbers
(`DateOrder`), the round trip through `Date.UTC` accepts the dates of the calendar
from the year 100 on (`ValidityIsExact`), a period has at most 12 months exactly if it
ends before its month of the next year (`TwelveMonths`), thirty days always fit
(`DefaultPeriodIsPeriod`), the next number is the next date (`DatesAdvance`), and the
cursor of `eachUtcMonth` is at the i-th month after i steps (`MonthsListed`). The
second half is the inductive invariant `Inv`. A comparison of two statements with one
another is not inductive while the later one has yet to run, so each result is
compared with the rows as they are: `DaysFit` with the rows of each day, `MonthsFit`
with the month, `CountriesFit` and `TotalsFit` with the rows of the period, less or
equal always and equal while `quiet`. Rows only grow (`RecordingGrows`), a month is
the sum of its days (`LedgerFits`), and the sums over days, countries and the whole
period group the same rows (`SumByGroups`).

`SumTheorems` has the lemmas on sums of both: what `MapThenSumSet` is for an empty
set, one more member, a union, groups, and on intervals. They are proved by
induction over a set in place of a predicate: of the numbers for which a sum is as
stated (`SetInduction`), or of the finite subsets (`FiniteInduction`).

With these, every invariant and every action property of the passing runs is
stated by a theorem, and so are the three refinements. Only model-checked are the
liveness properties `EveryRequestAnswered`, `EveryJobSettles`, `RawRowsAreDeleted`
and `LimitsRunOut`: the prover does no reasoning about fairness and ENABLED. The
three findings are counterexamples and have nothing to prove.

## Not modelled

Destination URLs, e-mail addresses, passwords, hashes, signatures, pseudonyms and
the detector of automated traffic are pure functions of strings or of a library;
the models use their results as values. The GeoIP database is opened once before
the process listens and answers a country or `Unknown`; the models choose one of two
countries. SMTP is I/O, and its failure is a failing run of the e-mail worker.
The audit trail is appended to and read by nothing. `environment.validation.ts`,
the modules and the migrations are configuration: their unique indexes are guards
of the models. Paging (`listByUser`) only reads. `getRateLimitCount` and
`invalidatePreviousResetTokens` have no caller. How a password reset meets a login
challenge opened before it lies between `AuthSecrets` and `AuthSessions`, and no
document says what should happen.

## Plan

1. Theorems about the abstract specifications themselves, which the detailed ones
   inherit: what `AccessLedger` and `SessionRegistry` keep from one operation to
   the next.
2. The overlap of a password reset with a pending login challenge, once a document
   decides what it should do.
