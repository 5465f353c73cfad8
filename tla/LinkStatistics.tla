--------------------------- MODULE LinkStatistics ---------------------------
(***************************************************************************)
(* Access statistics: the API enqueues a job per eligible access, workers  *)
(* of the BullMQ queue record it in one PostgreSQL transaction each, and   *)
(* the nightly finalizer closes past days and deletes their raw rows.      *)
(* A transaction is its lock, the marker it reads under the lock and its   *)
(* commit: what it writes before the commit no other transaction sees.     *)
(***************************************************************************)
EXTENDS Naturals, FiniteSets

CONSTANTS Accesses,     \* eventIds: one randomUUID per redirect
          Links, Countries,
          Visitors,     \* pseudonyms
          MaxDay,       \* bound: the last UTC day of the model
          MonthOf,      \* MonthOf[d]: the month of day d
          Workers, Finalizers,
          MaxAttempts,  \* LINK_STATS_QUEUE_ATTEMPTS
          MaxStalls,    \* BullMQ's maxStalledCount
          MaxSends,     \* bound: times the Redis client sends one add command
          None

Days == 0..MaxDay

Months == {MonthOf[d] : d \in Days}

LinkDays == Links \X Days

Payload == [link: Links, day: Days, country: Countries, visitor: Visitors]

ASSUME StatisticsAssumption ==
  /\ MaxDay \in Nat /\ MaxAttempts \in Nat \ {0}
  /\ MaxStalls \in Nat /\ MaxSends \in Nat \ {0}
  /\ DOMAIN MonthOf = Days
  /\ None \notin Payload \cup Accesses \cup Workers \cup Finalizers \cup LinkDays
  /\ Workers \cap Finalizers = {}

VARIABLES
  today,      \* the UTC day
  access,     \* access[e]: the payload of access e, None before it happens
  sends,      \* sends[e]: times the producer may still send the add of e
  queue,      \* queue[e]: the job access-<e>
  worker,     \* worker[w]: the delivery worker w is processing
  finalizer,  \* finalizer[f]: the finalizeDays run of process f
  lock,       \* lock[l, d]: the transaction that holds the advisory lock
  events,     \* link_access_events
  visitors,   \* link_daily_visitors
  daily,      \* link_daily_aggregates (a missing row is zero)
  monthly,    \* link_monthly_aggregates
  closed,     \* link_statistics_days
  counted,    \* history: accesses some transaction added to the aggregates
  seen        \* history: every row ever inserted into link_daily_visitors

tables == <<events, visitors, daily, monthly, closed, counted, seen>>
delivery == <<today, access, sends, queue, worker>>
vars == <<delivery, finalizer, lock, tables>>

Job == [state: {"absent", "waiting", "active", "completed", "failed"},
        holder: Workers \cup {None},
        failures: 0..MaxAttempts, stalls: 0..MaxStalls]

NoJob == [state |-> "absent", holder |-> None, failures |-> 0, stalls |-> 0]

Worker == [at: {"idle", "lock", "check", "record", "ack"},
           event: Accesses \cup {None}]

Resting == [at |-> "idle", event |-> None]

\* todo: the candidates still to close.
Finalizer == [at: {"idle", "next", "close"}, todo: SUBSET LinkDays,
              day: LinkDays \cup {None}]

NoRun == [at |-> "idle", todo |-> {}, day |-> None]

Seen == [link: Links, day: Days, visitor: Visitors, country: Countries]

Figures == [accesses: Nat, uniques: Nat]

Zero == [accesses |-> 0, uniques |-> 0]

TypeOK ==
  /\ today \in Days
  /\ access \in [Accesses -> Payload \cup {None}]
  /\ sends \in [Accesses -> 0..MaxSends]
  /\ queue \in [Accesses -> Job]
  /\ worker \in [Workers -> Worker]
  /\ finalizer \in [Finalizers -> Finalizer]
  /\ lock \in [LinkDays -> Workers \cup Finalizers \cup {None}]
  /\ events \subseteq Accesses
  /\ visitors \subseteq Seen
  /\ daily \in [Links \X Days \X Countries -> Figures]
  /\ monthly \in [Links \X Months -> Figures]
  /\ closed \subseteq LinkDays
  /\ counted \subseteq Accesses
  /\ seen \subseteq Seen

Init ==
  /\ today = 0
  /\ access = [e \in Accesses |-> None]
  /\ sends = [e \in Accesses |-> 0]
  /\ queue = [e \in Accesses |-> NoJob]
  /\ worker = [w \in Workers |-> Resting]
  /\ finalizer = [f \in Finalizers |-> NoRun]
  /\ lock = [k \in LinkDays |-> None]
  /\ events = {} /\ visitors = {}
  /\ daily = [k \in Links \X Days \X Countries |-> Zero]
  /\ monthly = [k \in Links \X Months |-> Zero]
  /\ closed = {} /\ counted = {} /\ seen = {}

Ledger == INSTANCE AccessLedger WITH Days <- 0..MaxDay

LinkDay(p) == <<p.link, p.day>>

-----------------------------------------------------------------------------
(* The producer: scheduleAccessCollection and QueueLinkAccessCollector.    *)

NextDay ==
  /\ today < MaxDay
  /\ today' = today + 1
  /\ UNCHANGED <<access, sends, queue, worker, finalizer, lock, tables>>

\* A redirect has been answered: the payload is derived, the add begins.
Redirected(e) ==
  /\ access[e] = None
  /\ \E l \in Links, c \in Countries, v \in Visitors :
       access' = [access EXCEPT ![e] =
                   [link |-> l, day |-> today, country |-> c, visitor |-> v]]
  /\ sends' = [sends EXCEPT ![e] = MaxSends]
  /\ UNCHANGED <<today, queue, worker, finalizer, lock, tables>>

\* BullMQ ignores an add whose jobId exists; a completed job exists no more
\* (removeOnComplete), a failed one does (removeOnFail is false).  When the
\* reply is lost the client sends the command again.
Enqueue(e) ==
  /\ sends[e] > 0
  /\ queue' = IF queue[e].state \in {"absent", "completed"}
                THEN [queue EXCEPT ![e] = [NoJob EXCEPT !.state = "waiting"]]
                ELSE queue
  /\ \E left \in {0, sends[e] - 1} : sends' = [sends EXCEPT ![e] = left]
  /\ UNCHANGED <<today, access, worker, finalizer, lock, tables>>

\* Redis is down or the API process dies: the access is given up.
LoseAccess(e) ==
  /\ sends[e] > 0
  /\ sends' = [sends EXCEPT ![e] = 0]
  /\ UNCHANGED <<today, access, queue, worker, finalizer, lock, tables>>

-----------------------------------------------------------------------------
(* A delivery: LinkStatisticsProcessor and recordAccess.                   *)

\* A lock taken for the session, not for the transaction.
KeepLock(a) == UNCHANGED lock

\* The end of a's transaction releases its advisory lock.
ReleaseLock(a) ==
  lock' = [k \in LinkDays |-> IF lock[k] = a THEN None ELSE lock[k]]

\* A lock keyed by something every transaction has to itself.
NoLock(k) == TRUE

LockFree(k) == lock[k] = None

Payloads(w) == access[worker[w].event]

WorkerGoto(w, step) == worker' = [worker EXCEPT ![w].at = step]

Take(w, e) ==
  /\ worker[w].at = "idle"
  /\ queue[e].state = "waiting"
  /\ queue' = [queue EXCEPT ![e] = [@ EXCEPT !.state = "active", !.holder = w]]
  /\ worker' = [worker EXCEPT ![w] = [at |-> "lock", event |-> e]]
  /\ UNCHANGED <<today, access, sends, finalizer, lock, tables>>

LockForRecord(w) ==
  /\ worker[w].at = "lock"
  /\ LockFree(LinkDay(Payloads(w)))
  /\ lock' = [lock EXCEPT ![LinkDay(Payloads(w))] = w]
  /\ WorkerGoto(w, "check")
  /\ UNCHANGED <<today, access, sends, queue, finalizer, tables>>

\* A job that arrives after its day was closed is dropped.
DropLate(w) ==
  /\ worker[w].at = "check"
  /\ LinkDay(Payloads(w)) \in closed
  /\ WorkerGoto(w, "ack")
  /\ ReleaseLock(w)
  /\ UNCHANGED <<today, access, sends, queue, finalizer, tables>>

FindOpen(w) ==
  /\ worker[w].at = "check"
  /\ LinkDay(Payloads(w)) \notin closed
  /\ WorkerGoto(w, "record")
  /\ UNCHANGED <<today, access, sends, queue, finalizer, lock, tables>>

\* INSERT ... ON CONFLICT ("id") DO NOTHING inserts a row.
NewEvent(e) == e \notin events

SkipDuplicate(w) ==
  /\ worker[w].at = "record"
  /\ ~NewEvent(worker[w].event)
  /\ WorkerGoto(w, "ack")
  /\ ReleaseLock(w)
  /\ UNCHANGED <<today, access, sends, queue, finalizer, tables>>

\* A visitor key that includes the country.
NewWithCountry(p) ==
  [link |-> p.link, day |-> p.day, visitor |-> p.visitor,
   country |-> p.country] \notin visitors

\* INSERT ... ON CONFLICT ("linkId", "occurredOn", "visitorPseudonym") inserts.
NewVisitor(p) ==
  ~\E s \in visitors : s.link = p.link /\ s.day = p.day /\ s.visitor = p.visitor

\* Both figures of one aggregate row: accessCount + 1 and, for a new visitor,
\* uniqueVisitorCount (dailyUniqueVisitorCount) + 1.
Bump(row, new) ==
  [accesses |-> row.accesses + 1,
   uniques |-> IF new THEN row.uniques + 1 ELSE row.uniques]

\* The month in which the job is processed.
ProcessingMonth(p) == <<p.link, MonthOf[today]>>

MonthKey(p) == <<p.link, MonthOf[p.day]>>

RecordAccess(w) ==
  LET e == worker[w].event
      p == access[e]
      new == NewVisitor(p)
      row == [link |-> p.link, day |-> p.day, visitor |-> p.visitor,
              country |-> p.country]
  IN  /\ worker[w].at = "record"
      /\ NewEvent(e)
      /\ events' = events \cup {e}
      /\ counted' = counted \cup {e}
      /\ daily' = [daily EXCEPT ![<<p.link, p.day, p.country>>] = Bump(@, new)]
      /\ monthly' = [monthly EXCEPT ![MonthKey(p)] = Bump(@, new)]
      /\ visitors' = IF new THEN visitors \cup {row} ELSE visitors
      /\ seen' = IF new THEN seen \cup {row} ELSE seen
      /\ WorkerGoto(w, "ack")
      /\ ReleaseLock(w)
      /\ UNCHANGED <<today, access, sends, queue, finalizer, closed>>

\* The outcome of a delivery counts only while its worker holds the job.
Settle(w, outcome) ==
  LET e == worker[w].event
  IN  /\ queue' = IF queue[e].holder = w
                    THEN [queue EXCEPT ![e] = outcome] ELSE queue
      /\ worker' = [worker EXCEPT ![w] = Resting]

Acknowledge(w) ==
  /\ worker[w].at = "ack"
  /\ Settle(w, [NoJob EXCEPT !.state = "completed"])
  /\ UNCHANGED <<today, access, sends, finalizer, lock, tables>>

\* An error that process() catches and only logs.
Swallowed(j) == [NoJob EXCEPT !.state = "completed"]

\* One attempt more than the configured number.
RetriedOnceMore(j) ==
  [state |-> IF j.failures < MaxAttempts THEN "waiting" ELSE "failed",
   holder |-> None, failures |-> j.failures + 1, stalls |-> j.stalls]

\* An error that process() lets escape: retried, with backoff, or set aside.
Retried(j) ==
  [state |-> IF j.failures + 1 < MaxAttempts THEN "waiting" ELSE "failed",
   holder |-> None, failures |-> j.failures + 1, stalls |-> j.stalls]

\* The transaction is rolled back, or commits and its reply is lost.
DeliveryFails(w) ==
  /\ worker[w].at # "idle"
  /\ Settle(w, Retried(queue[worker[w].event]))
  /\ ReleaseLock(w)
  /\ UNCHANGED <<today, access, sends, finalizer, tables>>

\* The worker process dies and restarts; its job stays active.
WorkerCrash(w) ==
  /\ worker[w].at # "idle"
  /\ worker' = [worker EXCEPT ![w] = Resting]
  /\ ReleaseLock(w)
  /\ UNCHANGED <<today, access, sends, queue, finalizer, tables>>

\* BullMQ finds the job's lock expired: its worker is gone, or only slow.
Stalled(e) ==
  /\ queue[e].state = "active"
  /\ queue' = [queue EXCEPT ![e] =
                 IF @.stalls < MaxStalls
                   THEN [@ EXCEPT !.state = "waiting", !.holder = None,
                                  !.stalls = queue[e].stalls + 1]
                   ELSE [@ EXCEPT !.state = "failed", !.holder = None]]
  /\ UNCHANGED <<today, access, sends, worker, finalizer, lock, tables>>

-----------------------------------------------------------------------------
(* The nightly run: finalizePreviousUtcDays and finalizeDays.              *)

\* The days before "before" that have raw rows and no marker.
Candidates(before) ==
  ({LinkDay(access[e]) : e \in {x \in events : access[x].day < before}}
     \cup {LinkDay(s) : s \in {x \in visitors : x.day < before}}) \ closed

StartRun(f) ==
  /\ finalizer[f].at = "idle"
  /\ finalizer' = [finalizer EXCEPT ![f] =
                     [at |-> "next", todo |-> Candidates(today), day |-> None]]
  /\ UNCHANGED <<delivery, lock, tables>>

LockForClose(f, k) ==
  /\ finalizer[f].at = "next"
  /\ k \in finalizer[f].todo
  /\ \A other \in finalizer[f].todo : k[2] <= other[2]
  /\ LockFree(k)
  /\ lock' = [lock EXCEPT ![k] = f]
  /\ finalizer' = [finalizer EXCEPT ![f] = [@ EXCEPT !.at = "close", !.day = k,
                                                      !.todo = finalizer[f].todo \ {k}]]
  /\ UNCHANGED <<delivery, tables>>

\* The rows are deleted after the marker is committed, if the process lives.
DeleteAfterwards(k) ==
  \/ /\ events' = {e \in events : LinkDay(access[e]) # k}
     /\ visitors' = {s \in visitors : LinkDay(s) # k}
  \/ UNCHANGED <<events, visitors>>

DeleteRawRows(k) ==
  /\ events' = {e \in events : LinkDay(access[e]) # k}
  /\ visitors' = {s \in visitors : LinkDay(s) # k}

\* Marker inserted unless it exists, events and visitors of the day deleted.
CloseDay(f) ==
  LET k == finalizer[f].day
  IN  /\ finalizer[f].at = "close"
      /\ closed' = closed \cup {k}
      /\ DeleteRawRows(k)
      /\ finalizer' = [finalizer EXCEPT ![f] = [@ EXCEPT !.at = "next",
                                                          !.day = None]]
      /\ ReleaseLock(f)
      /\ UNCHANGED <<delivery, daily, monthly, counted, seen>>

EndRun(f) ==
  /\ finalizer[f].at = "next"
  /\ finalizer[f].todo = {}
  /\ finalizer' = [finalizer EXCEPT ![f] = NoRun]
  /\ UNCHANGED <<delivery, lock, tables>>

\* A database error or a crash: the remaining candidates wait for the next run.
RunFails(f) ==
  /\ finalizer[f].at # "idle"
  /\ finalizer' = [finalizer EXCEPT ![f] = NoRun]
  /\ ReleaseLock(f)
  /\ UNCHANGED <<delivery, tables>>

Produce(e) == Redirected(e) \/ Enqueue(e) \/ LoseAccess(e)

Process(w) ==
  \/ \E e \in Accesses : Take(w, e)
  \/ LockForRecord(w) \/ DropLate(w) \/ FindOpen(w)
  \/ SkipDuplicate(w) \/ RecordAccess(w) \/ Acknowledge(w)

Finalize(f) ==
  \/ StartRun(f) \/ CloseDay(f) \/ EndRun(f)
  \/ \E k \in LinkDays : LockForClose(f, k)

Next ==
  \/ NextDay
  \/ \E e \in Accesses : Produce(e) \/ Stalled(e)
  \/ \E w \in Workers : Process(w) \/ DeliveryFails(w) \/ WorkerCrash(w)
  \/ \E f \in Finalizers : Finalize(f) \/ RunFails(f)

Spec == Init /\ [][Next]_vars

\* Workers keep working and the stalled-job check keeps running; PostgreSQL
\* grants a lock in turn; the nightly run recurs, and not every one fails.
Fairness ==
  /\ \A w \in Workers : WF_vars(Process(w)) /\ SF_vars(LockForRecord(w))
  /\ \A e \in Accesses :
       WF_vars(Stalled(e) /\ \A w \in Workers : worker[w].event # e)
  /\ \A f \in Finalizers :
       /\ WF_vars(StartRun(f)) /\ WF_vars(EndRun(f))
       /\ SF_vars(\E k \in LinkDays : LockForClose(f, k))
       /\ SF_vars(CloseDay(f))

FairSpec == Spec /\ Fairness

-----------------------------------------------------------------------------
On(e, l, d) == access[e] # None /\ access[e].link = l /\ access[e].day = d

\* The figures are exact under duplicate deliveries, retries, stalled workers and
\* closings: those of a day and country are the distinct accesses recorded for
\* them and the visitors first seen there that day; those of a month the accesses
\* of its days, by the day of the redirect and not of its processing, and the
\* sum of the daily visitors.
AggregatesExact ==
  /\ \A l \in Links, d \in Days, c \in Countries :
       /\ daily[<<l, d, c>>].accesses =
            Cardinality({e \in counted : On(e, l, d) /\ access[e].country = c})
       /\ daily[<<l, d, c>>].uniques =
            Cardinality({s \in seen : s.link = l /\ s.day = d /\ s.country = c})
  /\ \A l \in Links, m \in Months :
       /\ monthly[<<l, m>>].accesses =
            Cardinality({e \in counted : access[e].link = l
                                         /\ MonthOf[access[e].day] = m})
       /\ monthly[<<l, m>>].uniques =
            Cardinality({s \in seen : s.link = l /\ MonthOf[s.day] = m})

\* No raw row outlives the closing of its day: neither a transaction that read
\* the marker before the closing nor a late delivery brings one back.
ClosedDayHasNoRawRows ==
  /\ \A e \in events : LinkDay(access[e]) \notin closed
  /\ \A s \in visitors : LinkDay(s) \notin closed

\* What a report says of a closed day never changes again.
ClosedDaysAreFrozen ==
  [][\A l \in Links, d \in Days, c \in Countries :
       <<l, d>> \in closed => daily'[<<l, d, c>>] = daily[<<l, d, c>>]]_vars

\* A job leaves the queue as completed only when its access is counted or its
\* day is closed: no error path of the processor loses an access silently.
CompletedIsCountedOrLate ==
  \A e \in Accesses : queue[e].state = "completed" =>
    e \in counted \/ LinkDay(access[e]) \in closed

\* recordAccess and finalizeDays, by any number of workers and finalizers over
\* repeated deliveries, do what AccessLedger does in one step: no access is
\* counted twice, half or into a closed day, and no other day is ever closed.
ImplementsLedger == Ledger!Spec

\* Every job is completed or set aside as failed in the end: failures, crashes
\* and stalls use up its attempts, and no lock is left behind to block it.
EveryJobSettles ==
  \A e \in Accesses :
    queue[e].state \in {"waiting", "active"} ~>
      queue[e].state \in {"completed", "failed"}

\* Raw rows of a past day are deleted in the end, also when runs fail.
RawRowsAreDeleted ==
  \A e \in Accesses :
    e \in events /\ access[e].day < today ~> e \notin events
=============================================================================
