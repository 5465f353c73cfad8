------------------------ MODULE LinkStatisticsProofs ------------------------
(***************************************************************************)
(* For any accesses, links, days, workers and finalizers: the aggregates   *)
(* are exact, closed days are final and keep no raw rows, a completed job  *)
(* is counted or late, and recording and closing implement AccessLedger.   *)
(***************************************************************************)
EXTENDS LinkStatistics, FiniteSetTheorems, TLAPS

USE StatisticsAssumption

-----------------------------------------------------------------------------
(* The inductive invariant                                                 *)

\* A job is of an access that happened; it is held only while it is processed,
\* and has an attempt left until it is settled.
JobsOK ==
  \A e \in Accesses :
    /\ sends[e] > 0 \/ queue[e].state # "absent" => access[e] # None
    /\ queue[e].holder # None => queue[e].state = "active"
    /\ queue[e].state \in {"waiting", "active"} => queue[e].failures < MaxAttempts

\* A worker with an open transaction holds the lock of its day; what it has
\* read of the marker under the lock is still so.
WorkerFits(w) ==
  worker[w].at # "idle" =>
    /\ worker[w].event \in Accesses /\ Payloads(w) # None
    /\ worker[w].at \in {"check", "record"} => lock[LinkDay(Payloads(w))] = w
    /\ worker[w].at = "record" => LinkDay(Payloads(w)) \notin closed
    /\ worker[w].at = "ack" =>
         worker[w].event \in counted \/ LinkDay(Payloads(w)) \in closed

WorkersOK == \A w \in Workers : WorkerFits(w)

\* Something was counted for the past day k.
Closable(k) == k[2] < today /\ \E e \in counted : LinkDay(access[e]) = k

\* A finalizer closes days that may be closed, under their locks.
RunFits(f) ==
  /\ \A k \in finalizer[f].todo : Closable(k)
  /\ finalizer[f].at = "close" =>
       /\ finalizer[f].day \in LinkDays /\ lock[finalizer[f].day] = f
       /\ Closable(finalizer[f].day)

FinalizersOK == \A f \in Finalizers : RunFits(f)

\* Raw rows are those of the accesses and visitors counted, until their day closes.
RowsOK ==
  /\ events \subseteq counted /\ visitors \subseteq seen
  /\ \A e \in counted :
       /\ access[e] # None
       /\ e \in events \/ LinkDay(access[e]) \in closed
  /\ \A s \in seen :
       /\ s \in visitors \/ LinkDay(s) \in closed
       /\ \E e \in counted : LinkDay(access[e]) = LinkDay(s)

Finite == IsFiniteSet(counted) /\ IsFiniteSet(seen)

Inv ==
  /\ TypeOK /\ JobsOK /\ WorkersOK /\ FinalizersOK /\ RowsOK
  /\ ClosedDayHasNoRawRows /\ CompletedIsCountedOrLate
  /\ Finite /\ AggregatesExact

-----------------------------------------------------------------------------
(* Type correctness                                                        *)

\* An access that happened has a payload, and the payload a day of a link.
LEMMA PayloadType ==
  ASSUME TypeOK, NEW e \in Accesses, access[e] # None
  PROVE  /\ access[e] \in Payload /\ LinkDay(access[e]) \in LinkDays
         /\ access[e].link \in Links /\ access[e].day \in Days
         /\ access[e].country \in Countries /\ access[e].visitor \in Visitors
<1>1. access[e] \in Payload
  BY DEF TypeOK
<1> QED BY <1>1 DEF Payload, LinkDay, LinkDays

\* The access a worker is at work on.
LEMMA WorkedOn ==
  ASSUME TypeOK, WorkersOK, NEW w \in Workers, worker[w].at # "idle"
  PROVE  /\ worker[w].event \in Accesses /\ Payloads(w) # None
         /\ Payloads(w) = access[worker[w].event]
         /\ Payloads(w) \in Payload /\ LinkDay(Payloads(w)) \in LinkDays
BY PayloadType DEF WorkersOK, WorkerFits, Payloads

\* What a worker's or a finalizer's step does to the other fields.
LEMMA Updates ==
  ASSUME TypeOK
  PROVE  /\ \A w \in Workers : \A step : WorkerGoto(w, step) =>
              /\ worker'[w].at = step /\ worker'[w].event = worker[w].event
              /\ \A x \in Workers : x # w => worker'[x] = worker[x]
         /\ \A w \in Workers, step \in {"check", "record", "ack"} :
              WorkerGoto(w, step) => worker' \in [Workers -> Worker]
         /\ \A a : ReleaseLock(a) =>
              lock' \in [LinkDays -> Workers \cup Finalizers \cup {None}]
<1>1. \A w \in Workers : worker[w] \in Worker
  BY DEF TypeOK
<1>2. ASSUME NEW w \in Workers, NEW step, WorkerGoto(w, step)
      PROVE  /\ worker' = [worker EXCEPT ![w] = [worker[w] EXCEPT !.at = step]]
             /\ worker'[w] = [worker[w] EXCEPT !.at = step]
             /\ \A x \in Workers : x # w => worker'[x] = worker[x]
  BY <1>2 DEF WorkerGoto, TypeOK
<1>3. ASSUME NEW w \in Workers, NEW step, WorkerGoto(w, step)
      PROVE  worker'[w].at = step /\ worker'[w].event = worker[w].event
  <2>1. worker[w] \in Worker /\ worker'[w] = [worker[w] EXCEPT !.at = step]
    BY <1>1, <1>2, <1>3
  <2> QED BY <2>1 DEF Worker
<1>4. ASSUME NEW w \in Workers, NEW step \in {"check", "record", "ack"},
             WorkerGoto(w, step)
      PROVE  worker' \in [Workers -> Worker]
  <2>1. [worker[w] EXCEPT !.at = step] \in Worker
    BY <1>1 DEF Worker
  <2> QED BY <1>2, <1>4, <2>1 DEF TypeOK
<1>5. ASSUME NEW a, ReleaseLock(a)
      PROVE  lock' \in [LinkDays -> Workers \cup Finalizers \cup {None}]
  BY <1>5 DEF ReleaseLock, TypeOK
<1> QED BY <1>2, <1>3, <1>4, <1>5

\* What a failed delivery leaves of its job.
LEMMA RetriedJob ==
  ASSUME TypeOK, JobsOK, NEW e \in Accesses, queue[e].holder # None
  PROVE  /\ Retried(queue[e]) \in Job
         /\ Retried(queue[e]).state \in {"waiting", "failed"}
         /\ Retried(queue[e]).holder = None
         /\ Retried(queue[e]).state = "waiting" =>
              Retried(queue[e]).failures < MaxAttempts
<1>1. queue[e] \in Job /\ queue[e].failures < MaxAttempts
  BY DEF TypeOK, JobsOK
<1>2. queue[e].failures \in 0..MaxAttempts /\ queue[e].stalls \in 0..MaxStalls
  BY <1>1 DEF Job
<1>3. queue[e].failures + 1 \in 0..MaxAttempts
  BY <1>1, <1>2
<1> QED BY <1>2, <1>3 DEF Retried, Job

\* Variables keep their types.
LEMMA TypeStep ==
  ASSUME Inv, [Next]_vars
  PROVE  TypeOK'
<1> USE DEF tables, delivery
<1>0. TypeOK /\ JobsOK /\ WorkersOK /\ FinalizersOK /\ NoJob \in Job
      /\ Resting \in Worker /\ NoRun \in Finalizer
  BY DEF Inv, NoJob, Job, Resting, Worker, NoRun, Finalizer
<1>1. CASE NextDay
  BY <1>0, <1>1 DEF NextDay, TypeOK, Days
<1>2. ASSUME NEW e \in Accesses, Produce(e) \/ Stalled(e) PROVE TypeOK'
  <2>1. CASE Redirected(e)
    <3>1. PICK l \in Links, c \in Countries, v \in Visitors :
            access' = [access EXCEPT ![e] =
                        [link |-> l, day |-> today, country |-> c, visitor |-> v]]
      BY <2>1 DEF Redirected
    <3>2. [link |-> l, day |-> today, country |-> c, visitor |-> v] \in Payload
      BY <1>0 DEF TypeOK, Payload
    <3>3. access' \in [Accesses -> Payload \cup {None}]
      BY <1>0, <3>1, <3>2 DEF TypeOK
    <3>4. sends' \in [Accesses -> 0..MaxSends]
      BY <1>0, <2>1 DEF Redirected, TypeOK
    <3>5. UNCHANGED <<today, queue, worker, finalizer, lock, tables>>
      BY <2>1 DEF Redirected
    <3> QED BY <1>0, <3>3, <3>4, <3>5 DEF TypeOK
  <2>2. CASE Enqueue(e)
    <3>1. [NoJob EXCEPT !.state = "waiting"] \in Job
      BY DEF NoJob, Job
    <3>2. queue' \in [Accesses -> Job]
      BY <1>0, <2>2, <3>1 DEF Enqueue, TypeOK
    <3>3. sends' \in [Accesses -> 0..MaxSends]
      BY <1>0, <2>2 DEF Enqueue, TypeOK
    <3>4. UNCHANGED <<today, access, worker, finalizer, lock, tables>>
      BY <2>2 DEF Enqueue
    <3> QED BY <1>0, <3>2, <3>3, <3>4 DEF TypeOK
  <2>3. CASE LoseAccess(e)
    BY <1>0, <2>3 DEF LoseAccess, TypeOK
  <2>4. CASE Stalled(e)
    <3>1. queue[e] \in Job
      BY <1>0 DEF TypeOK
    <3> DEFINE j == IF queue[e].stalls < MaxStalls
                      THEN [queue[e] EXCEPT !.state = "waiting", !.holder = None,
                                            !.stalls = @ + 1]
                      ELSE [queue[e] EXCEPT !.state = "failed", !.holder = None]
    <3>2. j \in Job
      <4>1. queue[e].stalls < MaxStalls => queue[e].stalls + 1 \in 0..MaxStalls
        BY <3>1 DEF Job
      <4> QED BY <3>1, <4>1 DEF Job
    <3>3. queue' = [queue EXCEPT ![e] = j]
      BY <2>4 DEF Stalled
    <3> HIDE DEF j
    <3>4. queue' \in [Accesses -> Job]
      BY <1>0, <3>2, <3>3 DEF TypeOK
    <3> QED BY <1>0, <2>4, <3>4 DEF Stalled, TypeOK
  <2> QED BY <1>2, <2>1, <2>2, <2>3, <2>4 DEF Produce
<1>3. ASSUME NEW w \in Workers, Process(w) PROVE TypeOK'
  <2>1. ASSUME NEW e \in Accesses, Take(w, e) PROVE TypeOK'
    <3>1. queue[e] \in Job
      BY <1>0 DEF TypeOK
    <3>2. [queue[e] EXCEPT !.state = "active", !.holder = w] \in Job
      BY <3>1 DEF Job
    <3>3. queue' = [queue EXCEPT ![e] = [queue[e] EXCEPT !.state = "active",
                                                        !.holder = w]]
      BY <1>0, <2>1 DEF Take, TypeOK
    <3>4. queue' \in [Accesses -> Job]
      BY <1>0, <3>2, <3>3 DEF TypeOK
    <3>5. [at |-> "lock", event |-> e] \in Worker
      BY DEF Worker
    <3>6. worker' \in [Workers -> Worker]
      BY <1>0, <2>1, <3>5 DEF Take, TypeOK
    <3>7. UNCHANGED <<today, access, sends, finalizer, lock, tables>>
      BY <2>1 DEF Take
    <3> QED BY <1>0, <3>4, <3>6, <3>7 DEF TypeOK
  <2>2. CASE LockForRecord(w)
    <3>1. lock' \in [LinkDays -> Workers \cup Finalizers \cup {None}]
      BY <1>0, <2>2 DEF LockForRecord, TypeOK
    <3>2. worker' \in [Workers -> Worker]
      BY <1>0, <2>2, Updates DEF LockForRecord
    <3> QED BY <1>0, <2>2, <3>1, <3>2 DEF LockForRecord, TypeOK
  <2>3. CASE DropLate(w) \/ SkipDuplicate(w) \/ FindOpen(w)
    <3>1. lock' \in [LinkDays -> Workers \cup Finalizers \cup {None}]
      BY <1>0, <2>3, Updates DEF DropLate, SkipDuplicate, FindOpen, TypeOK
    <3>2. worker' \in [Workers -> Worker]
      BY <1>0, <2>3, Updates DEF DropLate, SkipDuplicate, FindOpen
    <3>3. UNCHANGED <<today, access, sends, queue, finalizer, tables>>
      BY <2>3 DEF DropLate, SkipDuplicate, FindOpen
    <3> QED BY <1>0, <3>1, <3>2, <3>3 DEF TypeOK
  <2>4. CASE RecordAccess(w)
    <3> DEFINE e == worker[w].event
               p == access[e]
               row == [link |-> p.link, day |-> p.day, visitor |-> p.visitor,
                       country |-> p.country]
    <3>1. e \in Accesses /\ p \in Payload
      BY <1>0, <2>4, WorkedOn DEF RecordAccess
    <3>2. row \in Seen
      BY <3>1 DEF Payload, Seen
    <3>3. /\ <<p.link, p.day, p.country>> \in Links \X Days \X Countries
          /\ MonthKey(p) \in Links \X Months
      BY <3>1 DEF Payload, MonthKey, Months
    <3>4. \A f \in Figures, new \in BOOLEAN : Bump(f, new) \in Figures
      BY DEF Bump, Figures
    <3>5. NewVisitor(p) \in BOOLEAN
      BY DEF NewVisitor
    <3>6. daily' \in [Links \X Days \X Countries -> Figures]
      BY <1>0, <2>4, <3>3, <3>4, <3>5 DEF RecordAccess, TypeOK
    <3>7. monthly' \in [Links \X Months -> Figures]
      BY <1>0, <2>4, <3>3, <3>4, <3>5 DEF RecordAccess, TypeOK
    <3>8. /\ events' \subseteq Accesses /\ counted' \subseteq Accesses
          /\ visitors' \subseteq Seen /\ seen' \subseteq Seen
      BY <1>0, <2>4, <3>1, <3>2 DEF RecordAccess, TypeOK
    <3>9. /\ worker' \in [Workers -> Worker]
          /\ lock' \in [LinkDays -> Workers \cup Finalizers \cup {None}]
          /\ UNCHANGED <<today, access, sends, queue, finalizer, closed>>
      BY <1>0, <2>4, Updates DEF RecordAccess
    <3> QED BY <1>0, <3>6, <3>7, <3>8, <3>9 DEF TypeOK
  <2>5. CASE Acknowledge(w)
    <3>1. [NoJob EXCEPT !.state = "completed"] \in Job
      BY DEF NoJob, Job
    <3> QED BY <1>0, <2>5, <3>1 DEF Acknowledge, Settle, TypeOK
  <2> QED BY <1>3, <2>1, <2>2, <2>3, <2>4, <2>5 DEF Process
<1>4. ASSUME NEW w \in Workers, DeliveryFails(w) \/ WorkerCrash(w) PROVE TypeOK'
  <2>1. worker[w].event \in Accesses
    BY <1>0, <1>4, WorkedOn DEF DeliveryFails, WorkerCrash
  <2>2. queue' \in [Accesses -> Job]
    <3>1. w # None
      OBVIOUS
    <3> QED BY <1>0, <1>4, <2>1, <3>1, RetriedJob
            DEF DeliveryFails, WorkerCrash, Settle, TypeOK
  <2>3. worker' \in [Workers -> Worker]
    BY <1>0, <1>4 DEF DeliveryFails, WorkerCrash, Settle, TypeOK
  <2>4. lock' \in [LinkDays -> Workers \cup Finalizers \cup {None}]
    BY <1>0, <1>4, Updates DEF DeliveryFails, WorkerCrash
  <2>5. UNCHANGED <<today, access, sends, finalizer, tables>>
    BY <1>4 DEF DeliveryFails, WorkerCrash
  <2> QED BY <1>0, <2>2, <2>3, <2>4, <2>5 DEF TypeOK
<1>5. ASSUME NEW f \in Finalizers, Finalize(f) \/ RunFails(f) PROVE TypeOK'
  <2>0. finalizer[f] \in Finalizer
    BY <1>0 DEF TypeOK
  <2>1. CASE StartRun(f)
    <3>1. Candidates(today) \subseteq LinkDays
      <4>1. \A s \in visitors : LinkDay(s) \in LinkDays
        BY <1>0 DEF TypeOK, Seen, LinkDay, LinkDays
      <4>2. \A e \in events : LinkDay(access[e]) \in LinkDays
        BY <1>0, PayloadType DEF TypeOK, Inv, RowsOK
      <4> QED BY <4>1, <4>2 DEF Candidates
    <3>2. [at |-> "next", todo |-> Candidates(today), day |-> None] \in Finalizer
      BY <3>1 DEF Finalizer
    <3> QED BY <1>0, <2>1, <3>2 DEF StartRun, TypeOK
  <2>2. CASE CloseDay(f)
    <3>1. [finalizer[f] EXCEPT !.at = "next", !.day = None] \in Finalizer
      BY <2>0 DEF Finalizer
    <3>2. finalizer' = [finalizer EXCEPT ![f] = [finalizer[f] EXCEPT !.at = "next",
                                                                    !.day = None]]
      BY <1>0, <2>2 DEF CloseDay, TypeOK
    <3>3. finalizer' \in [Finalizers -> Finalizer]
      BY <1>0, <3>1, <3>2 DEF TypeOK
    <3>4. lock' \in [LinkDays -> Workers \cup Finalizers \cup {None}]
      BY <1>0, <2>2, Updates DEF CloseDay
    <3>5. closed' \subseteq LinkDays /\ events' \subseteq Accesses
          /\ visitors' \subseteq Seen
      BY <1>0, <2>2 DEF CloseDay, DeleteRawRows, FinalizersOK, RunFits, TypeOK
    <3>6. UNCHANGED <<delivery, daily, monthly, counted, seen>>
      BY <2>2 DEF CloseDay
    <3> QED BY <1>0, <3>3, <3>4, <3>5, <3>6 DEF TypeOK
  <2>3. CASE EndRun(f)
    BY <1>0, <2>3 DEF EndRun, TypeOK
  <2>4. ASSUME NEW k \in LinkDays, LockForClose(f, k) PROVE TypeOK'
    <3> DEFINE q == [finalizer[f] EXCEPT !.at = "close", !.day = k, !.todo = @ \ {k}]
    <3>1. q \in Finalizer
      BY <2>0 DEF Finalizer
    <3>2. finalizer' = [finalizer EXCEPT ![f] = q]
      BY <2>4 DEF LockForClose
    <3> HIDE DEF q
    <3>3. finalizer' \in [Finalizers -> Finalizer]
      BY <1>0, <3>1, <3>2 DEF TypeOK
    <3>4. lock' \in [LinkDays -> Workers \cup Finalizers \cup {None}]
      BY <1>0, <2>4 DEF LockForClose, TypeOK
    <3>5. UNCHANGED <<delivery, tables>>
      BY <2>4 DEF LockForClose
    <3> QED BY <1>0, <3>3, <3>4, <3>5 DEF TypeOK
  <2>5. CASE RunFails(f)
    <3>1. lock' \in [LinkDays -> Workers \cup Finalizers \cup {None}]
      BY <1>0, <2>5, Updates DEF RunFails
    <3> QED BY <1>0, <2>5, <3>1 DEF RunFails, TypeOK
  <2> QED BY <1>5, <2>1, <2>2, <2>3, <2>4, <2>5 DEF Finalize
<1>6. CASE UNCHANGED vars
  BY <1>0, <1>6 DEF vars, TypeOK
<1> QED BY <1>1, <1>2, <1>3, <1>4, <1>5, <1>6 DEF Next

-----------------------------------------------------------------------------
(* What no step undoes                                                     *)

\* A day only passes, an access only happens, a count and a closing only stay.
LEMMA Grows ==
  ASSUME Inv, [Next]_vars
  PROVE  /\ today <= today' /\ today \in Nat /\ today' \in Nat
         /\ \A e \in Accesses : access[e] # None => access'[e] = access[e]
         /\ counted \subseteq counted' /\ closed \subseteq closed'
         /\ \A k \in LinkDays : Closable(k) => Closable(k)'
<1> USE DEF tables, delivery
<1>0. TypeOK /\ RowsOK /\ Days \subseteq Nat
  BY DEF Inv, Days
<1>1. today' = today \/ NextDay
  BY DEF Next, Produce, Process, Finalize, Redirected, Enqueue, LoseAccess, Stalled,
         Take, LockForRecord, DropLate, FindOpen, SkipDuplicate, RecordAccess,
         Acknowledge, DeliveryFails, WorkerCrash, StartRun, CloseDay, EndRun,
         LockForClose, RunFails, vars
<1>2. today <= today' /\ today \in Nat /\ today' \in Nat
  BY <1>0, <1>1 DEF NextDay, TypeOK
<1>3. access' = access \/ \E e \in Accesses : Redirected(e)
  BY DEF Next, Produce, Process, Finalize, NextDay, Enqueue, LoseAccess, Stalled,
         Take, LockForRecord, DropLate, FindOpen, SkipDuplicate, RecordAccess,
         Acknowledge, DeliveryFails, WorkerCrash, StartRun, CloseDay, EndRun,
         LockForClose, RunFails, vars
<1>4. \A e \in Accesses : access[e] # None => access'[e] = access[e]
  BY <1>0, <1>3 DEF Redirected, TypeOK
<1>5. counted \subseteq counted' /\ closed \subseteq closed'
  BY DEF Next, Produce, Process, Finalize, NextDay, Redirected, Enqueue, LoseAccess,
         Stalled, Take, LockForRecord, DropLate, FindOpen, SkipDuplicate,
         RecordAccess, Acknowledge, DeliveryFails, WorkerCrash, StartRun, CloseDay,
         EndRun, LockForClose, RunFails, vars
<1>6. ASSUME NEW k \in LinkDays, Closable(k) PROVE Closable(k)'
  <2>1. PICK e \in counted : LinkDay(access[e]) = k
    BY <1>6 DEF Closable
  <2>2. e \in counted' /\ access'[e] = access[e]
    BY <1>0, <1>4, <1>5 DEF RowsOK, TypeOK
  <2>3. k[2] \in Nat
    BY <1>0 DEF LinkDays
  <2> QED BY <1>2, <1>6, <2>1, <2>2, <2>3 DEF Closable
<1> QED BY <1>2, <1>4, <1>5, <1>6

\* A step of actor a takes a free lock, gives its locks back, or does neither.
LockMove(a) ==
  \/ lock' = lock
  \/ ReleaseLock(a)
  \/ \E k \in LinkDays : LockFree(k) /\ lock' = [lock EXCEPT ![k] = a]

\* No step takes a lock from another actor.
LEMMA LocksAreKept ==
  ASSUME TypeOK, NEW a, LockMove(a), NEW k \in LinkDays, lock[k] # a, lock[k] # None
  PROVE  lock'[k] = lock[k]
BY DEF LockMove, ReleaseLock, LockFree, TypeOK

\* A worker takes and gives back locks only for itself.
LEMMA WorkerLocks ==
  ASSUME Inv, NEW w \in Workers, Process(w) \/ DeliveryFails(w) \/ WorkerCrash(w)
  PROVE  LockMove(w)
<1>1. CASE LockForRecord(w)
  BY <1>1, WorkedOn DEF LockForRecord, LockMove, Inv
<1>2. CASE ~LockForRecord(w)
  BY <1>2 DEF LockMove, Process, Take, DropLate, FindOpen, SkipDuplicate, RecordAccess,
              Acknowledge, DeliveryFails, WorkerCrash
<1> QED BY <1>1, <1>2

\* So does a finalizer.
LEMMA FinalizerLocks ==
  ASSUME NEW f \in Finalizers, Finalize(f) \/ RunFails(f)
  PROVE  LockMove(f)
BY DEF LockMove, Finalize, StartRun, CloseDay, EndRun, LockForClose, RunFails

-----------------------------------------------------------------------------
(* Jobs                                                                    *)

\* The job of x stays, is (again) in the queue, fails, or is completed by the
\* worker that holds it and has ended its transaction.
JobMove(x) ==
  \/ queue'[x] = queue[x]
  \/ /\ sends[x] > 0 \/ queue[x].state # "absent"
     /\ queue'[x].state \in {"waiting", "active", "failed"}
     /\ queue'[x].holder # None => queue'[x].state = "active"
     /\ queue'[x].state \in {"waiting", "active"} =>
          queue'[x].failures < MaxAttempts
  \/ /\ queue'[x].state = "completed" /\ queue'[x].holder = None
     /\ queue[x].state = "active"
     /\ \E w \in Workers : worker[w].at = "ack" /\ worker[w].event = x

\* Every step moves every job in one of these ways.
LEMMA JobMoves ==
  ASSUME Inv, [Next]_vars, NEW x \in Accesses
  PROVE  JobMove(x)
<1> USE DEF tables, delivery
<1>0. /\ TypeOK /\ JobsOK /\ WorkersOK /\ queue[x] \in Job
      /\ 0 < MaxAttempts
  BY DEF Inv, TypeOK
<1>1. ASSUME NEW e \in Accesses, Enqueue(e) PROVE JobMove(x)
  <2>1. \/ queue'[x] = queue[x]
        \/ x = e /\ sends[x] > 0 /\ queue'[x] = [NoJob EXCEPT !.state = "waiting"]
    BY <1>0, <1>1 DEF Enqueue, TypeOK
  <2> QED BY <1>0, <2>1 DEF JobMove, NoJob
<1>2. ASSUME NEW e \in Accesses, Stalled(e) PROVE JobMove(x)
  <2>1. CASE x # e
    BY <1>2, <2>1, <1>0 DEF Stalled, JobMove, TypeOK
  <2>2. CASE x = e
    <3>1. /\ queue[x].state = "active"
          /\ \/ queue'[x] = [queue[x] EXCEPT !.state = "waiting", !.holder = None,
                                             !.stalls = queue[x].stalls + 1]
             \/ queue'[x] = [queue[x] EXCEPT !.state = "failed", !.holder = None]
      BY <1>0, <1>2, <2>2 DEF Stalled, TypeOK
    <3>2. /\ queue'[x].state \in {"waiting", "failed"} /\ queue'[x].holder = None
          /\ queue'[x].failures = queue[x].failures
      BY <1>0, <3>1 DEF Job
    <3> QED BY <1>0, <3>1, <3>2 DEF JobMove, JobsOK
  <2> QED BY <2>1, <2>2
<1>3. ASSUME NEW w \in Workers, NEW e \in Accesses, Take(w, e) PROVE JobMove(x)
  <2>1. CASE x # e
    BY <1>3, <2>1, <1>0 DEF Take, JobMove, TypeOK
  <2>2. CASE x = e
    <3>1. /\ queue[x].state = "waiting"
          /\ queue'[x] = [queue[x] EXCEPT !.state = "active", !.holder = w]
      BY <1>0, <1>3, <2>2 DEF Take, TypeOK
    <3>2. queue'[x].state = "active" /\ queue'[x].failures = queue[x].failures
      BY <1>0, <3>1 DEF Job
    <3> QED BY <1>0, <3>1, <3>2 DEF JobMove, JobsOK
  <2> QED BY <2>1, <2>2
<1>4. ASSUME NEW w \in Workers, Acknowledge(w) PROVE JobMove(x)
  <2>1. \/ queue'[x] = queue[x]
        \/ /\ x = worker[w].event /\ queue[x].holder = w
           /\ queue'[x] = [NoJob EXCEPT !.state = "completed"]
    BY <1>0, <1>4 DEF Acknowledge, Settle, TypeOK
  <2>2. CASE queue'[x] # queue[x]
    <3>1. /\ queue[x].state = "active" /\ worker[w].at = "ack" /\ worker[w].event = x
      BY <1>0, <1>4, <2>1, <2>2 DEF JobsOK, Acknowledge
    <3>2. queue'[x].state = "completed" /\ queue'[x].holder = None
      BY <2>1, <2>2 DEF NoJob
    <3> QED BY <3>1, <3>2 DEF JobMove
  <2> QED BY <2>1, <2>2 DEF JobMove
<1>5. ASSUME NEW w \in Workers, DeliveryFails(w) PROVE JobMove(x)
  <2>1. \/ queue'[x] = queue[x]
        \/ queue[x].holder = w /\ queue'[x] = Retried(queue[x])
    BY <1>0, <1>5 DEF DeliveryFails, Settle, TypeOK
  <2>2. queue[x].holder = w => queue[x].state = "active"
    BY <1>0 DEF JobsOK
  <2> QED BY <1>0, <2>1, <2>2, RetriedJob DEF JobMove
<1>6. CASE UNCHANGED queue
  BY <1>6 DEF JobMove
<1> QED
  BY <1>1, <1>2, <1>3, <1>4, <1>5, <1>6
     DEF Next, Produce, Process, Finalize, NextDay, Redirected, LoseAccess,
         LockForRecord, DropLate, FindOpen, SkipDuplicate, RecordAccess, WorkerCrash,
         StartRun, CloseDay, EndRun, LockForClose, RunFails, vars

\* An add is sent only for an access that happened.
LEMMA SendsStep ==
  ASSUME Inv, [Next]_vars, NEW x \in Accesses, sends'[x] > 0
  PROVE  access'[x] # None
<1> USE DEF tables, delivery
<1>0. TypeOK /\ JobsOK /\ sends \in [Accesses -> 0..MaxSends]
  BY DEF Inv, TypeOK
<1>1. CASE sends[x] > 0
  BY <1>0, <1>1, Grows DEF JobsOK
<1>2. CASE ~(sends[x] > 0)
  <2>1. Redirected(x)
    <3>1. ASSUME NEW e \in Accesses, Enqueue(e) PROVE FALSE
      <4>1. PICK left \in {0, sends[e] - 1} : sends' = [sends EXCEPT ![e] = left]
        BY <3>1 DEF Enqueue
      <4>2. sends[e] > 0 /\ sends'[x] = IF x = e THEN left ELSE sends[x]
        BY <1>0, <3>1, <4>1 DEF Enqueue
      <4> QED BY <1>2, <4>1, <4>2
    <3>2. ASSUME NEW e \in Accesses, LoseAccess(e) PROVE FALSE
      BY <1>0, <1>2, <3>2 DEF LoseAccess
    <3>3. ASSUME NEW e \in Accesses, Redirected(e) PROVE Redirected(x)
      BY <1>0, <1>2, <3>3 DEF Redirected
    <3> QED
      BY <1>2, <3>1, <3>2, <3>3
         DEF Next, Produce, Process, Finalize, NextDay, Stalled, Take, LockForRecord,
             DropLate, FindOpen, SkipDuplicate, RecordAccess, Acknowledge,
             DeliveryFails, WorkerCrash, StartRun, CloseDay, EndRun, LockForClose,
             RunFails, vars
  <2>2. PICK p \in Payload : access'[x] = p
    BY <1>0, <2>1 DEF Redirected, TypeOK, Payload
  <2> QED BY <2>2
<1> QED BY <1>1, <1>2

\* Jobs are in order after a step, and the completed ones counted or late.
LEMMA JobsStep ==
  ASSUME Inv, [Next]_vars
  PROVE  JobsOK' /\ CompletedIsCountedOrLate'
<1>0. JobsOK /\ TypeOK /\ WorkersOK /\ CompletedIsCountedOrLate
  BY DEF Inv
<1>1. ASSUME NEW x \in Accesses
      PROVE  (/\ sends[x] > 0 \/ queue[x].state # "absent" => access[x] # None
              /\ queue[x].holder # None => queue[x].state = "active"
              /\ queue[x].state \in {"waiting", "active"} =>
                   queue[x].failures < MaxAttempts)'
  BY <1>0, JobMoves, SendsStep, Grows DEF JobsOK, JobMove
<1>2. ASSUME NEW x \in Accesses, queue'[x].state = "completed"
      PROVE  x \in counted' \/ LinkDay(access'[x]) \in closed'
  <2>1. access[x] # None
    BY <1>0, <1>2, JobMoves DEF JobMove, JobsOK
  <2>2. x \in counted \/ LinkDay(access[x]) \in closed
    BY <1>0, <1>2, JobMoves
       DEF JobMove, CompletedIsCountedOrLate, WorkersOK, WorkerFits, Payloads
  <2> QED BY <2>1, <2>2, Grows
<1> QED BY <1>1, <1>2 DEF JobsOK, CompletedIsCountedOrLate

-----------------------------------------------------------------------------
(* Deliveries                                                              *)

\* A day is closed under its lock, so under no lock that a worker holds.
LEMMA ClosedUnderLock ==
  ASSUME Inv, [Next]_vars, NEW w \in Workers, NEW k \in LinkDays, lock[k] = w,
         k \notin closed
  PROVE  k \notin closed'
<1> USE DEF tables, delivery
<1>1. closed' = closed \/ \E f \in Finalizers : CloseDay(f)
  BY DEF Next, Produce, Process, Finalize, NextDay, Redirected, Enqueue, LoseAccess,
         Stalled, Take, LockForRecord, DropLate, FindOpen, SkipDuplicate,
         RecordAccess, Acknowledge, DeliveryFails, WorkerCrash, StartRun, EndRun,
         LockForClose, RunFails, vars
<1>2. ASSUME NEW f \in Finalizers, CloseDay(f) PROVE k \notin closed'
  <2>1. lock[finalizer[f].day] = f /\ closed' = closed \cup {finalizer[f].day}
    BY <1>2 DEF CloseDay, Inv, FinalizersOK, RunFits
  <2>2. f # w
    OBVIOUS
  <2> QED BY <2>1, <2>2
<1> QED BY <1>1, <1>2

\* A worker that does not move and keeps its locks still knows what it knew.
LEMMA RestingWorker ==
  ASSUME Inv, [Next]_vars, NEW x \in Workers, worker'[x] = worker[x],
         \A k \in LinkDays : lock[k] = x => lock'[k] = x
  PROVE  WorkerFits(x)'
<1> SUFFICES ASSUME worker[x].at # "idle" PROVE WorkerFits(x)'
  BY DEF WorkerFits
<1> DEFINE e == worker[x].event
<1>0. /\ TypeOK /\ WorkerFits(x) /\ e \in Accesses /\ access[e] # None
      /\ LinkDay(access[e]) \in LinkDays
      /\ Payloads(x) = access[e] /\ Payloads(x)' = access'[e]
  BY WorkedOn DEF Inv, WorkersOK, Payloads
<1>1. access'[e] = access[e] /\ counted \subseteq counted' /\ closed \subseteq closed'
  BY <1>0, Grows
<1>2. worker[x].at = "record" => LinkDay(access[e]) \notin closed'
  BY <1>0, ClosedUnderLock DEF WorkerFits
<1> HIDE DEF e
<1> QED BY <1>0, <1>1, <1>2 DEF WorkerFits, e

\* A worker's own step.
LEMMA MovingWorker ==
  ASSUME Inv, TypeOK', NEW w \in Workers,
         Process(w) \/ DeliveryFails(w) \/ WorkerCrash(w)
  PROVE  WorkerFits(w)'
<1>0. TypeOK /\ JobsOK /\ WorkersOK /\ RowsOK /\ WorkerFits(w) /\ Resting.at = "idle"
  BY DEF Inv, WorkersOK, Resting
<1>1. ASSUME NEW e \in Accesses, Take(w, e) PROVE WorkerFits(w)'
  <2>1. worker'[w].at = "lock" /\ worker'[w].event = e /\ access' = access
    BY <1>0, <1>1 DEF Take, TypeOK
  <2>2. access[e] # None
    BY <1>0, <1>1 DEF Take, JobsOK
  <2> QED BY <2>1, <2>2 DEF WorkerFits, Payloads
<1>2. CASE LockForRecord(w)
  <2>1. /\ worker'[w].at = "check" /\ worker'[w].event = worker[w].event
        /\ worker[w].at = "lock" /\ access' = access
    BY <1>0, <1>2, Updates DEF LockForRecord
  <2>2. Payloads(w)' = Payloads(w) /\ LinkDay(Payloads(w)) \in LinkDays
    BY <1>0, <2>1, WorkedOn DEF Payloads
  <2>3. lock'[LinkDay(Payloads(w))] = w
    BY <1>0, <1>2, <2>2 DEF LockForRecord, TypeOK
  <2> QED BY <1>0, <2>1, <2>2, <2>3 DEF WorkerFits
<1>3. CASE DropLate(w)
  <2>1. /\ worker'[w].at = "ack" /\ worker'[w].event = worker[w].event
        /\ worker[w].at = "check" /\ access' = access /\ closed' = closed
        /\ Payloads(w)' = Payloads(w)
    BY <1>0, <1>3, Updates DEF DropLate, tables, Payloads
  <2> QED BY <1>0, <1>3, <2>1 DEF DropLate, WorkerFits
<1>4. CASE FindOpen(w)
  <2>1. /\ worker'[w].at = "record" /\ worker'[w].event = worker[w].event
        /\ worker[w].at = "check" /\ access' = access /\ closed' = closed
        /\ lock' = lock /\ Payloads(w)' = Payloads(w)
    BY <1>0, <1>4, Updates DEF FindOpen, tables, Payloads
  <2> QED BY <1>0, <1>4, <2>1 DEF FindOpen, WorkerFits
<1>5. CASE SkipDuplicate(w)
  <2>1. /\ worker'[w].at = "ack" /\ worker'[w].event = worker[w].event
        /\ worker[w].at = "record" /\ access' = access /\ counted' = counted
        /\ Payloads(w)' = Payloads(w)
    BY <1>0, <1>5, Updates DEF SkipDuplicate, tables, Payloads
  <2>2. worker[w].event \in counted
    BY <1>0, <1>5 DEF SkipDuplicate, NewEvent, RowsOK
  <2> QED BY <1>0, <2>1, <2>2 DEF WorkerFits
<1>6. CASE RecordAccess(w)
  <2>1. /\ worker'[w].at = "ack" /\ worker'[w].event = worker[w].event
        /\ worker[w].at = "record" /\ access' = access
        /\ worker[w].event \in counted' /\ Payloads(w)' = Payloads(w)
    BY <1>0, <1>6, Updates DEF RecordAccess, Payloads
  <2> QED BY <1>0, <2>1 DEF WorkerFits
<1>7. CASE Acknowledge(w) \/ DeliveryFails(w) \/ WorkerCrash(w)
  BY <1>0, <1>7 DEF Acknowledge, DeliveryFails, WorkerCrash, Settle, TypeOK, WorkerFits
<1> QED BY <1>1, <1>2, <1>3, <1>4, <1>5, <1>6, <1>7 DEF Process

\* What workers know stays true.
LEMMA WorkersStep ==
  ASSUME Inv, TypeOK', [Next]_vars
  PROVE  WorkersOK'
<1> USE DEF tables, delivery
<1> SUFFICES ASSUME NEW x \in Workers PROVE WorkerFits(x)'
  BY DEF WorkersOK
<1>0. TypeOK
  BY DEF Inv
<1>1. ASSUME NEW w \in Workers, Process(w) \/ DeliveryFails(w) \/ WorkerCrash(w)
      PROVE  WorkerFits(x)'
  <2>1. CASE x = w
    BY <1>1, <2>1, MovingWorker
  <2>2. CASE x # w
    <3>1. worker'[x] = worker[x]
      BY <1>0, <1>1, <2>2
         DEF Process, Take, LockForRecord, DropLate, FindOpen, SkipDuplicate,
             RecordAccess, Acknowledge, DeliveryFails, WorkerCrash, Settle, WorkerGoto,
             TypeOK
    <3>2. \A k \in LinkDays : lock[k] = x => lock'[k] = x
      BY <1>0, <1>1, <2>2, WorkerLocks, LocksAreKept
    <3> QED BY <3>1, <3>2, RestingWorker
  <2> QED BY <2>1, <2>2
<1>2. ASSUME NEW f \in Finalizers, Finalize(f) \/ RunFails(f)
      PROVE  WorkerFits(x)'
  <2>1. worker' = worker
    BY <1>2 DEF Finalize, StartRun, CloseDay, EndRun, LockForClose, RunFails
  <2>2. f # x
    OBVIOUS
  <2>3. \A k \in LinkDays : lock[k] = x => lock'[k] = x
    BY <1>0, <1>2, <2>2, FinalizerLocks, LocksAreKept
  <2> QED BY <2>1, <2>3, RestingWorker
<1>3. CASE UNCHANGED <<worker, lock>>
  BY <1>3, RestingWorker
<1> QED BY <1>1, <1>2, <1>3
        DEF Next, NextDay, Produce, Redirected, Enqueue, LoseAccess, Stalled, vars

-----------------------------------------------------------------------------
(* Runs of the finalizer                                                   *)

\* The candidates of a run have been counted and are past.
LEMMA CandidatesClosable ==
  ASSUME Inv, NEW k \in Candidates(today)
  PROVE  Closable(k)
<1>1. CASE \E e \in events : access[e].day < today /\ k = LinkDay(access[e])
  BY <1>1 DEF Closable, LinkDay, Inv, RowsOK
<1>2. CASE \E s \in visitors : s.day < today /\ k = LinkDay(s)
  BY <1>2 DEF Closable, LinkDay, Inv, RowsOK
<1> QED BY <1>1, <1>2 DEF Candidates

\* What runs know stays true.
LEMMA FinalizersStep ==
  ASSUME Inv, TypeOK', [Next]_vars
  PROVE  FinalizersOK'
<1> USE DEF tables, delivery
<1> SUFFICES ASSUME NEW x \in Finalizers PROVE RunFits(x)'
  BY DEF FinalizersOK
<1>0. TypeOK /\ RunFits(x) /\ finalizer[x] \in Finalizer
  BY DEF Inv, TypeOK, FinalizersOK
<1>1. \A k \in LinkDays : Closable(k) => Closable(k)'
  BY Grows
<1>2. ASSUME finalizer'[x] = finalizer[x],
             \A k \in LinkDays : lock[k] = x => lock'[k] = x
      PROVE  RunFits(x)'
  BY <1>0, <1>1, <1>2 DEF RunFits, Finalizer
<1>3. ASSUME NEW w \in Workers, Process(w) \/ DeliveryFails(w) \/ WorkerCrash(w)
      PROVE  RunFits(x)'
  <2>1. finalizer' = finalizer
    BY <1>3
       DEF Process, Take, LockForRecord, DropLate, FindOpen, SkipDuplicate,
           RecordAccess, Acknowledge, DeliveryFails, WorkerCrash
  <2>2. w # x
    OBVIOUS
  <2>3. \A k \in LinkDays : lock[k] = x => lock'[k] = x
    BY <1>0, <1>3, <2>2, WorkerLocks, LocksAreKept
  <2> QED BY <1>2, <2>1, <2>3
<1>4. ASSUME NEW f \in Finalizers, f # x, Finalize(f) \/ RunFails(f)
      PROVE  RunFits(x)'
  <2>1. finalizer'[x] = finalizer[x]
    BY <1>0, <1>4 DEF Finalize, StartRun, CloseDay, EndRun, LockForClose, RunFails,
                      TypeOK
  <2>2. \A k \in LinkDays : lock[k] = x => lock'[k] = x
    BY <1>0, <1>4, FinalizerLocks, LocksAreKept
  <2> QED BY <1>2, <2>1, <2>2
<1>5. CASE StartRun(x)
  <2>1. /\ finalizer'[x].at = "next" /\ finalizer'[x].todo = Candidates(today)
        /\ today' = today /\ counted' = counted /\ access' = access
    BY <1>0, <1>5 DEF StartRun, TypeOK
  <2> QED BY <2>1, CandidatesClosable DEF RunFits, Closable
<1>6. CASE CloseDay(x)
  <2>1. finalizer'[x] = [finalizer[x] EXCEPT !.at = "next", !.day = None]
    BY <1>0, <1>6 DEF CloseDay, TypeOK
  <2>2. finalizer'[x].at = "next" /\ finalizer'[x].todo = finalizer[x].todo
    BY <1>0, <2>1 DEF Finalizer
  <2> QED BY <1>0, <1>1, <2>2 DEF RunFits, Finalizer
<1>7. ASSUME NEW k \in LinkDays, LockForClose(x, k) PROVE RunFits(x)'
  <2>1. finalizer'[x] = [finalizer[x] EXCEPT !.at = "close", !.day = k,
                                             !.todo = finalizer[x].todo \ {k}]
    BY <1>0, <1>7 DEF LockForClose, TypeOK
  <2>2. finalizer'[x].day = k /\ finalizer'[x].todo = finalizer[x].todo \ {k}
    BY <1>0, <2>1 DEF Finalizer
  <2>3. lock'[k] = x /\ k \in finalizer[x].todo
    BY <1>0, <1>7 DEF LockForClose, TypeOK
  <2> QED BY <1>0, <1>1, <2>2, <2>3 DEF RunFits, Finalizer
<1>8. CASE EndRun(x) \/ RunFails(x)
  <2>1. finalizer'[x].at = "idle" /\ finalizer'[x].todo = {}
    BY <1>0, <1>8 DEF EndRun, RunFails, TypeOK, NoRun
  <2> QED BY <2>1 DEF RunFits
<1>9. CASE UNCHANGED <<finalizer, lock>>
  BY <1>2, <1>9
<1> QED BY <1>3, <1>4, <1>5, <1>6, <1>7, <1>8, <1>9
        DEF Next, Finalize, NextDay, Produce, Redirected, Enqueue, LoseAccess,
            Stalled, vars

-----------------------------------------------------------------------------
(* Rows and figures                                                        *)

\* The row a new visitor leaves.
VisitorRow(p) ==
  [link |-> p.link, day |-> p.day, visitor |-> p.visitor, country |-> p.country]

\* What is recorded was not counted before, its day is open, and its visitor is
\* new among the raw rows of the day just if it was never seen that day.
LEMMA Recorded ==
  ASSUME Inv, NEW w \in Workers, RecordAccess(w),
         NEW e, e = worker[w].event, NEW p, p = access[e]
  PROVE  /\ e \in Accesses /\ e \notin counted /\ e \notin events
         /\ p \in Payload /\ p # None /\ LinkDay(p) \notin closed
         /\ VisitorRow(p) \in Seen /\ LinkDay(VisitorRow(p)) = LinkDay(p)
         /\ NewVisitor(p) =>
              \A s \in seen : ~(s.link = p.link /\ s.day = p.day
                                /\ s.visitor = p.visitor)
<1>1. /\ e \in Accesses /\ p \in Payload /\ p # None
      /\ LinkDay(p) \notin closed /\ e \notin events
  <2>1. worker[w].at = "record" /\ e \notin events
    BY DEF RecordAccess, NewEvent
  <2>2. TypeOK /\ WorkersOK /\ WorkerFits(w)
    BY DEF Inv, WorkersOK
  <2>3. e \in Accesses /\ p \in Payload /\ p # None /\ p = Payloads(w)
    BY <2>1, <2>2, WorkedOn
  <2> QED BY <2>1, <2>2, <2>3 DEF WorkerFits
<1>2. e \notin counted
  BY <1>1 DEF Inv, RowsOK
<1>3. VisitorRow(p) \in Seen /\ LinkDay(VisitorRow(p)) = LinkDay(p)
  BY <1>1 DEF VisitorRow, Seen, Payload, LinkDay
<1>4. ASSUME NewVisitor(p), NEW s \in seen, s.link = p.link, s.day = p.day,
             s.visitor = p.visitor
      PROVE  FALSE
  <2>1. s \in visitors \/ LinkDay(s) \in closed
    BY DEF Inv, RowsOK
  <2>2. LinkDay(s) = LinkDay(p)
    BY <1>4 DEF LinkDay
  <2> QED BY <1>1, <1>4, <2>1, <2>2 DEF NewVisitor
<1> QED BY <1>1, <1>2, <1>3, <1>4

\* Only recording and closing write the tables.
LEMMA QuietTables ==
  ASSUME Inv, [Next]_vars, ~\E w \in Workers : RecordAccess(w),
         ~\E f \in Finalizers : CloseDay(f)
  PROVE  UNCHANGED tables
BY DEF tables, delivery, Next, Produce, Process, Finalize, NextDay, Redirected,
       Enqueue, LoseAccess, Stalled, Take, LockForRecord, DropLate, FindOpen,
       SkipDuplicate, Acknowledge, DeliveryFails, WorkerCrash, StartRun, EndRun,
       LockForClose, RunFails, vars

\* No step breaks the rows.
LEMMA RowsStep ==
  ASSUME Inv, [Next]_vars
  PROVE  RowsOK' /\ ClosedDayHasNoRawRows' /\ Finite'
<1>0. /\ TypeOK /\ RowsOK /\ ClosedDayHasNoRawRows /\ Finite
      /\ \A e \in counted : access[e] # None /\ access'[e] = access[e]
  BY Grows DEF Inv, RowsOK, TypeOK
<1>1. ASSUME NEW w \in Workers, RecordAccess(w)
      PROVE  RowsOK' /\ ClosedDayHasNoRawRows' /\ Finite'
  <2> DEFINE e == worker[w].event
             p == access[e]
             row == VisitorRow(p)
  <2>1. /\ e \in Accesses /\ p # None /\ LinkDay(p) \notin closed
        /\ LinkDay(row) = LinkDay(p)
    BY <1>1, Recorded
  <2>2. /\ events' = events \cup {e} /\ counted' = counted \cup {e}
        /\ access' = access /\ closed' = closed
        /\ \/ visitors' = visitors \cup {row} /\ seen' = seen \cup {row}
           \/ visitors' = visitors /\ seen' = seen
    BY <1>1 DEF RecordAccess, VisitorRow
  <2> HIDE DEF e, row
  <2>3. RowsOK'
    BY <1>0, <2>1, <2>2 DEF RowsOK
  <2>4. ClosedDayHasNoRawRows'
    BY <1>0, <2>1, <2>2 DEF ClosedDayHasNoRawRows
  <2>5. Finite'
    BY <1>0, <2>2, FS_AddElement, SMTT(40) DEF Finite
  <2> QED BY <2>3, <2>4, <2>5
<1>2. ASSUME NEW f \in Finalizers, CloseDay(f)
      PROVE  RowsOK' /\ ClosedDayHasNoRawRows' /\ Finite'
  <2> DEFINE k == finalizer[f].day
  <2>1. /\ closed' = closed \cup {k}
        /\ events' = {e \in events : LinkDay(access[e]) # k}
        /\ visitors' = {s \in visitors : LinkDay(s) # k}
        /\ access' = access /\ counted' = counted /\ seen' = seen
    BY <1>2 DEF CloseDay, DeleteRawRows, delivery
  <2> HIDE DEF k
  <2> QED BY <1>0, <2>1 DEF RowsOK, ClosedDayHasNoRawRows, Finite
<1>3. CASE UNCHANGED tables
  BY <1>0, <1>3 DEF tables, RowsOK, ClosedDayHasNoRawRows, Finite
<1> QED BY <1>1, <1>2, <1>3, QuietTables

\* Recording adds one access to the figures of its day, country and month, and
\* one visitor to the same figures when it is the first of the day.
LEMMA FiguresRecorded ==
  ASSUME Inv, NEW w \in Workers, RecordAccess(w)
  PROVE  AggregatesExact'
<1> DEFINE e == worker[w].event
           p == access[e]
           row == VisitorRow(p)
           new == NewVisitor(p)
<1>0. TypeOK /\ RowsOK /\ Finite /\ AggregatesExact
  BY DEF Inv
<1>1. /\ e \in Accesses /\ e \notin counted /\ p \in Payload /\ p # None
      /\ row \in Seen /\ (new => row \notin seen)
  <2>1. \A s \in seen : s = row => s.link = p.link /\ s.day = p.day
                                   /\ s.visitor = p.visitor
    BY DEF VisitorRow
  <2> QED BY <2>1, Recorded
<1>2. /\ p.link \in Links /\ p.day \in Days /\ p.country \in Countries
      /\ MonthOf[p.day] \in Months
      /\ row.link = p.link /\ row.day = p.day /\ row.country = p.country
      /\ p = access[e]
  BY <1>1 DEF Payload, Months, VisitorRow
<1>3. /\ counted' = counted \cup {e} /\ access' = access
      /\ seen' = IF new THEN seen \cup {row} ELSE seen
      /\ daily' = [daily EXCEPT ![<<p.link, p.day, p.country>>] = Bump(@, new)]
      /\ monthly' = [monthly EXCEPT ![MonthKey(p)] = Bump(@, new)]
  BY DEF RecordAccess, VisitorRow
<1>4. new \in BOOLEAN
  BY DEF NewVisitor
<1> HIDE DEF e, p, row, new
<1>5. \A f \in Figures :
        /\ Bump(f, new).accesses = f.accesses + 1
        /\ Bump(f, new).uniques = IF new THEN f.uniques + 1 ELSE f.uniques
  BY DEF Bump
<1>6. ASSUME NEW l \in Links, NEW d \in Days, NEW c \in Countries
      PROVE  (/\ daily[<<l, d, c>>].accesses =
                   Cardinality({x \in counted : On(x, l, d) /\ access[x].country = c})
              /\ daily[<<l, d, c>>].uniques =
                   Cardinality({s \in seen : s.link = l /\ s.day = d /\ s.country = c}))'
  <2> DEFINE A == {x \in counted : On(x, l, d) /\ access[x].country = c}
             V == {s \in seen : s.link = l /\ s.day = d /\ s.country = c}
             hit == l = p.link /\ d = p.day /\ c = p.country
  <2>1. /\ daily[<<l, d, c>>].accesses = Cardinality(A)
        /\ daily[<<l, d, c>>].uniques = Cardinality(V)
        /\ daily[<<l, d, c>>] \in Figures
    <3>1. daily[<<l, d, c>>] \in Figures
      BY <1>0 DEF TypeOK
    <3>2. /\ daily[<<l, d, c>>].accesses = Cardinality(A)
          /\ daily[<<l, d, c>>].uniques = Cardinality(V)
      BY <1>0 DEF AggregatesExact
    <3> QED BY <3>1, <3>2
  <2>2. daily'[<<l, d, c>>] = IF hit THEN Bump(daily[<<l, d, c>>], new) ELSE daily[<<l, d, c>>]
    <3>1. <<l, d, c>> \in Links \X Days \X Countries
      OBVIOUS
    <3>2. <<l, d, c>> = <<p.link, p.day, p.country>> <=> hit
      OBVIOUS
    <3> HIDE DEF hit
    <3> QED BY <1>0, <1>3, <3>1, <3>2 DEF TypeOK
  <2>3. A' = IF hit THEN A \cup {e} ELSE A
    BY <1>1, <1>2, <1>3 DEF On
  <2>4. V' = IF hit /\ new THEN V \cup {row} ELSE V
    BY <1>2, <1>3
  <2>5. A \subseteq counted /\ V \subseteq seen
    OBVIOUS
  <2> HIDE DEF A, V, hit
  <2>6. Cardinality(A') = IF hit THEN Cardinality(A) + 1 ELSE Cardinality(A)
    <3>1. IsFiniteSet(counted) /\ e \notin counted /\ A \subseteq counted
      BY <1>0, <1>1, <2>5 DEF Finite
    <3>2. IsFiniteSet(A) /\ e \notin A
      BY <3>1, FS_Subset
    <3>3. Cardinality(A \cup {e}) = Cardinality(A) + 1
      BY <3>2, FS_AddElement
    <3> QED BY <2>3, <3>3
  <2>7. Cardinality(V') = IF hit /\ new THEN Cardinality(V) + 1 ELSE Cardinality(V)
    <3>1. IsFiniteSet(seen) /\ (new => row \notin seen) /\ V \subseteq seen
      BY <1>0, <1>1, <2>5 DEF Finite
    <3>2. IsFiniteSet(V) /\ (new => row \notin V)
      BY <3>1, FS_Subset
    <3>3. new => Cardinality(V \cup {row}) = Cardinality(V) + 1
      BY <3>2, FS_AddElement
    <3> QED BY <2>4, <3>3
  <2>8. /\ daily'[<<l, d, c>>].accesses = Cardinality(A')
        /\ daily'[<<l, d, c>>].uniques = Cardinality(V')
    BY <1>4, <1>5, <2>1, <2>2, <2>6, <2>7
  <2> QED BY <2>8 DEF A, V
<1>7. ASSUME NEW l \in Links, NEW m \in Months
      PROVE  (/\ monthly[<<l, m>>].accesses =
                   Cardinality({x \in counted : access[x].link = l
                                                /\ MonthOf[access[x].day] = m})
              /\ monthly[<<l, m>>].uniques =
                   Cardinality({s \in seen : s.link = l /\ MonthOf[s.day] = m}))'
  <2> DEFINE A == {x \in counted : access[x].link = l /\ MonthOf[access[x].day] = m}
             V == {s \in seen : s.link = l /\ MonthOf[s.day] = m}
             hit == l = p.link /\ m = MonthOf[p.day]
  <2>1. /\ monthly[<<l, m>>].accesses = Cardinality(A)
        /\ monthly[<<l, m>>].uniques = Cardinality(V)
        /\ monthly[<<l, m>>] \in Figures
    BY <1>0, ZenonT(60) DEF AggregatesExact, TypeOK
  <2>2. monthly'[<<l, m>>] = IF hit THEN Bump(monthly[<<l, m>>], new) ELSE monthly[<<l, m>>]
    <3>1. <<l, m>> \in Links \X Months
      OBVIOUS
    <3>2. <<l, m>> = MonthKey(p) <=> hit
      BY DEF MonthKey
    <3> HIDE DEF hit
    <3> QED BY <1>0, <1>3, <3>1, <3>2 DEF TypeOK
  <2>3. A' = IF hit THEN A \cup {e} ELSE A
    BY <1>1, <1>2, <1>3
  <2>4. V' = IF hit /\ new THEN V \cup {row} ELSE V
    BY <1>2, <1>3
  <2>5. A \subseteq counted /\ V \subseteq seen
    OBVIOUS
  <2> HIDE DEF A, V, hit
  <2>6. Cardinality(A') = IF hit THEN Cardinality(A) + 1 ELSE Cardinality(A)
    <3>1. IsFiniteSet(counted) /\ e \notin counted /\ A \subseteq counted
      BY <1>0, <1>1, <2>5 DEF Finite
    <3>2. IsFiniteSet(A) /\ e \notin A
      BY <3>1, FS_Subset
    <3>3. Cardinality(A \cup {e}) = Cardinality(A) + 1
      BY <3>2, FS_AddElement
    <3> QED BY <2>3, <3>3
  <2>7. Cardinality(V') = IF hit /\ new THEN Cardinality(V) + 1 ELSE Cardinality(V)
    <3>1. IsFiniteSet(seen) /\ (new => row \notin seen) /\ V \subseteq seen
      BY <1>0, <1>1, <2>5 DEF Finite
    <3>2. IsFiniteSet(V) /\ (new => row \notin V)
      BY <3>1, FS_Subset
    <3>3. new => Cardinality(V \cup {row}) = Cardinality(V) + 1
      BY <3>2, FS_AddElement
    <3> QED BY <2>4, <3>3
  <2>8. /\ monthly'[<<l, m>>].accesses = Cardinality(A')
        /\ monthly'[<<l, m>>].uniques = Cardinality(V')
    BY <1>4, <1>5, <2>1, <2>2, <2>6, <2>7
  <2> QED BY <2>8 DEF A, V
<1> QED BY <1>6, <1>7 DEF AggregatesExact, Months

\* Figures stay exact.
LEMMA FiguresStep ==
  ASSUME Inv, [Next]_vars
  PROVE  AggregatesExact'
<1>0. /\ AggregatesExact
      /\ \A e \in counted : access[e] # None /\ access'[e] = access[e]
  BY Grows DEF Inv, RowsOK, TypeOK
<1>0a. \A l \in Links, d \in Days, c \in Countries :
         /\ daily[<<l, d, c>>].accesses =
              Cardinality({e \in counted : On(e, l, d) /\ access[e].country = c})
         /\ daily[<<l, d, c>>].uniques =
              Cardinality({s \in seen : s.link = l /\ s.day = d /\ s.country = c})
  <2>1. AggregatesExact
    BY <1>0
  <2> QED BY <2>1, Zenon DEF AggregatesExact
<1>1. CASE UNCHANGED <<daily, monthly, counted, seen>>
  <2>1. /\ daily' = daily /\ monthly' = monthly /\ counted' = counted /\ seen' = seen
    BY <1>1
  <2>4. \A l \in Links, d \in Days, c \in Countries :
          (/\ daily[<<l, d, c>>].accesses =
                Cardinality({e \in counted : On(e, l, d) /\ access[e].country = c})
           /\ daily[<<l, d, c>>].uniques =
                Cardinality({s \in seen : s.link = l /\ s.day = d /\ s.country = c}))'
    <3> TAKE l \in Links, d \in Days, c \in Countries
    <3>1. /\ daily[<<l, d, c>>].accesses =
               Cardinality({e \in counted : On(e, l, d) /\ access[e].country = c})
          /\ daily[<<l, d, c>>].uniques =
               Cardinality({s \in seen : s.link = l /\ s.day = d /\ s.country = c})
      BY <1>0a
    <3>2. {e \in counted : On(e, l, d) /\ access[e].country = c}'
            = {e \in counted : On(e, l, d) /\ access[e].country = c}
      BY <1>0, <2>1 DEF On
    <3> QED BY <2>1, <3>1, <3>2
  <2>5. \A l \in Links, m \in Months :
          (/\ monthly[<<l, m>>].accesses =
                Cardinality({e \in counted : access[e].link = l
                                             /\ MonthOf[access[e].day] = m})
           /\ monthly[<<l, m>>].uniques =
                Cardinality({s \in seen : s.link = l /\ MonthOf[s.day] = m}))'
    <3> TAKE l \in Links, m \in Months
    <3>1. /\ monthly[<<l, m>>].accesses =
               Cardinality({e \in counted : access[e].link = l
                                            /\ MonthOf[access[e].day] = m})
          /\ monthly[<<l, m>>].uniques =
               Cardinality({s \in seen : s.link = l /\ MonthOf[s.day] = m})
      BY <1>0 DEF AggregatesExact
    <3>2. {e \in counted : access[e].link = l /\ MonthOf[access[e].day] = m}'
            = {e \in counted : access[e].link = l /\ MonthOf[access[e].day] = m}
      BY <1>0, <2>1
    <3> QED BY <2>1, <3>1, <3>2
  <2> QED BY <2>4, <2>5 DEF AggregatesExact, Months
<1>2. ASSUME NEW f \in Finalizers, CloseDay(f)
      PROVE  UNCHANGED <<daily, monthly, counted, seen>>
  BY <1>2 DEF CloseDay
<1>3. CASE UNCHANGED tables
  BY <1>1, <1>3 DEF tables
<1> QED BY <1>1, <1>2, <1>3, QuietTables, FiguresRecorded

-----------------------------------------------------------------------------
(* The invariant is inductive                                              *)

\* Nothing has happened in the beginning.
LEMMA InitInv == ASSUME Init PROVE Inv
<1>0. TypeOK
  BY DEF Init, TypeOK, Days, Job, NoJob, Worker, Resting, Finalizer, NoRun, Figures,
         Zero
<1>1. JobsOK /\ CompletedIsCountedOrLate
  BY DEF Init, JobsOK, NoJob, CompletedIsCountedOrLate
<1>2. WorkersOK /\ FinalizersOK
  BY DEF Init, WorkersOK, WorkerFits, Resting, FinalizersOK, RunFits, NoRun
<1>3. RowsOK /\ ClosedDayHasNoRawRows /\ Finite
  BY FS_EmptySet DEF Init, RowsOK, ClosedDayHasNoRawRows, Finite
<1>4. AggregatesExact
  <2>1. counted = {} /\ seen = {}
    BY DEF Init
  <2>2. /\ \A l \in Links, d \in Days, c \in Countries :
             daily[<<l, d, c>>].accesses = 0 /\ daily[<<l, d, c>>].uniques = 0
        /\ \A l \in Links, m \in Months :
             monthly[<<l, m>>].accesses = 0 /\ monthly[<<l, m>>].uniques = 0
    BY DEF Init, Zero
  <2>3. Cardinality({}) = 0
    BY FS_EmptySet
  <2>4. ASSUME NEW l \in Links, NEW d \in Days, NEW c \in Countries
        PROVE  /\ daily[<<l, d, c>>].accesses =
                    Cardinality({e \in counted : On(e, l, d) /\ access[e].country = c})
               /\ daily[<<l, d, c>>].uniques =
                    Cardinality({s \in seen : s.link = l /\ s.day = d
                                              /\ s.country = c})
    <3>1. /\ {e \in counted : On(e, l, d) /\ access[e].country = c} = {}
          /\ {s \in seen : s.link = l /\ s.day = d /\ s.country = c} = {}
      BY <2>1
    <3> QED BY <2>2, <2>3, <3>1
  <2>5. ASSUME NEW l \in Links, NEW m \in Months
        PROVE  /\ monthly[<<l, m>>].accesses =
                    Cardinality({e \in counted : access[e].link = l
                                                 /\ MonthOf[access[e].day] = m})
               /\ monthly[<<l, m>>].uniques =
                    Cardinality({s \in seen : s.link = l /\ MonthOf[s.day] = m})
    <3>1. /\ {e \in counted : access[e].link = l /\ MonthOf[access[e].day] = m} = {}
          /\ {s \in seen : s.link = l /\ MonthOf[s.day] = m} = {}
      BY <2>1
    <3> QED BY <2>2, <2>3, <3>1
  <2> QED BY <2>4, <2>5 DEF AggregatesExact
<1> QED BY <1>0, <1>1, <1>2, <1>3, <1>4 DEF Inv

\* No step breaks the invariant.
LEMMA InvStep == Inv /\ [Next]_vars => Inv'
BY TypeStep, JobsStep, WorkersStep, FinalizersStep, RowsStep, FiguresStep DEF Inv

\* The invariant holds in every reachable state.
THEOREM StatisticsInvariant == Spec => []Inv
BY InitInv, InvStep, PTL DEF Spec

-----------------------------------------------------------------------------
(* The properties                                                          *)

\* Jobs, workers, runs, locks and tables keep their types.
THEOREM StatisticsTypeCorrect == Spec => []TypeOK
BY StatisticsInvariant, PTL DEF Inv

\* The figures of every day, month and country are exact, however often a job is
\* delivered and whenever its day is closed.
THEOREM FiguresAreExact == Spec => []AggregatesExact
BY StatisticsInvariant, PTL DEF Inv

\* A closed day has no raw rows.
THEOREM ClosedDaysStayEmpty == Spec => []ClosedDayHasNoRawRows
BY StatisticsInvariant, PTL DEF Inv

\* A completed job is counted, or came for a closed day.
THEOREM CompletedJobsAreCounted == Spec => []CompletedIsCountedOrLate
BY StatisticsInvariant, PTL DEF Inv

\* The figures of a closed day do not change.
THEOREM ClosedFiguresAreFrozen == Spec => ClosedDaysAreFrozen
<1>1. ASSUME Inv, [Next]_vars, NEW l \in Links, NEW d \in Days, NEW c \in Countries,
             <<l, d>> \in closed
      PROVE  daily'[<<l, d, c>>] = daily[<<l, d, c>>]
  <2>1. ASSUME NEW w \in Workers, RecordAccess(w)
        PROVE  daily'[<<l, d, c>>] = daily[<<l, d, c>>]
    <3> DEFINE p == access[worker[w].event]
    <3>1. <<p.link, p.day>> # <<l, d>>
      BY <1>1, <2>1, Recorded DEF LinkDay
    <3>2. daily' = [daily EXCEPT ![<<p.link, p.day, p.country>>] =
                                     Bump(@, NewVisitor(p))]
      BY <2>1 DEF RecordAccess
    <3>3. daily \in [Links \X Days \X Countries -> Figures]
          /\ <<l, d, c>> \in Links \X Days \X Countries
      BY <1>1 DEF Inv, TypeOK
    <3> HIDE DEF p
    <3> QED BY <3>1, <3>2, <3>3
  <2>2. ASSUME NEW f \in Finalizers, CloseDay(f) PROVE daily' = daily
    BY <2>2 DEF CloseDay
  <2>3. CASE UNCHANGED tables
    BY <2>3 DEF tables
  <2> QED BY <1>1, <2>1, <2>2, <2>3, QuietTables
<1>2. Inv /\ [Next]_vars =>
        [\A l \in Links, d \in Days, c \in Countries :
           <<l, d>> \in closed => daily'[<<l, d, c>>] = daily[<<l, d, c>>]]_vars
  BY <1>1
<1> QED BY <1>2, StatisticsInvariant, PTL DEF Spec, ClosedDaysAreFrozen

-----------------------------------------------------------------------------
(* Recording and closing are the atomic operations of AccessLedger         *)

\* A recording is the count of the ledger, for the ledger's first visits.
LEMMA RecordingCounts ==
  ASSUME Inv, NEW w \in Workers, RecordAccess(w)
  PROVE  Ledger!Count(worker[w].event) /\ worker[w].event \in Accesses
<1> DEFINE e == worker[w].event
           p == access[e]
<1>1. /\ e \in Accesses /\ e \notin counted /\ p \in Payload /\ p # None
      /\ LinkDay(p) \notin closed
  BY Recorded
<1>2. NewVisitor(p) <=> Ledger!FirstVisit(p)
  BY Recorded DEF NewVisitor, Ledger!FirstVisit, Inv, RowsOK
<1>3. VisitorRow(p) = p
  BY <1>1 DEF VisitorRow, Payload
<1>4. \A row \in Figures : Bump(row, NewVisitor(p)) = Ledger!Plus(row, Ledger!FirstVisit(p))
  BY <1>2 DEF Bump, Ledger!Plus, Figures
<1>5. /\ counted' = counted \cup {e}
      /\ seen' = IF NewVisitor(p) THEN seen \cup {VisitorRow(p)} ELSE seen
      /\ daily' = [daily EXCEPT ![<<p.link, p.day, p.country>>] = Bump(@, NewVisitor(p))]
      /\ monthly' = [monthly EXCEPT ![MonthKey(p)] = Bump(@, NewVisitor(p))]
      /\ UNCHANGED <<today, access, closed>>
  BY DEF RecordAccess, VisitorRow
<1>6. /\ p.link \in Links /\ p.day \in Days /\ p.country \in Countries
      /\ MonthOf[p.day] \in Months
  BY <1>1 DEF Payload, Months
<1>7. daily[<<p.link, p.day, p.country>>] \in Figures /\ monthly[MonthKey(p)] \in Figures
  BY <1>6 DEF Inv, TypeOK, MonthKey
<1>8. daily' = [daily EXCEPT ![<<p.link, p.day, p.country>>] =
                                 Ledger!Plus(@, Ledger!FirstVisit(p))]
  BY <1>4, <1>5, <1>7
<1>9. monthly' = [monthly EXCEPT ![<<p.link, MonthOf[p.day]>>] =
                                     Ledger!Plus(@, Ledger!FirstVisit(p))]
  BY <1>4, <1>5, <1>7 DEF MonthKey
<1>10. seen' = seen \cup IF Ledger!FirstVisit(p) THEN {p} ELSE {}
  BY <1>2, <1>3, <1>5
<1> QED BY <1>1, <1>5, <1>8, <1>9, <1>10 DEF Ledger!Count, LinkDay

\* Each step is one of the ledger's, or changes nothing the ledger has.
LEMMA LedgerStep ==
  ASSUME Inv, [Next]_vars
  PROVE  Ledger!Next \/ UNCHANGED Ledger!vars
<1> USE DEF delivery, tables
<1>0. TypeOK
  BY DEF Inv
<1>1. CASE NextDay
  <2>1. today' \in Days /\ today' > today
    BY <1>0, <1>1 DEF NextDay, TypeOK, Days
  <2>2. Ledger!NextDay
    BY <1>1, <2>1 DEF NextDay, Ledger!NextDay, Days
  <2> QED BY <2>2 DEF Ledger!Next
<1>2. ASSUME NEW e \in Accesses, Redirected(e) PROVE Ledger!Next
  BY <1>2 DEF Redirected, Ledger!Redirected, Ledger!Next
<1>3. ASSUME NEW w \in Workers, RecordAccess(w) PROVE Ledger!Next
  BY <1>3, RecordingCounts DEF Ledger!Next
<1>4. ASSUME NEW f \in Finalizers, CloseDay(f) PROVE Ledger!Next
  <2> DEFINE k == finalizer[f].day
  <2>1. k \in LinkDays /\ Closable(k) /\ closed' = closed \cup {k}
        /\ UNCHANGED <<today, access, daily, monthly, counted, seen>>
    BY <1>4 DEF CloseDay, Inv, FinalizersOK, RunFits
  <2> HIDE DEF k
  <2>2. k[1] \in Links /\ k[2] \in 0..MaxDay /\ k = <<k[1], k[2]>>
    BY <2>1 DEF LinkDays, Days
  <2>3. \E e \in counted : access[e].link = k[1] /\ access[e].day = k[2]
    BY <2>1 DEF Closable, LinkDay
  <2>4. Ledger!Close(k[1], k[2])
    BY <2>1, <2>2, <2>3 DEF Ledger!Close, Closable
  <2> QED BY <2>2, <2>4 DEF Ledger!Next
<1>5. CASE UNCHANGED tables /\ ~NextDay /\ ~\E e \in Accesses : Redirected(e)
  BY <1>5, ZenonT(60)
     DEF Ledger!vars, Next, Produce, Process, Finalize, Enqueue, LoseAccess, Stalled,
         Take, LockForRecord, DropLate, FindOpen, SkipDuplicate, RecordAccess,
         Acknowledge, DeliveryFails, WorkerCrash, StartRun, CloseDay, EndRun,
         LockForClose, RunFails, vars
<1> QED BY <1>1, <1>2, <1>3, <1>4, <1>5, QuietTables

\* Recording and closing implement the ledger.
THEOREM StatisticsImplementLedger == Spec => ImplementsLedger
<1>1. Init => Ledger!Init
  BY DEF Init, Ledger!Init, Ledger!Zero, Zero, Ledger!Months, Months, Days
<1>2. Inv /\ [Next]_vars => [Ledger!Next]_(Ledger!vars)
  BY LedgerStep
<1> QED BY <1>1, <1>2, StatisticsInvariant, PTL
        DEF Spec, ImplementsLedger, Ledger!Spec
=============================================================================
