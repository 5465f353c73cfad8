-------------------------- MODULE LinkTransactions --------------------------
(***************************************************************************)
(* The transactions of TypeOrmLinksRepository, statement by statement, and *)
(* the loop of LinksService.create that repeats one with a new code.       *)
(* PostgreSQL runs them at READ COMMITTED: each statement sees what is     *)
(* committed when it runs, and only the FOR UPDATE lock on the account row *)
(* keeps two transactions of one user apart.  A transaction writes in its  *)
(* last statement, so the write and the commit are one step.               *)
(***************************************************************************)
EXTENDS LinkTable

CONSTANTS Clients,          \* requests in flight over all API instances
          MaxCodeAttempts   \* LINK_CODE_GENERATION_MAX_ATTEMPTS

ASSUME AttemptsAssumption == MaxCodeAttempts \in Nat \ {0}

ASSUME ClientsAssumption == None \notin Clients

VARIABLES request,  \* request[r]: what client r asked for last
          reply,    \* reply[r]: "pending", or the outcome of that request
          lock,     \* lock[u]: the client whose transaction locks account u
          tx        \* tx[r]: the statement client r runs next, and its locals

vars == <<links, request, reply, lock, tx>>

Registry == INSTANCE LinkRegistry WITH links <- links, request <- request,
                                       reply <- reply

Outcomes == {"existing", "reactivated", "created", "exhausted", "limit_reached",
             "not_found", "forbidden", "unchanged", "changed", "failed",
             "duplicate_url"}

Steps == {"idle", "read", "lock", "find", "reread", "count", "save", "insert"}

Frame == [at: Steps, attempt: 1..MaxCodeAttempts, seen: Codes \cup {None}]

Idle == [at |-> "idle", attempt |-> 1, seen |-> None]

TypeOK ==
  /\ links \in [Codes -> Link \cup {None}]
  /\ request \in [Clients -> Registry!Request]
  /\ reply \in [Clients -> Outcomes \cup {"idle", "pending"}]
  /\ lock \in [Users -> Clients \cup {None}]
  /\ tx \in [Clients -> Frame]

Init ==
  /\ links = [c \in Codes |-> None]
  /\ request \in [Clients -> Registry!Request]
  /\ reply = [r \in Clients |-> "idle"]
  /\ lock = [u \in Users |-> None]
  /\ tx = [r \in Clients |-> Idle]

At(r, step) == tx[r].at = step

Goto(r, step) == tx' = [tx EXCEPT ![r].at = step]

\* A rollback path that forgets the connection and its row lock.
KeepLock(r) == UNCHANGED lock

\* COMMIT and ROLLBACK both give the account row back.
Release(r) ==
  lock' = [u \in Users |-> IF lock[u] = r THEN None ELSE lock[u]]

\* The transaction ends and its outcome is the answer to the request.
Finish(r, outcome) ==
  /\ reply' = [reply EXCEPT ![r] = outcome]
  /\ tx' = [tx EXCEPT ![r] = Idle]
  /\ Release(r)
  /\ UNCHANGED request

Begin(r) ==
  /\ At(r, "idle")
  /\ \E q \in Registry!Request :
       /\ request' = [request EXCEPT ![r] = q]
       /\ Goto(r, IF q.op = "create" THEN "lock" ELSE "read")
  /\ reply' = [reply EXCEPT ![r] = "pending"]
  /\ UNCHANGED <<links, lock>>

\* changeStatus looks the link up before it knows which account to lock.
ReadLink(r) ==
  LET c == request[r].code
  IN  /\ At(r, "read")
      /\ \/ ~Exists(c) /\ Finish(r, "not_found")
         \/ /\ Exists(c) /\ links[c].owner # request[r].user
            /\ Finish(r, "forbidden")
         \/ /\ c \in Owned(request[r].user)
            /\ Goto(r, "lock")
            /\ UNCHANGED <<request, reply, lock>>
      /\ UNCHANGED links

\* A plain SELECT of the account where the code takes FOR UPDATE.
NoRowLock(u) == TRUE

RowFree(u) == lock[u] = None

LockAccount(r) ==
  /\ At(r, "lock")
  /\ RowFree(request[r].user)
  /\ lock' = [lock EXCEPT ![request[r].user] = r]
  /\ Goto(r, IF request[r].op = "create" THEN "find" ELSE "reread")
  /\ UNCHANGED <<links, request, reply>>

FindExisting(r) ==
  LET same == LinksTo(request[r].user, request[r].url)
  IN  /\ At(r, "find")
      /\ \/ (\E c \in same : IsActive(c)) /\ Finish(r, "existing")
         \/ /\ \A c \in same : ~IsActive(c)
            /\ \E c \in IF same = {} THEN {None} ELSE same :
                 tx' = [tx EXCEPT ![r].at = "count", ![r].seen = c]
            /\ UNCHANGED <<request, reply, lock>>
      /\ UNCHANGED links

\* The second read, under the lock.  Rows are never deleted, so it finds one.
Reread(r) ==
  LET c == request[r].code
      want == request[r].want
  IN  /\ At(r, "reread")
      /\ \/ links[c].status = want /\ Finish(r, "unchanged")
         \/ /\ links[c].status # want
            /\ tx' = [tx EXCEPT ![r].at = IF want = "ACTIVE" THEN "count" ELSE "save",
                                ![r].seen = c]
            /\ UNCHANGED <<request, reply, lock>>
      /\ UNCHANGED links

CountActive(r) ==
  /\ At(r, "count")
  /\ \/ ~Room(request[r].user) /\ Finish(r, "limit_reached")
     \/ /\ Room(request[r].user)
        /\ Goto(r, IF tx[r].seen = None THEN "insert" ELSE "save")
        /\ UNCHANGED <<request, reply, lock>>
  /\ UNCHANGED links

Save(r) ==
  /\ At(r, "save")
  /\ IF request[r].op = "create"
       THEN SetStatus(tx[r].seen, "ACTIVE") /\ Finish(r, "reactivated")
       ELSE SetStatus(tx[r].seen, request[r].want) /\ Finish(r, "changed")

\* An INSERT that overwrites (an upsert on the code) instead of colliding.
NoCollision(c) == FALSE

Collides(c) == Exists(c)

\* INSERT under a generated code.  The index on (userId, destinationUrl) would
\* reject a second row of the user's URL with an error the code does not handle.
Insert(r) ==
  LET u == request[r].user
      d == request[r].url
  IN  /\ At(r, "insert")
      /\ \E c \in Codes :
           /\ ~Collides(c)
           /\ IF LinksTo(u, d) = {}
                THEN AddLink(c, u, d) /\ Finish(r, "created")
                ELSE UNCHANGED links /\ Finish(r, "duplicate_url")

\* A loop that counts attempts from zero.
OneAttemptMore(r) == tx[r].attempt <= MaxCodeAttempts

AttemptsLeft(r) == tx[r].attempt < MaxCodeAttempts

\* A unique violation on the code ends the transaction; the service tries again
\* with a fresh code and a fresh transaction, or gives up.
Collide(r) ==
  /\ At(r, "insert")
  /\ \E c \in Codes : Collides(c)
  /\ IF AttemptsLeft(r)
       THEN /\ tx' = [tx EXCEPT ![r] = [at |-> "lock", seen |-> None,
                                        attempt |-> tx[r].attempt + 1]]
            /\ Release(r)
            /\ UNCHANGED <<request, reply>>
       ELSE Finish(r, "exhausted")
  /\ UNCHANGED links

\* A statement or the connection fails, or the API process dies: PostgreSQL
\* rolls the transaction back.
Abort(r) ==
  /\ ~At(r, "idle")
  /\ Finish(r, "failed")
  /\ UNCHANGED links

\* What client r does by itself while it holds the lock or reads.
Run(r) ==
  \/ ReadLink(r) \/ FindExisting(r) \/ Reread(r) \/ CountActive(r)
  \/ Save(r) \/ Insert(r) \/ Collide(r)

Next == \E r \in Clients : Begin(r) \/ LockAccount(r) \/ Run(r) \/ Abort(r)

\* PostgreSQL executes the statements it is sent and queues the waiters of a
\* row lock, so a waiter is not passed over for ever.
Fairness == \A r \in Clients : WF_vars(Run(r)) /\ SF_vars(LockAccount(r))

Spec == Init /\ [][Next]_vars

FairSpec == Spec /\ Fairness

-----------------------------------------------------------------------------
\* No user ever has more than MaxActive active links, whatever creations and
\* reactivations of that user interleave: count and write are one critical
\* section under lockAccount.
ActiveLimit ==
  \A u \in Users : Cardinality(ActiveLinks(u)) <= MaxActive

\* The index on (userId, destinationUrl) never has to reject an INSERT: the code
\* maps only a violation on the short code to a retry, so the other would reach
\* the client as an internal error.
NoDuplicateInsert == \A r \in Clients : reply[r] # "duplicate_url"

InTransaction(r) == tx[r].at \in {"find", "reread", "count", "save", "insert"}

\* Which request stands at which statement, and whose link a status request is
\* about once it has been read.
StepFits(r) ==
  LET q == request[r]
  IN  /\ At(r, "idle") <=> reply[r] # "pending"
      /\ tx[r].at \in {"find", "insert"} => q.op = "create"
      /\ tx[r].at \in {"read", "reread"} => q.op = "status"
      /\ tx[r].at \in {"lock", "reread", "count", "save"} /\ q.op = "status" =>
           q.code \in Owned(q.user)

\* The row found by the transaction, or its absence, is still what it was.
SeenHolds(r) ==
  LET q == request[r]
      seen == tx[r].seen
  IN  /\ At(r, "insert") => seen = None
      /\ At(r, "save") => seen # None
      /\ At(r, "count") /\ q.op = "status" => q.want = "ACTIVE"
      /\ tx[r].at \in {"count", "save"} /\ q.op = "status" =>
           seen = q.code /\ links[seen].status # q.want
      /\ tx[r].at \in {"count", "save", "insert"} /\ q.op = "create" =>
           /\ IF seen = None THEN LinksTo(q.user, q.url) = {}
                             ELSE seen \in LinksTo(q.user, q.url)
           /\ \A c \in LinksTo(q.user, q.url) : ~IsActive(c)

\* The count compared with the limit has not been used up by somebody else.
RoomHolds(r) ==
  LET q == request[r]
  IN  At(r, "insert") \/ (At(r, "save") /\ (q.op = "create" \/ q.want = "ACTIVE"))
        => Room(q.user)

\* What a transaction has read under lockAccount is still true when it writes:
\* no other transaction of the account is between its lock and its commit, and
\* transactions of other accounts touch none of these rows.
LockedReadsStayTrue ==
  \A r \in Clients :
    /\ InTransaction(r) => lock[request[r].user] = r
    /\ StepFits(r) /\ SeenHolds(r) /\ RoomHolds(r)

\* A short code, once given out, keeps its owner and its destination for ever:
\* neither a collision nor a reactivation hands it to another link.
LinkIdentityKept ==
  [][\A c \in Codes : Exists(c) =>
       /\ links'[c] # None
       /\ links'[c].owner = links[c].owner
       /\ links'[c].url = links[c].url]_links

\* createOrRestore and changeStatus, interleaved statement by statement, behave
\* as the atomic operations of LinkRegistry.
ImplementsRegistry == Registry!Spec

\* Every request is answered: no waiter of the account lock is left behind by a
\* transaction that ended in any way.
EveryRequestAnswered ==
  \A r \in Clients : (reply[r] = "pending") ~> (reply[r] # "pending")
=============================================================================
