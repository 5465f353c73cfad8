----------------------- MODULE LinkTransactionsProofs -----------------------
(***************************************************************************)
(* For any users, URLs, codes and clients, any limit and any number of     *)
(* attempts: the transactions keep the limit of active links, never insert *)
(* a user's URL twice, never give a code away again, and implement the     *)
(* atomic operations of LinkRegistry.                                      *)
(***************************************************************************)
EXTENDS LinkTransactions, FiniteSetTheorems, TLAPS

USE LinkTableAssumption, AttemptsAssumption, ClientsAssumption

-----------------------------------------------------------------------------
(* Type correctness *)

\* The initial state is well typed.
LEMMA InitTypeOK == Init => TypeOK
BY DEF Init, TypeOK, Frame, Idle, Steps

\* A frame is well typed when its fields are.
LEMMA FrameType ==
  ASSUME TypeOK, NEW r \in Clients
  PROVE  /\ tx[r].at \in Steps /\ tx[r].seen \in Codes \cup {None}
         /\ tx[r].attempt \in 1..MaxCodeAttempts
         /\ \A step \in Steps : Goto(r, step) => tx' \in [Clients -> Frame]
         /\ \A step \in Steps, c \in Codes \cup {None} :
              tx' = [tx EXCEPT ![r].at = step, ![r].seen = c]
                => tx' \in [Clients -> Frame]
BY SMTT(40) DEF TypeOK, Frame, Goto

\* A request names a user, a create request a URL and a status request a code.
LEMMA RequestType ==
  ASSUME TypeOK, NEW r \in Clients
  PROVE  /\ request[r].user \in Users
         /\ request[r].op \in {"create", "status"}
         /\ request[r].op = "create" => request[r].url \in Urls
         /\ request[r].op = "status" =>
              request[r].code \in Codes /\ request[r].want \in Status
BY DEF TypeOK, Registry!Request, Registry!CreateRequest, Registry!StatusRequest,
       Registry!Status, Status

\* Ending a transaction keeps the types of everything but the links.
LEMMA FinishType ==
  ASSUME TypeOK, NEW r \in Clients, NEW o \in Outcomes, Finish(r, o)
  PROVE  /\ request' \in [Clients -> Registry!Request]
         /\ reply' \in [Clients -> Outcomes \cup {"idle", "pending"}]
         /\ lock' \in [Users -> Clients \cup {None}]
         /\ tx' \in [Clients -> Frame]
<1>1. Idle \in Frame
  BY DEF Idle, Frame, Steps
<1> QED
  BY <1>1 DEF TypeOK, Finish, Release

\* Both ways of writing a row keep the type of the table.
LEMMA LinksType ==
  ASSUME TypeOK, NEW c \in Codes
  PROVE  /\ \A u \in Users, d \in Urls :
              AddLink(c, u, d) => links' \in [Codes -> Link \cup {None}]
         /\ \A s \in Status : Exists(c) /\ SetStatus(c, s)
              => links' \in [Codes -> Link \cup {None}]
BY DEF TypeOK, AddLink, SetStatus, Exists, Link, Status

\* The row a transaction is about to save is a row of its user.
LEMMA SavedRow ==
  ASSUME TypeOK, LockedReadsStayTrue, NEW r \in Clients, At(r, "save")
  PROVE  /\ tx[r].seen \in Owned(request[r].user)
         /\ tx[r].seen \in Codes /\ Exists(tx[r].seen)
         /\ request[r].op = "create" =>
              /\ tx[r].seen \in LinksTo(request[r].user, request[r].url)
              /\ ~IsActive(tx[r].seen)
         /\ request[r].op = "status" =>
              tx[r].seen = request[r].code /\ links[tx[r].seen].status # request[r].want
<1>1. tx[r].seen # None /\ StepFits(r) /\ SeenHolds(r)
  BY DEF LockedReadsStayTrue, SeenHolds
<1>2. CASE request[r].op = "create"
  BY <1>1, <1>2 DEF SeenHolds, At, LinksTo, Owned
<1>3. CASE request[r].op = "status"
  BY <1>1, <1>3 DEF SeenHolds, StepFits, At, Owned
<1> QED BY <1>2, <1>3, RequestType

\* Every statement, lock and answer of the repository keeps the types.
LEMMA NextTypeOK == TypeOK /\ LockedReadsStayTrue /\ [Next]_vars => TypeOK'
<1> SUFFICES ASSUME TypeOK, LockedReadsStayTrue, [Next]_vars PROVE TypeOK'
  OBVIOUS
<1>1. ASSUME NEW r \in Clients, Begin(r) PROVE TypeOK'
  <2>1. PICK q \in Registry!Request :
          /\ request' = [request EXCEPT ![r] = q]
          /\ Goto(r, IF q.op = "create" THEN "lock" ELSE "read")
    BY <1>1 DEF Begin
  <2> QED BY <1>1, <2>1, FrameType DEF Begin, TypeOK, Steps
<1>2. ASSUME NEW r \in Clients, LockAccount(r) PROVE TypeOK'
  BY <1>2, FrameType, RequestType DEF LockAccount, TypeOK, Steps
<1>3. ASSUME NEW r \in Clients, ReadLink(r) PROVE TypeOK'
  BY <1>3, FrameType, FinishType DEF ReadLink, TypeOK, Steps, Outcomes
<1>4. ASSUME NEW r \in Clients, FindExisting(r) PROVE TypeOK'
  BY <1>4, FrameType, FinishType
     DEF FindExisting, LinksTo, Owned, TypeOK, Steps, Outcomes
<1>5. ASSUME NEW r \in Clients, Reread(r) PROVE TypeOK'
  <2>1. request[r].op = "status"
    BY <1>5 DEF LockedReadsStayTrue, StepFits, Reread, At
  <2> QED
    BY <1>5, <2>1, FrameType, FinishType, RequestType, ZenonT(60)
       DEF Reread, TypeOK, Steps, Outcomes
<1>6. ASSUME NEW r \in Clients, CountActive(r) PROVE TypeOK'
  BY <1>6, FrameType, FinishType DEF CountActive, TypeOK, Steps, Outcomes
<1>7. ASSUME NEW r \in Clients, Save(r) PROVE TypeOK'
  <2>1. tx[r].seen \in Codes /\ Exists(tx[r].seen)
    BY <1>7, SavedRow DEF Save
  <2>2. \E s \in Status, o \in Outcomes :
          SetStatus(tx[r].seen, s) /\ Finish(r, o)
    <3>1. CASE request[r].op = "create"
      <4>1. "ACTIVE" \in Status /\ "reactivated" \in Outcomes
        BY DEF Status, Outcomes
      <4> QED BY <1>7, <3>1, <4>1 DEF Save
    <3>2. CASE request[r].op = "status"
      <4>1. request[r].want \in Status /\ "changed" \in Outcomes
        BY <3>2, RequestType DEF Outcomes
      <4> QED BY <1>7, <3>2, <4>1 DEF Save
    <3> QED BY <3>1, <3>2, RequestType
  <2> QED BY <2>1, <2>2, FinishType, LinksType DEF TypeOK
<1>8. ASSUME NEW r \in Clients, Insert(r) PROVE TypeOK'
  <2>1. request[r].op = "create"
    BY <1>8 DEF LockedReadsStayTrue, StepFits, Insert, At
  <2>2. request[r].user \in Users /\ request[r].url \in Urls
    BY <2>1, RequestType
  <2>3. CASE LinksTo(request[r].user, request[r].url) = {}
    <3>1. PICK c \in Codes : AddLink(c, request[r].user, request[r].url)
      BY <1>8, <2>3 DEF Insert
    <3>2. links' \in [Codes -> Link \cup {None}]
      BY <2>2, <3>1, LinksType
    <3>3. Finish(r, "created") /\ "created" \in Outcomes
      BY <1>8, <2>3 DEF Insert, Outcomes
    <3> QED BY <3>2, <3>3, FinishType DEF TypeOK
  <2>4. CASE LinksTo(request[r].user, request[r].url) # {}
    BY <1>8, <2>4, FinishType DEF Insert, TypeOK, Outcomes
  <2> QED BY <2>3, <2>4
<1>9. ASSUME NEW r \in Clients, Collide(r) PROVE TypeOK'
  <2>1. CASE AttemptsLeft(r)
    <3>1. [at |-> "lock", seen |-> None, attempt |-> tx[r].attempt + 1] \in Frame
      <4>1. tx[r].attempt \in 1..MaxCodeAttempts
        BY FrameType
      <4>2. tx[r].attempt + 1 \in 1..MaxCodeAttempts
        BY <2>1, <4>1 DEF AttemptsLeft
      <4> QED BY <4>2 DEF Frame, Steps
    <3> QED BY <1>9, <2>1, <3>1 DEF Collide, Release, TypeOK
  <2>2. CASE ~AttemptsLeft(r)
    BY <1>9, <2>2, FinishType DEF Collide, TypeOK, Outcomes
  <2> QED BY <2>1, <2>2
<1>10. ASSUME NEW r \in Clients, Abort(r) PROVE TypeOK'
  BY <1>10, FinishType DEF Abort, TypeOK, Outcomes
<1>11. CASE UNCHANGED vars
  BY <1>11 DEF TypeOK, vars
<1> QED
  BY <1>1, <1>2, <1>3, <1>4, <1>5, <1>6, <1>7, <1>8, <1>9, <1>10, <1>11
     DEF Next, Run

-----------------------------------------------------------------------------
(* What a write changes: rows of its user only *)

\* The active links of a user are finitely many, so counting them makes sense.
LEMMA ActiveFinite ==
  ASSUME NEW u
  PROVE  IsFiniteSet(ActiveLinks(u)) /\ Cardinality(ActiveLinks(u)) \in Nat
<1>1. ActiveLinks(u) \in SUBSET Codes
  BY DEF ActiveLinks, Owned
<1> QED BY <1>1, FS_Subset, FS_CardinalityType

\* An INSERT adds one active link to its user and touches nobody else's.
LEMMA AddLinkEffect ==
  ASSUME TypeOK, NEW u \in Users, NEW d \in Urls, NEW c \in Codes,
         ~Exists(c), AddLink(c, u, d)
  PROVE  /\ \A v \in Users \ {u} : Owned(v)' = Owned(v)
         /\ \A v \in Users \ {u} : ActiveLinks(v)' = ActiveLinks(v)
         /\ \A v \in Users \ {u} : \A e : LinksTo(v, e)' = LinksTo(v, e)
         /\ Owned(u)' = Owned(u) \cup {c}
         /\ ActiveLinks(u)' = ActiveLinks(u) \cup {c}
         /\ c \notin ActiveLinks(u)
         /\ \A x \in Codes \ {c} : links'[x] = links[x]
<1> DEFINE row == [owner |-> u, url |-> d, status |-> "ACTIVE"]
<1>1. links' = [links EXCEPT ![c] = row] /\ row \in Link /\ links[c] = None
  BY DEF AddLink, Link, Status, Exists
<1>2. row # None /\ row.owner = u /\ row.url = d /\ row.status = "ACTIVE"
  BY DEF LinkTableAssumption
<1> HIDE DEF row
<1>3. links'[c] = row /\ \A x \in Codes \ {c} : links'[x] = links[x]
  BY <1>1 DEF TypeOK
<1> QED
  BY <1>1, <1>2, <1>3 DEF Owned, ActiveLinks, LinksTo, Exists, IsActive

\* An UPDATE of the status moves one link of its user in or out of the active
\* ones; owner and destination stay.
LEMMA SetStatusEffect ==
  ASSUME TypeOK, NEW u \in Users, NEW c \in Codes, c \in Owned(u),
         NEW s \in Status, SetStatus(c, s)
  PROVE  /\ \A v \in Users : Owned(v)' = Owned(v)
         /\ \A v \in Users : \A e : LinksTo(v, e)' = LinksTo(v, e)
         /\ \A v \in Users \ {u} : ActiveLinks(v)' = ActiveLinks(v)
         /\ ActiveLinks(u)' = IF s = "ACTIVE" THEN ActiveLinks(u) \cup {c}
                                             ELSE ActiveLinks(u) \ {c}
         /\ \A x \in Codes \ {c} : links'[x] = links[x]
         /\ links'[c] # None /\ links'[c].status = s
         /\ links'[c].owner = links[c].owner /\ links'[c].url = links[c].url
<1>1. c \in Codes /\ links[c] \in Link /\ links[c].owner = u
  BY DEF TypeOK, Owned, Exists
<1>2. links' = [links EXCEPT ![c] = [links[c] EXCEPT !.status = s]]
  BY DEF SetStatus
<1>3. \A x \in Codes \ {c} : links'[x] = links[x]
  BY <1>1, <1>2 DEF TypeOK
<1>4. /\ links'[c] \in Link /\ links'[c].status = s
      /\ links'[c].owner = u /\ links'[c].url = links[c].url
  BY <1>1, <1>2 DEF TypeOK, Link
<1>5. links'[c] # None /\ links[c] # None
  BY <1>1, <1>4 DEF Link, Status
<1> QED
  BY <1>1, <1>3, <1>4, <1>5
     DEF Owned, ActiveLinks, LinksTo, Exists, IsActive, Status

-----------------------------------------------------------------------------
(* The inductive invariant *)

Consistent(r) ==
  /\ InTransaction(r) => lock[request[r].user] = r
  /\ StepFits(r) /\ SeenHolds(r) /\ RoomHolds(r)

Inv == TypeOK /\ LockedReadsStayTrue /\ ActiveLimit /\ NoDuplicateInsert

\* A client that has its answer makes no claim about the table.
LEMMA FinishedConsistent ==
  ASSUME TypeOK, NEW r \in Clients, NEW o \in Outcomes, Finish(r, o)
  PROVE  Consistent(r)' /\ reply'[r] = o
<1>1. tx'[r].at = "idle" /\ reply'[r] = o /\ o # "pending"
  BY DEF Finish, TypeOK, Idle, Outcomes
<1> QED
  BY <1>1 DEF Consistent, InTransaction, StepFits, SeenHolds, RoomHolds, At

\* A client that does nothing stays consistent when its locals and its lock stay
\* and, inside a transaction, the rows of its user stay.
LEMMA OtherConsistent ==
  ASSUME TypeOK, NEW q \in Clients, Consistent(q),
         tx'[q] = tx[q], request'[q] = request[q], reply'[q] = reply[q],
         Owned(request[q].user) \subseteq Owned(request[q].user)',
         InTransaction(q) =>
           /\ lock'[request[q].user] = q
           /\ ActiveLinks(request[q].user)' = ActiveLinks(request[q].user)
           /\ \A e : LinksTo(request[q].user, e)' = LinksTo(request[q].user, e)
           /\ \A c \in Owned(request[q].user) : links'[c] = links[c]
  PROVE  Consistent(q)'
<1> DEFINE u == request[q].user
<1>1. StepFits(q)' /\ (InTransaction(q) => lock[u] = q)'
  BY DEF Consistent, StepFits, InTransaction, At
<1>2. CASE ~InTransaction(q)
  BY <1>1, <1>2 DEF Consistent, SeenHolds, RoomHolds, InTransaction, At
<1>3. CASE InTransaction(q)
  <2>1. RoomHolds(q)'
    BY <1>3 DEF Consistent, RoomHolds, Room, At
  <2>2. \A c \in Owned(u) : IsActive(c)' = IsActive(c)
    BY <1>3 DEF IsActive, Exists
  <2>3. request[q].op = "create" => SeenHolds(q)'
    BY <1>3, <2>2 DEF Consistent, SeenHolds, LinksTo, At
  <2>4. request[q].op = "status" => SeenHolds(q)'
    BY <1>3 DEF Consistent, SeenHolds, StepFits, At
  <2> QED BY <1>1, <2>1, <2>3, <2>4, RequestType DEF Consistent
<1> QED BY <1>2, <1>3

\* A step of client r that leaves the table and every other client's locals
\* alone, and takes no lock from another client, keeps the others consistent.
LEMMA QuietStep ==
  ASSUME TypeOK, LockedReadsStayTrue, NEW r \in Clients, UNCHANGED links,
         \A q \in Clients \ {r} :
           tx'[q] = tx[q] /\ request'[q] = request[q] /\ reply'[q] = reply[q],
         \A u \in Users : lock[u] \in Clients \ {r} => lock'[u] = lock[u]
  PROVE  \A q \in Clients \ {r} : Consistent(q)'
<1> SUFFICES ASSUME NEW q \in Clients \ {r} PROVE Consistent(q)'
  OBVIOUS
<1>1. Consistent(q)
  BY DEF LockedReadsStayTrue, Consistent
<1>2. /\ Owned(request[q].user)' = Owned(request[q].user)
      /\ ActiveLinks(request[q].user)' = ActiveLinks(request[q].user)
      /\ \A e : LinksTo(request[q].user, e)' = LinksTo(request[q].user, e)
  <2>1. request'[q] = request[q]
    OBVIOUS
  <2> QED BY <2>1 DEF Owned, ActiveLinks, LinksTo, IsActive, Exists
<1>3. InTransaction(q) => lock'[request[q].user] = q
  BY <1>1, RequestType DEF Consistent
<1> QED BY <1>1, <1>2, <1>3, OtherConsistent

\* The end of a transaction is quiet when it wrote nothing.
LEMMA QuietFinish ==
  ASSUME TypeOK, LockedReadsStayTrue, NEW r \in Clients, NEW o \in Outcomes,
         Finish(r, o), UNCHANGED links
  PROVE  \A q \in Clients : Consistent(q)'
<1>1. \A q \in Clients \ {r} : Consistent(q)'
  BY QuietStep DEF Finish, Release, TypeOK
<1> QED BY <1>1, FinishedConsistent

\* The end of a transaction that wrote a row of its user.
LEMMA WriteFinish ==
  ASSUME TypeOK, LockedReadsStayTrue, NEW r \in Clients, NEW o \in Outcomes,
         Finish(r, o), InTransaction(r), NEW c \in Codes,
         \A x \in Codes \ {c} : links'[x] = links[x],
         c \in Owned(request[r].user) \/ ~Exists(c),
         \A v \in Users : Owned(v) \subseteq Owned(v)',
         \A v \in Users \ {request[r].user} :
           /\ ActiveLinks(v)' = ActiveLinks(v)
           /\ \A e : LinksTo(v, e)' = LinksTo(v, e)
  PROVE  \A q \in Clients : Consistent(q)'
<1> SUFFICES ASSUME NEW q \in Clients \ {r} PROVE Consistent(q)'
  BY FinishedConsistent
<1>1. Consistent(q) /\ Consistent(r)
  BY DEF LockedReadsStayTrue, Consistent
<1>2. tx'[q] = tx[q] /\ request'[q] = request[q] /\ reply'[q] = reply[q]
  BY DEF Finish, TypeOK
<1>3. request[q].user \in Users
  BY RequestType
<1>4. ASSUME InTransaction(q)
      PROVE  /\ lock'[request[q].user] = q
             /\ request[q].user # request[r].user
             /\ \A x \in Owned(request[q].user) : links'[x] = links[x]
  <2>1. lock[request[q].user] = q /\ lock[request[r].user] = r
    BY <1>1, <1>4 DEF Consistent
  <2>2. lock'[request[q].user] = q
    BY <1>3, <2>1 DEF Finish, Release, TypeOK
  <2>3. c \notin Owned(request[q].user)
    BY <2>1 DEF Owned
  <2> QED BY <2>1, <2>2, <2>3 DEF Owned
<1> QED BY <1>1, <1>2, <1>3, <1>4, OtherConsistent

\* One row more or less changes the count by at most one.
LEMMA CountAfterWrite ==
  ASSUME NEW u \in Users, NEW c \in Codes
  PROVE  /\ Cardinality(ActiveLinks(u)) \in Nat
         /\ Cardinality(ActiveLinks(u) \cup {c}) \in Nat
         /\ Cardinality(ActiveLinks(u) \ {c}) \in Nat
         /\ Cardinality(ActiveLinks(u) \cup {c}) <= Cardinality(ActiveLinks(u)) + 1
         /\ Cardinality(ActiveLinks(u) \ {c}) <= Cardinality(ActiveLinks(u))
<1> DEFINE A == ActiveLinks(u)
<1>1. IsFiniteSet(A) /\ Cardinality(A) \in Nat
  BY ActiveFinite
<1> HIDE DEF A
<1>2. /\ Cardinality(A \cup {c}) = IF c \in A THEN Cardinality(A) ELSE Cardinality(A) + 1
      /\ Cardinality(A \cup {c}) \in Nat
  BY <1>1, FS_AddElement, FS_CardinalityType
<1>3. /\ Cardinality(A \ {c}) = IF c \in A THEN Cardinality(A) - 1 ELSE Cardinality(A)
      /\ Cardinality(A \ {c}) \in Nat
  BY <1>1, FS_RemoveElement, FS_CardinalityType
<1>4. /\ Cardinality(A) \in Nat
      /\ Cardinality(A \cup {c}) \in Nat /\ Cardinality(A \ {c}) \in Nat
      /\ Cardinality(A \cup {c}) <= Cardinality(A) + 1
      /\ Cardinality(A \ {c}) <= Cardinality(A)
  BY <1>1, <1>2, <1>3
<1> QED BY <1>4 DEF A

\* Save writes the row its transaction found, within the limit it counted.
LEMMA SaveStep ==
  ASSUME Inv, NEW r \in Clients, Save(r)
  PROVE  LockedReadsStayTrue' /\ ActiveLimit'
<1>1. TypeOK /\ LockedReadsStayTrue /\ At(r, "save")
  BY DEF Inv, Save
<1>2. PICK u \in Users, c \in Codes :
        u = request[r].user /\ c = tx[r].seen /\ c \in Owned(u)
  BY <1>1, SavedRow, RequestType
<1>3. PICK s \in Status, o \in Outcomes :
        /\ SetStatus(c, s) /\ Finish(r, o)
        /\ s = "ACTIVE" => Room(u)
  <2>1. Consistent(r)
    BY <1>1 DEF LockedReadsStayTrue, Consistent
  <2>2. CASE request[r].op = "create"
    <3>1. "ACTIVE" \in Status /\ "reactivated" \in Outcomes
      BY DEF Status, Outcomes
    <3> QED BY <1>1, <1>2, <2>1, <2>2, <3>1 DEF Save, Consistent, RoomHolds
  <2>3. CASE request[r].op = "status"
    <3>1. request[r].want \in Status /\ "changed" \in Outcomes
      BY <1>1, <2>3, RequestType DEF Outcomes
    <3> QED BY <1>1, <1>2, <2>1, <2>3, <3>1 DEF Save, Consistent, RoomHolds
  <2> QED BY <1>1, <2>2, <2>3, RequestType
<1>4. /\ \A v \in Users : Owned(v)' = Owned(v)
      /\ \A v \in Users : \A e : LinksTo(v, e)' = LinksTo(v, e)
      /\ \A v \in Users \ {u} : ActiveLinks(v)' = ActiveLinks(v)
      /\ ActiveLinks(u)' = IF s = "ACTIVE" THEN ActiveLinks(u) \cup {c}
                                          ELSE ActiveLinks(u) \ {c}
      /\ \A x \in Codes \ {c} : links'[x] = links[x]
  <2>1. TypeOK /\ c \in Owned(u) /\ SetStatus(c, s)
    BY <1>1, <1>2, <1>3
  <2> QED BY <2>1, SetStatusEffect
<1>5. LockedReadsStayTrue'
  <2>1. \A q \in Clients : Consistent(q)'
    BY <1>1, <1>2, <1>3, <1>4, WriteFinish DEF InTransaction, At
  <2> QED BY <2>1 DEF LockedReadsStayTrue, Consistent
<1>6. Cardinality(ActiveLinks(u)') <= MaxActive
  <2>1. CASE s = "ACTIVE"
    <3>1. Cardinality(ActiveLinks(u)) < MaxActive
      BY <1>3, <2>1 DEF Room
    <3>2. ActiveLinks(u)' = ActiveLinks(u) \cup {c}
      BY <1>4, <2>1
    <3>3. /\ Cardinality(ActiveLinks(u)) \in Nat
          /\ Cardinality(ActiveLinks(u) \cup {c}) \in Nat
          /\ Cardinality(ActiveLinks(u) \cup {c}) <= Cardinality(ActiveLinks(u)) + 1
      BY CountAfterWrite
    <3> QED BY <3>1, <3>2, <3>3
  <2>2. CASE s # "ACTIVE"
    <3>1. Cardinality(ActiveLinks(u)) <= MaxActive
      BY <1>1 DEF Inv, ActiveLimit
    <3>2. ActiveLinks(u)' = ActiveLinks(u) \ {c}
      BY <1>4, <2>2
    <3> QED BY <3>1, <3>2, CountAfterWrite
  <2> QED BY <2>1, <2>2
<1> QED BY <1>4, <1>5, <1>6 DEF ActiveLimit, Inv

\* Insert never meets a row of the same user and URL, and stays within the limit.
LEMMA InsertStep ==
  ASSUME Inv, NEW r \in Clients, Insert(r)
  PROVE  /\ LockedReadsStayTrue' /\ ActiveLimit'
         /\ Finish(r, "created")
         /\ LinksTo(request[r].user, request[r].url) = {}
         /\ \E c \in Codes : ~Exists(c) /\ AddLink(c, request[r].user, request[r].url)
<1>1. TypeOK /\ LockedReadsStayTrue /\ At(r, "insert") /\ Consistent(r)
  BY DEF Inv, Insert, LockedReadsStayTrue, Consistent
<1>2. PICK u \in Users, d \in Urls : u = request[r].user /\ d = request[r].url
  BY <1>1, RequestType DEF Consistent, StepFits, At
<1>3. LinksTo(u, d) = {} /\ Room(u)
  BY <1>1, <1>2, RequestType DEF Consistent, StepFits, SeenHolds, RoomHolds, At
<1>4. PICK c \in Codes : ~Exists(c) /\ AddLink(c, u, d) /\ Finish(r, "created")
  BY <1>2, <1>3 DEF Insert, Collides
<1>5. /\ \A v \in Users \ {u} : Owned(v)' = Owned(v)
      /\ \A v \in Users \ {u} : ActiveLinks(v)' = ActiveLinks(v)
      /\ \A v \in Users \ {u} : \A e : LinksTo(v, e)' = LinksTo(v, e)
      /\ Owned(u)' = Owned(u) \cup {c}
      /\ ActiveLinks(u)' = ActiveLinks(u) \cup {c}
      /\ c \notin ActiveLinks(u)
      /\ \A x \in Codes \ {c} : links'[x] = links[x]
  BY <1>1, <1>2, <1>4, AddLinkEffect
<1>6. LockedReadsStayTrue'
  <2>1. "created" \in Outcomes /\ InTransaction(r)
    BY <1>1 DEF Outcomes, InTransaction, At
  <2>2. \A v \in Users : Owned(v) \subseteq Owned(v)'
    BY <1>5
  <2>3. \A q \in Clients : Consistent(q)'
    BY <1>1, <1>2, <1>4, <1>5, <2>1, <2>2, WriteFinish
  <2> QED BY <2>3 DEF LockedReadsStayTrue, Consistent
<1>7. Cardinality(ActiveLinks(u)') <= MaxActive
  <2>1. Cardinality(ActiveLinks(u)) < MaxActive
    BY <1>3 DEF Room
  <2> QED BY <1>5, <2>1, CountAfterWrite
<1>8. ActiveLimit'
  BY <1>5, <1>7 DEF ActiveLimit, Inv
<1> QED BY <1>2, <1>3, <1>4, <1>6, <1>8

\* A step of client r that neither ends nor writes moves it to a new statement
\* and must justify what that statement relies on.
LEMMA LocalStep ==
  ASSUME TypeOK, LockedReadsStayTrue, NEW r \in Clients, UNCHANGED links,
         \A q \in Clients \ {r} :
           tx'[q] = tx[q] /\ request'[q] = request[q] /\ reply'[q] = reply[q],
         \A u \in Users : lock[u] \in Clients \ {r} => lock'[u] = lock[u],
         Consistent(r)'
  PROVE  LockedReadsStayTrue'
BY QuietStep DEF LockedReadsStayTrue, Consistent

\* The statements up to the write: each takes over what the one before it read.
LEMMA ReadSteps ==
  ASSUME TypeOK, LockedReadsStayTrue, NEW r \in Clients,
         \/ Begin(r) \/ ReadLink(r) \/ LockAccount(r) \/ FindExisting(r)
         \/ Reread(r) \/ CountActive(r) \/ Collide(r) \/ Abort(r)
  PROVE  LockedReadsStayTrue' /\ UNCHANGED links
<1> USE DEF At, Goto
<1>0. Consistent(r) /\ r # None
  BY DEF LockedReadsStayTrue, Consistent
<1>1. ASSUME NEW o \in Outcomes, Finish(r, o), UNCHANGED links
      PROVE  LockedReadsStayTrue'
  BY <1>1, QuietFinish DEF LockedReadsStayTrue, Consistent
<1>2. CASE Begin(r)
  <2>1. PICK q \in Registry!Request :
          /\ request' = [request EXCEPT ![r] = q]
          /\ Goto(r, IF q.op = "create" THEN "lock" ELSE "read")
    BY <1>2 DEF Begin
  <2>2. q.op \in {"create", "status"}
    BY DEF Registry!Request, Registry!CreateRequest, Registry!StatusRequest
  <2>3. Consistent(r)'
    BY <1>2, <2>1, <2>2
       DEF Begin, TypeOK, Frame, Consistent, InTransaction, StepFits, SeenHolds, RoomHolds
  <2> QED BY <1>2, <2>1, <2>3, LocalStep DEF Begin, TypeOK
<1>3. CASE ReadLink(r)
  <2>1. CASE UNCHANGED <<request, reply, lock>> /\ Goto(r, "lock")
                /\ request[r].code \in Owned(request[r].user)
    <3>1. Consistent(r)'
      BY <1>0, <1>3, <2>1
         DEF ReadLink, TypeOK, Frame, Consistent, InTransaction, StepFits, SeenHolds,
             RoomHolds, Owned, Exists
    <3> QED BY <1>3, <2>1, <3>1, LocalStep DEF ReadLink, TypeOK
  <2>2. CASE Finish(r, "not_found") \/ Finish(r, "forbidden")
    BY <1>1, <1>3, <2>2 DEF ReadLink, Outcomes
  <2> QED BY <1>3, <2>1, <2>2 DEF ReadLink
<1>4. CASE LockAccount(r)
  <2>1. /\ tx'[r].at = IF request[r].op = "create" THEN "find" ELSE "reread"
        /\ lock'[request[r].user] = r /\ request[r].user \in Users
    BY <1>4, RequestType DEF LockAccount, TypeOK, Frame
  <2>2. Consistent(r)'
    BY <1>0, <1>4, <2>1, RequestType
       DEF LockAccount, Consistent, InTransaction, StepFits, SeenHolds, RoomHolds,
           Owned, Exists
  <2> QED BY <1>4, <2>2, LocalStep DEF LockAccount, RowFree, TypeOK
<1>5. CASE FindExisting(r)
  <2> DEFINE same == LinksTo(request[r].user, request[r].url)
  <2>1. ASSUME NEW c \in IF same = {} THEN {None} ELSE same,
               tx' = [tx EXCEPT ![r].at = "count", ![r].seen = c],
               \A x \in same : ~IsActive(x), UNCHANGED <<links, request, reply, lock>>
        PROVE  LockedReadsStayTrue'
    <3>1. tx'[r].at = "count" /\ tx'[r].seen = c
      BY <2>1 DEF TypeOK, Frame
    <3>2. c = None <=> same = {}
      BY <2>1 DEF LinksTo, Owned
    <3>3. /\ request'[r] = request[r] /\ links' = links /\ reply'[r] = reply[r]
          /\ lock'[request[r].user] = r /\ request[r].op = "create"
      BY <1>0, <1>5, <2>1 DEF FindExisting, Consistent, InTransaction, StepFits
    <3>4. SeenHolds(r)'
      BY <2>1, <3>1, <3>2, <3>3 DEF SeenHolds, LinksTo, Owned, IsActive, Exists
    <3>5. StepFits(r)' /\ RoomHolds(r)' /\ (InTransaction(r) => lock[request[r].user] = r)'
      BY <1>0, <1>5, <3>1, <3>3
         DEF FindExisting, Consistent, StepFits, RoomHolds, InTransaction
    <3>6. Consistent(r)'
      BY <3>4, <3>5 DEF Consistent
    <3> QED BY <2>1, <3>6, LocalStep DEF TypeOK
  <2>2. CASE Finish(r, "existing")
    BY <1>1, <1>5, <2>2 DEF FindExisting, Outcomes
  <2> QED BY <1>5, <2>1, <2>2 DEF FindExisting
<1>6. CASE Reread(r)
  <2>1. CASE links[request[r].code].status = request[r].want
    BY <1>1, <1>6, <2>1 DEF Reread, Outcomes
  <2>2. CASE links[request[r].code].status # request[r].want
    <3>1. /\ tx'[r].at = IF request[r].want = "ACTIVE" THEN "count" ELSE "save"
          /\ tx'[r].seen = request[r].code
          /\ UNCHANGED <<links, request, reply, lock>>
      BY <1>6, <2>2 DEF Reread, TypeOK, Frame
    <3>2. /\ request[r].op = "status" /\ request[r].code \in Owned(request[r].user)
          /\ lock[request[r].user] = r /\ reply[r] = "pending"
      BY <1>0, <1>6 DEF Reread, Consistent, InTransaction, StepFits
    <3>3. request[r].code # None /\ request[r].want \in Status
      BY <3>2, RequestType
    <3>4. Consistent(r)'
      BY <2>2, <3>1, <3>2, <3>3
         DEF Consistent, InTransaction, StepFits, SeenHolds, RoomHolds, Owned, Exists
    <3> QED BY <1>6, <2>2, <3>1, <3>4, LocalStep DEF Reread, TypeOK
  <2> QED BY <2>1, <2>2
<1>7. CASE CountActive(r)
  <2>1. CASE Room(request[r].user)
    <3>1. /\ tx'[r].at = IF tx[r].seen = None THEN "insert" ELSE "save"
          /\ tx'[r].seen = tx[r].seen
          /\ UNCHANGED <<links, request, reply, lock>>
      BY <1>7, <2>1 DEF CountActive, TypeOK, Frame
    <3>2. /\ lock[request[r].user] = r /\ reply[r] = "pending"
          /\ request[r].op = "status" =>
               /\ request[r].code \in Owned(request[r].user)
               /\ tx[r].seen = request[r].code
               /\ request[r].code # None
      BY <1>0, <1>7, RequestType
         DEF CountActive, Consistent, InTransaction, StepFits, SeenHolds
    <3>3. RoomHolds(r)'
      BY <2>1, <3>1 DEF RoomHolds, Room, ActiveLinks, Owned, IsActive, Exists
    <3>4. SeenHolds(r)'
      BY <1>0, <1>7, <3>1, <3>2, RequestType
         DEF CountActive, Consistent, SeenHolds, LinksTo, Owned, IsActive, Exists
    <3>5. StepFits(r)' /\ (InTransaction(r) => lock[request[r].user] = r)'
      BY <1>0, <1>7, <3>1, <3>2, RequestType
         DEF CountActive, Consistent, StepFits, InTransaction, Owned, Exists
    <3>6. Consistent(r)'
      BY <3>3, <3>4, <3>5 DEF Consistent
    <3> QED BY <1>7, <2>1, <3>6, LocalStep DEF CountActive, TypeOK
  <2>2. CASE ~Room(request[r].user)
    BY <1>1, <1>7, <2>2 DEF CountActive, Outcomes
  <2> QED BY <2>1, <2>2
<1>8. CASE Collide(r)
  <2>1. CASE AttemptsLeft(r)
    <3>1. /\ tx'[r].at = "lock" /\ request[r].op = "create" /\ reply[r] = "pending"
          /\ UNCHANGED <<links, request, reply>>
      BY <1>0, <1>8, <2>1 DEF Collide, TypeOK, Consistent, StepFits
    <3>2. Consistent(r)'
      BY <3>1 DEF Consistent, InTransaction, StepFits, SeenHolds, RoomHolds
    <3> QED BY <1>8, <2>1, <3>2, LocalStep DEF Collide, Release, TypeOK
  <2>2. CASE ~AttemptsLeft(r)
    BY <1>1, <1>8, <2>2 DEF Collide, Outcomes
  <2> QED BY <2>1, <2>2
<1>9. CASE Abort(r)
  BY <1>1, <1>9 DEF Abort, Outcomes
<1> QED
  BY <1>2, <1>3, <1>4, <1>5, <1>6, <1>7, <1>8, <1>9
     DEF Begin, ReadLink, LockAccount, FindExisting, Reread, CountActive, Collide, Abort

\* Every step keeps the invariant.
LEMMA InvStep == Inv /\ [Next]_vars => Inv'
<1> SUFFICES ASSUME Inv, [Next]_vars PROVE Inv'
  OBVIOUS
<1>1. TypeOK /\ LockedReadsStayTrue /\ ActiveLimit /\ NoDuplicateInsert
  BY DEF Inv
<1>2. TypeOK'
  BY <1>1, NextTypeOK
<1>3. CASE UNCHANGED vars
  <2>1. LockedReadsStayTrue'
    BY <1>1, <1>3
       DEF LockedReadsStayTrue, InTransaction, StepFits, SeenHolds, RoomHolds, Room,
           ActiveLinks, LinksTo, Owned, IsActive, Exists, At, vars
  <2>2. ActiveLimit' /\ NoDuplicateInsert'
    BY <1>1, <1>3
       DEF ActiveLimit, NoDuplicateInsert, ActiveLinks, Owned, IsActive, Exists, vars
  <2> QED BY <1>2, <2>1, <2>2 DEF Inv
<1>4. ASSUME NEW r \in Clients, UNCHANGED links,
             \/ Begin(r) \/ ReadLink(r) \/ LockAccount(r) \/ FindExisting(r)
             \/ Reread(r) \/ CountActive(r) \/ Collide(r) \/ Abort(r)
      PROVE  Inv'
  <2>1. ActiveLimit'
    BY <1>1, <1>4 DEF ActiveLimit, ActiveLinks, Owned, IsActive, Exists
  <2>2. NoDuplicateInsert'
    BY <1>1, <1>4
       DEF TypeOK, NoDuplicateInsert, Begin, ReadLink, LockAccount, FindExisting, Reread,
           CountActive, Collide, Abort, Finish
  <2> QED BY <1>1, <1>2, <1>4, <2>1, <2>2, ReadSteps DEF Inv
<1>5. ASSUME NEW r \in Clients, Save(r) PROVE Inv'
  <2>1. NoDuplicateInsert'
    BY <1>1, <1>5 DEF TypeOK, NoDuplicateInsert, Save, Finish
  <2> QED BY <1>2, <1>5, <2>1, SaveStep DEF Inv
<1>6. ASSUME NEW r \in Clients, Insert(r) PROVE Inv'
  <2>1. Finish(r, "created")
    BY <1>6, InsertStep
  <2>2. NoDuplicateInsert'
    BY <1>1, <2>1 DEF TypeOK, NoDuplicateInsert, Finish
  <2> QED BY <1>2, <1>6, <2>2, InsertStep DEF Inv
<1> QED
  BY <1>1, <1>3, <1>4, <1>5, <1>6, ReadSteps DEF Next, Run

\* The invariant holds initially: an empty table and nobody at work.
LEMMA InitInv == Init => Inv
<1> SUFFICES ASSUME Init PROVE Inv
  OBVIOUS
<1>1. TypeOK
  BY InitTypeOK
<1>2. LockedReadsStayTrue
  BY DEF Init, Idle, LockedReadsStayTrue, InTransaction, StepFits, SeenHolds,
         RoomHolds, At
<1>3. \A u \in Users : ActiveLinks(u) = {}
  BY DEF Init, ActiveLinks, Owned, Exists
<1>4. ActiveLimit
  BY <1>3, FS_EmptySet DEF ActiveLimit
<1>5. NoDuplicateInsert
  BY DEF Init, NoDuplicateInsert
<1> QED BY <1>1, <1>2, <1>4, <1>5 DEF Inv

\* The invariant holds in every reachable state.
LEMMA Invariance == Spec => []Inv
BY InitInv, InvStep, PTL DEF Spec

\* LinkTransactions never leaves its types: rows, locks, attempts and answers
\* are those the repository and the service work with.
THEOREM TransactionsTypeCorrect == Spec => []TypeOK
<1>1. Inv => TypeOK
  BY DEF Inv
<1> QED BY <1>1, Invariance, PTL

\* MAX_ACTIVE_LINKS_PER_USER holds for every user under any interleaving of
\* creations, reactivations, retries and failures.
THEOREM ActiveLimitHolds == Spec => []ActiveLimit
<1>1. Inv => ActiveLimit
  BY DEF Inv
<1> QED BY <1>1, Invariance, PTL

\* What was read under the account lock is true until the commit.
THEOREM LockedReadsHold == Spec => []LockedReadsStayTrue
<1>1. Inv => LockedReadsStayTrue
  BY DEF Inv
<1> QED BY <1>1, Invariance, PTL

\* The index on (userId, destinationUrl) never rejects an INSERT.
THEOREM NoDuplicateInsertHolds == Spec => []NoDuplicateInsert
<1>1. Inv => NoDuplicateInsert
  BY DEF Inv
<1> QED BY <1>1, Invariance, PTL

-----------------------------------------------------------------------------
(* Short codes are never given away again *)

\* A row, once there, keeps owner and destination in every step.
THEOREM LinkIdentityHolds == Spec => LinkIdentityKept
<1> DEFINE Kept == \A c \in Codes : Exists(c) =>
                     /\ links'[c] # None
                     /\ links'[c].owner = links[c].owner
                     /\ links'[c].url = links[c].url
<1>1. Inv /\ [Next]_vars => [Kept]_links
  <2> SUFFICES ASSUME Inv, Next PROVE Kept \/ UNCHANGED links
    BY DEF vars
  <2>1. PICK r \in Clients : Begin(r) \/ LockAccount(r) \/ Run(r) \/ Abort(r)
    BY DEF Next
  <2>2. TypeOK /\ LockedReadsStayTrue
    BY DEF Inv
  <2>3. CASE Save(r)
    <3>1. PICK u \in Users, c \in Codes :
            u = request[r].user /\ c = tx[r].seen /\ c \in Owned(u)
      BY <2>2, <2>3, SavedRow, RequestType DEF Save
    <3>2. PICK s \in Status : SetStatus(c, s)
      BY <2>2, <2>3, <3>1, RequestType DEF Save, Status
    <3>3. /\ \A x \in Codes \ {c} : links'[x] = links[x]
          /\ links'[c] # None
          /\ links'[c].owner = links[c].owner /\ links'[c].url = links[c].url
      BY <2>2, <3>1, <3>2, SetStatusEffect
    <3> QED BY <3>3 DEF Exists
  <2>4. CASE Insert(r)
    <3>1. PICK c \in Codes : ~Exists(c) /\ AddLink(c, request[r].user, request[r].url)
      BY <2>4, InsertStep
    <3>2. \A x \in Codes : Exists(x) => links'[x] = links[x]
      BY <2>2, <3>1 DEF AddLink, TypeOK
    <3> QED BY <3>2 DEF Exists
  <2>5. CASE ~Save(r) /\ ~Insert(r)
    BY <2>1, <2>2, <2>5, ReadSteps DEF Run
  <2> QED BY <2>3, <2>4, <2>5
<1> HIDE DEF Kept
<1>2. Spec => [][Kept]_links
  BY <1>1, Invariance, PTL DEF Spec
<1> QED BY <1>2 DEF Kept, LinkIdentityKept

-----------------------------------------------------------------------------
(* Refinement of LinkRegistry *)

\* Both modules read the table with the same operators.
LEMMA SameVocabulary ==
  /\ \A c : (Registry!Exists(c) <=> Exists(c)) /\ (Registry!IsActive(c) <=> IsActive(c))
  /\ \A u : Registry!Owned(u) = Owned(u) /\ (Registry!Room(u) <=> Room(u))
  /\ \A u, d : Registry!LinksTo(u, d) = LinksTo(u, d)
  /\ \A c, s : Registry!SetStatus(c, s) <=> SetStatus(c, s)
  /\ \A c, u, d : Registry!AddLink(c, u, d) <=> AddLink(c, u, d)
<1>1. \A c : (Registry!Exists(c) <=> Exists(c)) /\ (Registry!IsActive(c) <=> IsActive(c))
  BY DEF Registry!Exists, Exists, Registry!IsActive, IsActive
<1>2. ASSUME NEW u PROVE Registry!Owned(u) = Owned(u)
  BY <1>1 DEF Registry!Owned, Owned
<1>3. ASSUME NEW u PROVE Registry!ActiveLinks(u) = ActiveLinks(u)
  BY <1>1, <1>2 DEF Registry!ActiveLinks, ActiveLinks
<1>4. ASSUME NEW u PROVE Registry!Room(u) <=> Room(u)
  BY <1>3 DEF Registry!Room, Room, Registry!Cardinality, Cardinality
<1>5. ASSUME NEW u, NEW d PROVE Registry!LinksTo(u, d) = LinksTo(u, d)
  BY <1>2 DEF Registry!LinksTo, LinksTo
<1>6. ASSUME NEW c, NEW s PROVE Registry!SetStatus(c, s) <=> SetStatus(c, s)
  BY DEF Registry!SetStatus, SetStatus
<1>7. ASSUME NEW c, NEW u, NEW d PROVE Registry!AddLink(c, u, d) <=> AddLink(c, u, d)
  BY DEF Registry!AddLink, AddLink
<1> QED BY <1>1, <1>2, <1>4, <1>5, <1>6, <1>7

\* The answer of a transaction is an answer of the registry.
LEMMA FinishAnswers ==
  ASSUME TypeOK, LockedReadsStayTrue, NEW r \in Clients, NEW o, Finish(r, o),
         ~At(r, "idle")
  PROVE  /\ Registry!Answer(r, o)
         /\ \A op : request[r].op = op => Registry!Pending(r, op)
         /\ reply[r] = "pending"
<1>1. reply[r] = "pending"
  BY DEF LockedReadsStayTrue, StepFits
<1> QED BY <1>1 DEF Finish, Registry!Answer, Registry!Pending

\* Each step of a transaction is the atomic operation, when it ends, or nothing.
LEMMA RegistryStep ==
  ASSUME Inv, NEW r \in Clients, Begin(r) \/ LockAccount(r) \/ Run(r) \/ Abort(r)
  PROVE  Registry!Next \/ UNCHANGED Registry!vars
<1> USE DEF Registry!Next
<1>0. /\ TypeOK /\ LockedReadsStayTrue /\ StepFits(r) /\ SeenHolds(r) /\ RoomHolds(r)
      /\ request[r].op \in {"create", "status"}
  BY RequestType DEF Inv, LockedReadsStayTrue
<1>1. CASE Begin(r)
  BY <1>0, <1>1 DEF Begin, StepFits, At, Registry!Ask
<1>2. CASE LockAccount(r)
  BY <1>2 DEF LockAccount, Registry!vars
<1>3. CASE ReadLink(r)
  <2>1. CASE UNCHANGED <<request, reply, lock>>
    BY <1>3, <2>1 DEF ReadLink, Registry!vars
  <2>2. CASE ~(UNCHANGED <<request, reply, lock>>)
    <3>1. Registry!StatusRefused(r)
      BY <1>0, <1>3, <2>2, FinishAnswers, SameVocabulary
         DEF ReadLink, StepFits, At, Registry!StatusRefused
    <3> QED BY <3>1
  <2> QED BY <2>1, <2>2
<1>4. CASE FindExisting(r)
  <2>1. CASE UNCHANGED <<request, reply, lock>>
    BY <1>4, <2>1 DEF FindExisting, Registry!vars
  <2>2. CASE ~(UNCHANGED <<request, reply, lock>>)
    <3>1. Registry!CreateExisting(r)
      BY <1>0, <1>4, <2>2, FinishAnswers, SameVocabulary
         DEF FindExisting, StepFits, At, Registry!CreateExisting
    <3> QED BY <3>1
  <2> QED BY <2>1, <2>2
<1>5. CASE Reread(r)
  <2>1. CASE UNCHANGED <<request, reply, lock>>
    BY <1>5, <2>1 DEF Reread, Registry!vars
  <2>2. CASE ~(UNCHANGED <<request, reply, lock>>)
    <3>1. Registry!StatusApplied(r)
      BY <1>0, <1>5, <2>2, FinishAnswers, SameVocabulary
         DEF Reread, StepFits, At, Registry!StatusApplied
    <3> QED BY <3>1
  <2> QED BY <2>1, <2>2
<1>6. CASE CountActive(r)
  <2>1. CASE Room(request[r].user)
    BY <1>6, <2>1 DEF CountActive, Registry!vars
  <2>2. CASE ~Room(request[r].user) /\ request[r].op = "create"
    <3>1. \A c \in LinksTo(request[r].user, request[r].url) : ~IsActive(c)
      BY <1>0, <1>6, <2>2 DEF CountActive, SeenHolds, At
    <3>2. Registry!CreateRefused(r)
      BY <1>0, <1>6, <2>2, <3>1, FinishAnswers, SameVocabulary
         DEF CountActive, At, Registry!CreateRefused
    <3> QED BY <3>2
  <2>3. CASE ~Room(request[r].user) /\ request[r].op = "status"
    <3>1. Registry!StatusApplied(r)
      BY <1>0, <1>6, <2>3, FinishAnswers, SameVocabulary
         DEF CountActive, StepFits, SeenHolds, At, Registry!StatusApplied
    <3> QED BY <3>1
  <2> QED BY <1>0, <2>1, <2>2, <2>3
<1>7. CASE Save(r)
  <2>1. ~At(r, "idle") /\ At(r, "save")
    BY <1>7 DEF Save, At
  <2>2. CASE request[r].op = "create"
    <3>1. SetStatus(tx[r].seen, "ACTIVE") /\ Finish(r, "reactivated")
      BY <1>7, <2>2 DEF Save
    <3>2. Registry!CreateReactivating(r)
      BY <1>0, <2>1, <2>2, <3>1, FinishAnswers, SavedRow, SameVocabulary
         DEF RoomHolds, Registry!CreateReactivating
    <3> QED BY <3>2
  <2>3. CASE request[r].op = "status"
    <3>1. SetStatus(tx[r].seen, request[r].want) /\ Finish(r, "changed")
      BY <1>7, <2>3 DEF Save
    <3>2. Registry!StatusApplied(r)
      BY <1>0, <2>1, <2>3, <3>1, FinishAnswers, SavedRow, SameVocabulary
         DEF RoomHolds, Registry!StatusApplied
    <3> QED BY <3>2
  <2> QED BY <1>0, <2>2, <2>3
<1>8. CASE Insert(r)
  <2>1. /\ At(r, "insert") /\ ~At(r, "idle") /\ request[r].op = "create"
        /\ Room(request[r].user)
    BY <1>0, <1>8 DEF Insert, StepFits, RoomHolds, At
  <2>2. Registry!CreateNew(r)
    BY <1>0, <1>8, <2>1, FinishAnswers, InsertStep, SameVocabulary
       DEF Registry!CreateNew
  <2> QED BY <2>2
<1>9. CASE Collide(r)
  <2>1. CASE AttemptsLeft(r)
    BY <1>9, <2>1 DEF Collide, Registry!vars
  <2>2. CASE ~AttemptsLeft(r)
    <3>1. /\ At(r, "insert") /\ ~At(r, "idle") /\ request[r].op = "create"
          /\ Room(request[r].user) /\ tx[r].seen = None
      BY <1>0, <1>9 DEF Collide, StepFits, SeenHolds, RoomHolds, At
    <3>2. LinksTo(request[r].user, request[r].url) = {}
      BY <1>0, <3>1 DEF SeenHolds, At
    <3>3. Registry!CreateExhausted(r)
      BY <1>0, <1>9, <2>2, <3>1, <3>2, FinishAnswers, SameVocabulary
         DEF Collide, Collides, Registry!CreateExhausted
    <3> QED BY <3>3
  <2> QED BY <2>1, <2>2
<1>10. CASE Abort(r)
  BY <1>0, <1>10, FinishAnswers DEF Abort, Registry!Fail
<1> QED
  BY <1>1, <1>2, <1>3, <1>4, <1>5, <1>6, <1>7, <1>8, <1>9, <1>10 DEF Run

\* createOrRestore and changeStatus implement their atomic specification.
THEOREM TransactionsImplementRegistry == Spec => ImplementsRegistry
<1>1. Init => Registry!Init
  BY DEF Init, Registry!Init
<1>2. Inv /\ [Next]_vars => [Registry!Next]_(Registry!vars)
  <2>1. CASE UNCHANGED vars
    BY <2>1 DEF vars, Registry!vars
  <2> QED BY <2>1, RegistryStep DEF Next
<1> QED BY <1>1, <1>2, Invariance, PTL DEF Spec, ImplementsRegistry, Registry!Spec
=============================================================================
