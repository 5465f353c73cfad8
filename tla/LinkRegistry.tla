---------------------------- MODULE LinkRegistry ----------------------------
(***************************************************************************)
(* What the link operations promise: a request to create a link or to      *)
(* change its status takes effect, and is answered, in one step.           *)
(***************************************************************************)
EXTENDS LinkTable

CONSTANT Clients      \* requests in flight over all API instances

VARIABLES request,    \* request[r]: what client r asked for last
          reply       \* reply[r]: "pending", or the outcome of that request

CreateRequest == [op: {"create"}, user: Users, url: Urls]

StatusRequest == [op: {"status"}, user: Users, code: Codes, want: Status]

Request == CreateRequest \cup StatusRequest

Pending(r, op) == reply[r] = "pending" /\ request[r].op = op

Answer(r, outcome) ==
  /\ reply' = [reply EXCEPT ![r] = outcome]
  /\ UNCHANGED request

Init ==
  /\ links = [c \in Codes |-> None]
  /\ request \in [Clients -> Request]
  /\ reply = [r \in Clients |-> "idle"]

Ask(r) ==
  /\ reply[r] # "pending"
  /\ \E q \in Request : request' = [request EXCEPT ![r] = q]
  /\ reply' = [reply EXCEPT ![r] = "pending"]
  /\ UNCHANGED links

\* The user already has the URL as an active link: nothing changes.
CreateExisting(r) ==
  /\ Pending(r, "create")
  /\ \E c \in LinksTo(request[r].user, request[r].url) : IsActive(c)
  /\ Answer(r, "existing")
  /\ UNCHANGED links

\* The user's deactivated link to the URL is brought back under its old code.
CreateReactivating(r) ==
  /\ Pending(r, "create")
  /\ Room(request[r].user)
  /\ \E c \in LinksTo(request[r].user, request[r].url) :
       ~IsActive(c) /\ SetStatus(c, "ACTIVE")
  /\ Answer(r, "reactivated")

CreateNew(r) ==
  /\ Pending(r, "create")
  /\ Room(request[r].user)
  /\ LinksTo(request[r].user, request[r].url) = {}
  /\ \E c \in Codes :
       ~Exists(c) /\ AddLink(c, request[r].user, request[r].url)
  /\ Answer(r, "created")

\* Giving up is allowed only to a user with room and without the URL.
CreateExhausted(r) ==
  /\ Pending(r, "create")
  /\ Room(request[r].user)
  /\ LinksTo(request[r].user, request[r].url) = {}
  /\ \E c \in Codes : Exists(c)
  /\ Answer(r, "exhausted")
  /\ UNCHANGED links

CreateRefused(r) ==
  /\ Pending(r, "create")
  /\ ~Room(request[r].user)
  /\ \A c \in LinksTo(request[r].user, request[r].url) : ~IsActive(c)
  /\ Answer(r, "limit_reached")
  /\ UNCHANGED links

StatusRefused(r) ==
  /\ Pending(r, "status")
  /\ LET c == request[r].code
     IN  \/ ~Exists(c) /\ Answer(r, "not_found")
         \/ Exists(c) /\ links[c].owner # request[r].user /\ Answer(r, "forbidden")
  /\ UNCHANGED links

\* What a status request does to a link of its user.
StatusApplied(r) ==
  LET c == request[r].code
      want == request[r].want
  IN  /\ Pending(r, "status")
      /\ c \in Owned(request[r].user)
      /\ \/ /\ links[c].status = want
            /\ Answer(r, "unchanged")
            /\ UNCHANGED links
         \/ /\ links[c].status # want
            /\ want = "ACTIVE" => Room(request[r].user)
            /\ SetStatus(c, want)
            /\ Answer(r, "changed")
         \/ /\ links[c].status # want
            /\ want = "ACTIVE" /\ ~Room(request[r].user)
            /\ Answer(r, "limit_reached")
            /\ UNCHANGED links

\* A request that fails leaves nothing behind.
Fail(r) ==
  /\ reply[r] = "pending"
  /\ Answer(r, "failed")
  /\ UNCHANGED links

Next ==
  \E r \in Clients :
    \/ Ask(r)
    \/ CreateExisting(r) \/ CreateReactivating(r) \/ CreateNew(r)
    \/ CreateExhausted(r) \/ CreateRefused(r)
    \/ StatusRefused(r) \/ StatusApplied(r)
    \/ Fail(r)

vars == <<links, request, reply>>

Spec == Init /\ [][Next]_vars
=============================================================================
