--------------------------- MODULE LinkResolution ---------------------------
(***************************************************************************)
(* LinksService over PostgreSQL and the Redis resolution cache: public     *)
(* resolution (cache, then database, then cache fill), status changes      *)
(* (invalidate, then commit) and creation, by any number of API instances. *)
(* A call of the repository is one step: LinkTransactions implements it.   *)
(* A cache entry is its remaining lifetime: what it holds, the link and    *)
(* its destination, is fixed by the short code (LinkIdentityKept).         *)
(***************************************************************************)
EXTENDS LinkTable

CONSTANTS Visitors,  \* public requests in flight
          Owners,    \* status requests in flight
          Ttl,       \* LINK_RESOLUTION_CACHE_TTL_SECONDS, in ticks
          MaxHold    \* ticks a resolution may spend between its read and its fill

ASSUME ResolutionAssumption == Ttl \in Nat \ {0} /\ MaxHold \in Nat

VARIABLES cache,     \* cache[c]: remaining lifetime of c's entry, 0 without one
          visit,     \* visit[v]: the resolution of visitor v
          change,    \* change[o]: the status change of owner request o
          dead,      \* history: ticks since c was deactivated, 0 while active
          raced      \* history: links whose deactivation a resolution overlapped

vars == <<links, cache, visit, change, dead, raced>>

\* Ticks are not counted beyond this age of a deactivation.
Horizon == Ttl + MaxHold + 1

(***************************************************************************)
(* age counts ticks since the database read; alwaysDead and alwaysLive are *)
(* history: the link was inactive, or active, in every state since the     *)
(* resolution began.                                                       *)
(***************************************************************************)
Visit == [at: {"idle", "get", "read", "set", "redirected", "missing"},
          code: Codes \cup {None}, age: 0..MaxHold,
          alwaysDead: BOOLEAN, alwaysLive: BOOLEAN]

\* overlap is history: a resolution held or made a database read of the link
\* since this request invalidated its entry.
Change == [at: {"idle", "find", "invalidate", "commit"},
           user: Users \cup {None}, code: Codes \cup {None}, want: Status,
           overlap: BOOLEAN]

NoVisit == [at |-> "idle", code |-> None, age |-> 0,
            alwaysDead |-> FALSE, alwaysLive |-> FALSE]

NoChange == [at |-> "idle", user |-> None, code |-> None, want |-> "ACTIVE",
             overlap |-> FALSE]

TypeOK ==
  /\ links \in [Codes -> Link \cup {None}]
  /\ cache \in [Codes -> 0..Ttl]
  /\ visit \in [Visitors -> Visit]
  /\ change \in [Owners -> Change]
  /\ dead \in [Codes -> 0..Horizon]
  /\ raced \subseteq Codes

Init ==
  /\ links = [c \in Codes |-> None]
  /\ cache = [c \in Codes |-> 0]
  /\ visit = [v \in Visitors |-> NoVisit]
  /\ change = [o \in Owners |-> NoChange]
  /\ dead = [c \in Codes |-> 0]
  /\ raced = {}

Inactive(c) == Exists(c) /\ ~IsActive(c)

-----------------------------------------------------------------------------
(* Public resolution: LinksService.resolve. *)

VisitAt(v, step) == visit[v].at = step

VisitGoto(v, step) == visit' = [visit EXCEPT ![v].at = step]

StartVisit(v) ==
  /\ visit[v].at \in {"idle", "redirected", "missing"}
  /\ \E c \in Codes :
       visit' = [visit EXCEPT ![v] =
                  [at |-> "get", code |-> c, age |-> 0,
                   alwaysDead |-> ~IsActive(c), alwaysLive |-> IsActive(c)]]
  /\ UNCHANGED <<links, cache, change, dead, raced>>

CacheHit(v) ==
  /\ VisitAt(v, "get")
  /\ cache[visit[v].code] > 0
  /\ VisitGoto(v, "redirected")
  /\ UNCHANGED <<links, cache, change, dead, raced>>

CacheMiss(v) ==
  /\ VisitAt(v, "get")
  /\ cache[visit[v].code] = 0
  /\ VisitGoto(v, "read")
  /\ UNCHANGED <<links, cache, change, dead, raced>>

\* A handler that takes an unreachable cache for an unknown link.
AnswerMissing == "missing"

FallBack == "read"

\* GET fails, whatever the cache holds.
CacheReadFails(v) ==
  /\ VisitAt(v, "get")
  /\ VisitGoto(v, FallBack)
  /\ UNCHANGED <<links, cache, change, dead, raced>>

ReadActive(v) ==
  LET c == visit[v].code
  IN  /\ VisitAt(v, "read")
      /\ IsActive(c)
      /\ visit' = [visit EXCEPT ![v].at = "set", ![v].age = 0]
      /\ change' = [o \in Owners |->
                     [change[o] EXCEPT !.overlap =
                        @ \/ (change[o].at = "commit" /\ change[o].code = c)]]
      /\ UNCHANGED <<links, cache, dead, raced>>

ReadMissing(v) ==
  /\ VisitAt(v, "read")
  /\ ~IsActive(visit[v].code)
  /\ VisitGoto(v, "missing")
  /\ UNCHANGED <<links, cache, change, dead, raced>>

\* A lifetime given to PX, which counts milliseconds, or the reverse.
LifetimeInWrongUnit == 1000 * Ttl

Lifetime == Ttl

\* SET ... EX succeeds or fails; the visitor is redirected in both cases.
FillCache(v) ==
  /\ VisitAt(v, "set")
  /\ \/ cache' = [cache EXCEPT ![visit[v].code] = Lifetime]
     \/ UNCHANGED cache
  /\ visit' = [visit EXCEPT ![v].at = "redirected", ![v].age = 0]
  /\ UNCHANGED <<links, change, dead, raced>>

-----------------------------------------------------------------------------
(* Status changes: LinksService.changeStatus, and creation. *)

Activated(c) ==
  /\ dead' = [dead EXCEPT ![c] = 0]
  /\ raced' = raced \ {c}
  /\ visit' = [v \in Visitors |->
                [visit[v] EXCEPT !.alwaysDead = @ /\ visit[v].code # c]]

Deactivated(c, overlap) ==
  /\ dead' = [dead EXCEPT ![c] = 0]
  /\ raced' = IF overlap THEN raced \cup {c} ELSE raced \ {c}
  /\ visit' = [v \in Visitors |->
                [visit[v] EXCEPT !.alwaysLive = @ /\ visit[v].code # c]]

\* The request is answered: 200, 404, 403, 409, 500 or 503.
EndChange(o) == change' = [change EXCEPT ![o] = NoChange]

AskChange(o) ==
  /\ change[o].at = "idle"
  /\ \E u \in Users, c \in Codes, s \in Status :
       change' = [change EXCEPT ![o] = [at |-> "find", user |-> u, code |-> c,
                                        want |-> s, overlap |-> FALSE]]
  /\ UNCHANGED <<links, cache, visit, dead, raced>>

\* Unknown links and links of another user are refused before Redis is touched.
FindLink(o) ==
  /\ change[o].at = "find"
  /\ IF change[o].code \in Owned(change[o].user)
       THEN change' = [change EXCEPT ![o].at = "invalidate"]
       ELSE EndChange(o)
  /\ UNCHANGED <<links, cache, visit, dead, raced>>

\* A DEL under another key version: the entry stays.
KeepEntry(c) == UNCHANGED cache

DeleteEntry(c) == cache' = [cache EXCEPT ![c] = 0]

Invalidate(o) ==
  LET c == change[o].code
  IN  /\ change[o].at = "invalidate"
      /\ DeleteEntry(c)
      /\ change' = [change EXCEPT ![o].at = "commit",
                      ![o].overlap = \E v \in Visitors :
                                       VisitAt(v, "set") /\ visit[v].code = c]
      /\ UNCHANGED <<links, visit, dead, raced>>

\* DEL is refused, or its reply is lost: 503, the status stays.
InvalidateFails(o) ==
  /\ change[o].at = "invalidate"
  /\ DeleteEntry(change[o].code) \/ UNCHANGED cache
  /\ EndChange(o)
  /\ UNCHANGED <<links, visit, dead, raced>>

CommitReactivation(o) ==
  LET c == change[o].code
  IN  /\ change[o].at = "commit" /\ change[o].want = "ACTIVE"
      /\ ~IsActive(c) /\ Room(change[o].user)
      /\ SetStatus(c, "ACTIVE")
      /\ Activated(c)
      /\ EndChange(o)
      /\ UNCHANGED cache

CommitDeactivation(o) ==
  LET c == change[o].code
  IN  /\ change[o].at = "commit" /\ change[o].want = "DEACTIVATED"
      /\ IsActive(c)
      /\ SetStatus(c, "DEACTIVATED")
      /\ Deactivated(c, change[o].overlap)
      /\ EndChange(o)
      /\ UNCHANGED cache

\* unchanged, limit_reached, a database error or a crash of the API process.
EndWithoutChange(o) ==
  /\ change[o].at \in {"find", "invalidate", "commit"}
  /\ EndChange(o)
  /\ UNCHANGED <<links, cache, visit, dead, raced>>

\* LinksService.create: the cache plays no part, not even in a reactivation.
CreateNew(u, d) ==
  /\ Room(u) /\ LinksTo(u, d) = {}
  /\ \E c \in Codes : ~Exists(c) /\ AddLink(c, u, d) /\ Activated(c)
  /\ UNCHANGED <<cache, change>>

CreateReactivating(u, d) ==
  /\ Room(u)
  /\ \E c \in LinksTo(u, d) :
       ~IsActive(c) /\ SetStatus(c, "ACTIVE") /\ Activated(c)
  /\ UNCHANGED <<cache, change>>

-----------------------------------------------------------------------------
(* Time, and Redis on its own. *)

\* SET without EX: an entry lives until something deletes it.
NeverExpires(c) == cache[c]

OneTickLess(c) == IF cache[c] = 0 THEN 0 ELSE cache[c] - 1

\* A resolution that has read the database answers within MaxHold ticks.
Tick ==
  /\ \A v \in Visitors : VisitAt(v, "set") => visit[v].age < MaxHold
  /\ cache' = [c \in Codes |-> OneTickLess(c)]
  /\ visit' = [v \in Visitors |->
                IF VisitAt(v, "set") THEN [visit[v] EXCEPT !.age = @ + 1]
                                     ELSE visit[v]]
  /\ dead' = [c \in Codes |->
               IF Inactive(c) /\ dead[c] < Horizon
                 THEN dead[c] + 1 ELSE dead[c]]
  /\ UNCHANGED <<links, change, raced>>

\* Redis evicts an entry or restarts empty.
Evict(c) ==
  /\ cache[c] > 0
  /\ DeleteEntry(c)
  /\ UNCHANGED <<links, visit, change, dead, raced>>

\* The API process that serves the visitor dies.
VisitorGone(v) ==
  /\ visit[v].at \in {"get", "read", "set"}
  /\ visit' = [visit EXCEPT ![v] = NoVisit]
  /\ UNCHANGED <<links, cache, change, dead, raced>>

Resolve(v) ==
  \/ StartVisit(v) \/ CacheHit(v) \/ CacheMiss(v) \/ CacheReadFails(v)
  \/ ReadActive(v) \/ ReadMissing(v) \/ FillCache(v) \/ VisitorGone(v)

ChangeStatus(o) ==
  \/ AskChange(o) \/ FindLink(o) \/ Invalidate(o) \/ InvalidateFails(o)
  \/ CommitReactivation(o) \/ CommitDeactivation(o) \/ EndWithoutChange(o)

Next ==
  \/ \E v \in Visitors : Resolve(v)
  \/ \E o \in Owners : ChangeStatus(o)
  \/ \E u \in Users, d \in Urls : CreateNew(u, d) \/ CreateReactivating(u, d)
  \/ Tick
  \/ \E c \in Codes : Evict(c)

Spec == Init /\ [][Next]_vars

-----------------------------------------------------------------------------
\* A stale entry of a deactivated link, refilled by a resolution that read the
\* database before the commit, outlives the deactivation by at most the entry's
\* lifetime and the time that resolution spent between its read and its fill.
StaleLifetime ==
  \A c \in Codes : Inactive(c) /\ cache[c] > 0 =>
    cache[c] + dead[c] <= Ttl + MaxHold

\* A deactivation that no resolution overlaps takes effect at once: after the
\* invalidation before its commit nothing can put the link back into the cache.
UndisturbedDeactivationIsFinal ==
  \A c \in Codes : Inactive(c) /\ cache[c] > 0 => c \in raced

\* A link that stays active during a whole resolution is found, whatever Redis
\* does: the cache can make resolution slower, never wrong or unavailable.
LiveLinkIsFound ==
  \A v \in Visitors : VisitAt(v, "missing") => ~visit[v].alwaysLive

\* The specification's edge case, "a resposta nao pode redirecionar um Link ja
\* desativado": a resolution of a link that is deactivated from its first step
\* to its answer does not redirect.
NoRedirectOfDeadLink ==
  \A v \in Visitors : VisitAt(v, "redirected") => ~visit[v].alwaysDead
=============================================================================
