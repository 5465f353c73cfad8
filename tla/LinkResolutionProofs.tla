------------------------ MODULE LinkResolutionProofs ------------------------
(***************************************************************************)
(* The invariants of LinkResolution for all links, visitors and owners,    *)
(* every entry lifetime and every bound on the time of a resolution.       *)
(***************************************************************************)
EXTENDS LinkResolution, TLAPS

Holder(v, c) == VisitAt(v, "set") /\ visit[v].code = c

\* What a resolution knows: the link it has read exists and, if it has been
\* deactivated since, that was after the read.
VisitOK(v) ==
  LET c == visit[v].code
  IN  /\ visit[v].at # "idle" => c \in Codes
      /\ visit[v].alwaysLive => c \in Codes /\ IsActive(c)
      /\ VisitAt(v, "missing") => ~visit[v].alwaysLive
      /\ VisitAt(v, "set") => Exists(c) /\ (Inactive(c) => dead[c] <= visit[v].age)

\* What a status change knows: whose link it is and, between its invalidation
\* and its commit, that nobody can fill the entry unless it has been overlapped.
ChangeOK(o) ==
  LET c == change[o].code
  IN  /\ change[o].at # "idle" => change[o].user \in Users /\ c \in Codes
      /\ change[o].at \in {"invalidate", "commit"} => c \in Owned(change[o].user)
      /\ change[o].at = "commit" /\ ~change[o].overlap =>
           cache[c] = 0 /\ \A v \in Visitors : ~Holder(v, c)

\* What holds of a deactivated link.
LinkOK(c) ==
  /\ Inactive(c) /\ cache[c] > 0 => cache[c] + dead[c] <= Ttl + MaxHold
  /\ Inactive(c) /\ c \notin raced =>
       cache[c] = 0 /\ \A v \in Visitors : ~Holder(v, c)

Inv ==
  /\ TypeOK
  /\ \A v \in Visitors : VisitOK(v)
  /\ \A o \in Owners : ChangeOK(o)
  /\ \A c \in Codes : LinkOK(c)
-----------------------------------------------------------------------------
(* Types. *)

\* The initial state is typed: no link, no entry, nothing in flight.
LEMMA InitTyped == Init => TypeOK
  BY LinkTableAssumption, ResolutionAssumption
  DEF Init, TypeOK, Visit, Change, NoVisit, NoChange, Status, Horizon

\* A field of a resolution may be replaced by a value of its type.
LEMMA VisitTyped ==
  ASSUME TypeOK, NEW v \in Visitors, NEW rec \in Visit,
         visit' = [visit EXCEPT ![v] = rec]
  PROVE  visit' \in [Visitors -> Visit]
  BY DEF TypeOK

\* Moving a resolution on keeps its other fields.
LEMMA MovedVisit ==
  ASSUME TypeOK, NEW v \in Visitors,
         NEW step \in {"idle", "get", "read", "set", "redirected", "missing"}
  PROVE  /\ [visit[v] EXCEPT !.at = step] \in Visit
         /\ [visit EXCEPT ![v].at = step]
              = [visit EXCEPT ![v] = [visit[v] EXCEPT !.at = step]]
  BY DEF TypeOK, Visit

\* Moving a resolution on and resetting its clock keeps its other fields.
LEMMA MovedAndReset ==
  ASSUME TypeOK, NEW v \in Visitors,
         NEW step \in {"idle", "get", "read", "set", "redirected", "missing"},
         visit' = [visit EXCEPT ![v].at = step, ![v].age = 0]
  PROVE  \E rec \in Visit :
           /\ rec.at = step /\ rec.code = visit[v].code
           /\ rec.alwaysLive = visit[v].alwaysLive
           /\ visit' = [visit EXCEPT ![v] = rec]
<1>1. PICK r \in Visit : r = visit[v]
  BY DEF TypeOK
<1>2. PICK s \in Visit : s = [r EXCEPT !.at = step]
  BY DEF Visit
<1>3. 0 \in 0..MaxHold
  BY ResolutionAssumption
<1>4. PICK rec \in Visit : rec = [s EXCEPT !.age = 0]
  BY <1>3 DEF Visit
<1>5. /\ rec.at = step /\ rec.code = r.code /\ rec.alwaysLive = r.alwaysLive
      /\ rec = [r EXCEPT !.at = step, !.age = 0]
  BY <1>2, <1>4 DEF Visit
<1>6. [visit EXCEPT ![v].at = step, ![v].age = 0]
        = [visit EXCEPT ![v] = [visit[v] EXCEPT !.at = step, !.age = 0]]
  BY <1>1 DEF Visit, TypeOK
<1> QED BY <1>1, <1>5, <1>6

\* The two ways in which the row of a link changes.
LEMMA RowsTyped ==
  ASSUME TypeOK, NEW c \in Codes
  PROVE  /\ \A s \in Status : Exists(c) /\ SetStatus(c, s) =>
              /\ links' \in [Codes -> Link \cup {None}]
              /\ links' = [links EXCEPT ![c] = [owner |-> links[c].owner,
                            url |-> links[c].url, status |-> s]]
         /\ \A u \in Users, d \in Urls : AddLink(c, u, d) =>
              links' \in [Codes -> Link \cup {None}]
<1>1. \A s \in Status : Exists(c) /\ SetStatus(c, s) =>
        links' = [links EXCEPT ![c] = [owner |-> links[c].owner,
                   url |-> links[c].url, status |-> s]]
  BY DEF TypeOK, SetStatus, Exists, Link
<1>2. \A s \in Status : Exists(c) /\ SetStatus(c, s) =>
        links' \in [Codes -> Link \cup {None}]
  BY <1>1 DEF TypeOK, Exists, Link
<1>3. \A u \in Users, d \in Urls : AddLink(c, u, d) =>
        links' \in [Codes -> Link \cup {None}]
  BY DEF TypeOK, AddLink, Link, Status
<1> QED BY <1>1, <1>2, <1>3

-----------------------------------------------------------------------------
(* Steps of a resolution. *)

\* A resolution that moves on without taking a database read with it leaves
\* everything else as it was.
LEMMA LocalVisitStep ==
  ASSUME Inv, NEW v \in Visitors, NEW rec \in Visit,
         visit' = [visit EXCEPT ![v] = rec],
         rec.at # "set",
         rec.at # "idle" => rec.code \in Codes,
         rec.alwaysLive => rec.code \in Codes /\ IsActive(rec.code),
         rec.at = "missing" => ~rec.alwaysLive,
         UNCHANGED <<links, cache, change, dead, raced>>
  PROVE  Inv'
<1>1. TypeOK'
  BY VisitTyped DEF Inv, TypeOK
<1>2. \A w \in Visitors : visit'[w] = IF w = v THEN rec ELSE visit[w]
  BY DEF Inv, TypeOK
<1>3. \A w \in Visitors, c \in Codes : Holder(w, c)' => Holder(w, c)
  BY <1>2 DEF Holder, VisitAt
<1>4. \A w \in Visitors : VisitOK(w)'
  BY <1>2 DEF Inv, VisitOK, VisitAt, Exists, IsActive, Inactive
<1>5. \A o \in Owners : ChangeOK(o)'
  BY <1>3 DEF Inv, ChangeOK, Owned, Exists
<1>6. \A c \in Codes : LinkOK(c)'
  BY <1>3 DEF Inv, LinkOK, Inactive, Exists, IsActive
<1> QED BY <1>1, <1>4, <1>5, <1>6 DEF Inv

\* A read that finds the link active marks the changes it overlaps.
LEMMA ReadActiveStep ==
  ASSUME Inv, NEW v \in Visitors, ReadActive(v)
  PROVE  Inv'
<1>1. PICK c \in Codes : c = visit[v].code /\ IsActive(c)
  BY DEF Inv, VisitOK, ReadActive, VisitAt
<1>2. PICK rec \in Visit : /\ rec.at = "set" /\ rec.code = c
                           /\ rec.alwaysLive = visit[v].alwaysLive
                           /\ visit' = [visit EXCEPT ![v] = rec]
  <2>1. TypeOK /\ visit' = [visit EXCEPT ![v].at = "set", ![v].age = 0]
    BY DEF ReadActive, Inv
  <2> QED BY <2>1, <1>1, MovedAndReset, ZenonT(60)
<1>3. \A o \in Owners :
        /\ change'[o] \in Change
        /\ change'[o].at = change[o].at /\ change'[o].user = change[o].user
        /\ change'[o].code = change[o].code
        /\ change[o].overlap => change'[o].overlap
        /\ change[o].at = "commit" /\ change[o].code = c => change'[o].overlap
  BY <1>1 DEF Inv, TypeOK, ReadActive, Change
<1>4. change' \in [Owners -> Change]
  BY <1>3 DEF ReadActive
<1>5. UNCHANGED <<links, cache, dead, raced>>
  BY DEF ReadActive
<1>6. TypeOK'
  BY <1>2, <1>4, <1>5, VisitTyped DEF Inv, TypeOK
<1>7. \A w \in Visitors : visit'[w] = IF w = v THEN rec ELSE visit[w]
  BY <1>2 DEF Inv, TypeOK
<1>8. \A w \in Visitors, x \in Codes : Holder(w, x)' => Holder(w, x) \/ x = c
  BY <1>2, <1>7 DEF Holder, VisitAt
<1>9. ASSUME NEW w \in Visitors PROVE VisitOK(w)'
  <2>1. CASE w = v
    BY <2>1, <1>1, <1>2, <1>5, <1>7
    DEF VisitOK, VisitAt, Exists, IsActive, Inactive
  <2>2. CASE w # v
    BY <2>2, <1>5, <1>7
    DEF Inv, VisitOK, VisitAt, Exists, IsActive, Inactive
  <2> QED BY <2>1, <2>2
<1>10. \A o \in Owners : ChangeOK(o)'
  BY <1>3, <1>5, <1>8 DEF Inv, ChangeOK, Owned, Exists
<1>11. \A x \in Codes : LinkOK(x)'
  BY <1>1, <1>5, <1>8 DEF Inv, LinkOK, Inactive, Exists, IsActive
<1> QED BY <1>6, <1>9, <1>10, <1>11 DEF Inv

\* A fill restores the entry of a deactivated link only if its read was made
\* before the deactivation, which is then marked as overlapped.
LEMMA FillStep ==
  ASSUME Inv, NEW v \in Visitors, FillCache(v)
  PROVE  Inv'
<1>1. PICK c \in Codes : c = visit[v].code /\ Exists(c) /\ Holder(v, c)
  BY DEF Inv, VisitOK, FillCache, VisitAt, Holder
<1>2. Inactive(c) => dead[c] <= MaxHold
  BY <1>1, ResolutionAssumption
  DEF Inv, TypeOK, VisitOK, Holder, VisitAt, Visit, Horizon
<1>3. PICK rec \in Visit : /\ rec.at = "redirected" /\ rec.code = c
                           /\ rec.alwaysLive = visit[v].alwaysLive
                           /\ visit' = [visit EXCEPT ![v] = rec]
  <2>1. TypeOK /\ visit' = [visit EXCEPT ![v].at = "redirected", ![v].age = 0]
    BY DEF FillCache, Inv
  <2> QED BY <2>1, <1>1, MovedAndReset, ZenonT(60)
<1>4. cache' = cache \/ cache' = [cache EXCEPT ![c] = Ttl]
  BY <1>1 DEF FillCache, Lifetime
<1>5. cache' \in [Codes -> 0..Ttl]
  BY <1>1, <1>4, ResolutionAssumption DEF Inv, TypeOK
<1>6. UNCHANGED <<links, change, dead, raced>>
  BY DEF FillCache
<1>7. TypeOK'
  BY <1>3, <1>5, <1>6, VisitTyped DEF Inv, TypeOK
<1>8. \A w \in Visitors : visit'[w] = IF w = v THEN rec ELSE visit[w]
  BY <1>3 DEF Inv, TypeOK
<1>9. \A w \in Visitors, x \in Codes : Holder(w, x)' => Holder(w, x)
  BY <1>3, <1>8 DEF Holder, VisitAt
<1>10. \A x \in Codes : x # c => cache'[x] = cache[x]
  BY <1>4 DEF Inv, TypeOK
<1>11. ASSUME NEW w \in Visitors PROVE VisitOK(w)'
  <2>1. CASE w = v
    BY <2>1, <1>1, <1>3, <1>6, <1>8
    DEF Inv, VisitOK, VisitAt, Exists, IsActive, Inactive
  <2>2. CASE w # v
    BY <2>2, <1>6, <1>8
    DEF Inv, VisitOK, VisitAt, Exists, IsActive, Inactive
  <2> QED BY <2>1, <2>2
<1>12. \A o \in Owners : ChangeOK(o)'
  BY <1>1, <1>6, <1>9, <1>10 DEF Inv, ChangeOK, Owned, Exists
<1>13. ASSUME NEW x \in Codes PROVE LinkOK(x)'
  <2>1. CASE x # c
    BY <2>1, <1>6, <1>9, <1>10 DEF Inv, LinkOK, Inactive, Exists, IsActive
  <2>2. CASE x = c
    <3>1. Inactive(c) => c \in raced
      BY <1>1 DEF Inv, LinkOK
    <3>2. Inactive(c) /\ cache[c] > 0 => cache[c] + dead[c] <= Ttl + MaxHold
      BY <1>1 DEF Inv, LinkOK
    <3>3. Inactive(c) /\ cache'[c] > 0 => cache'[c] + dead[c] <= Ttl + MaxHold
      BY <1>1, <1>2, <1>4, <3>2, ResolutionAssumption DEF Inv, TypeOK, Horizon
    <3> QED
      BY <2>2, <3>1, <3>3, <1>6 DEF LinkOK, Inactive, Exists, IsActive
  <2> QED BY <2>1, <2>2
<1> QED BY <1>7, <1>11, <1>12, <1>13 DEF Inv
-----------------------------------------------------------------------------
(* Steps of a status change, and losses of entries. *)

\* A step that takes entries away and moves requests on keeps the invariant if
\* each request it moves knows what its new place demands.
LEMMA QuietStep ==
  ASSUME Inv,
         cache' \in [Codes -> 0..Ttl],
         \A c \in Codes : cache'[c] = cache[c] \/ cache'[c] = 0,
         change' \in [Owners -> Change],
         \A o \in Owners : change'[o] = change[o] \/ ChangeOK(o)',
         UNCHANGED <<links, visit, dead, raced>>
  PROVE  Inv'
<1>1. TypeOK'
  BY DEF Inv, TypeOK
<1>2. \A v \in Visitors, c \in Codes : Holder(v, c)' <=> Holder(v, c)
  BY DEF Holder, VisitAt
<1>3. \A v \in Visitors : VisitOK(v)'
  BY DEF Inv, VisitOK, VisitAt, Exists, IsActive, Inactive
<1>4. ASSUME NEW o \in Owners, change'[o] = change[o] PROVE ChangeOK(o)'
  BY <1>2, <1>4 DEF Inv, TypeOK, ChangeOK, Owned, Exists
<1>5. ASSUME NEW c \in Codes PROVE LinkOK(c)'
  BY <1>2 DEF Inv, TypeOK, LinkOK, Inactive, Exists, IsActive
<1> QED BY <1>1, <1>3, <1>4, <1>5 DEF Inv

\* An answered request has nothing to know.
LEMMA EndedChange ==
  ASSUME Inv, NEW o \in Owners, EndChange(o)
  PROVE  /\ change' \in [Owners -> Change]
         /\ \A p \in Owners : change'[p] = IF p = o THEN NoChange ELSE change[p]
         /\ ChangeOK(o)'
<1>1. NoChange \in Change
  BY DEF NoChange, Change, Status
<1>2. /\ change' \in [Owners -> Change]
      /\ \A p \in Owners : change'[p] = IF p = o THEN NoChange ELSE change[p]
  BY <1>1 DEF Inv, TypeOK, EndChange
<1>3. ChangeOK(o)'
  BY <1>2 DEF ChangeOK, NoChange
<1> QED BY <1>2, <1>3

\* The entry of one link is deleted.
LEMMA DeletedEntry ==
  ASSUME TypeOK, NEW c \in Codes, DeleteEntry(c)
  PROVE  /\ cache' \in [Codes -> 0..Ttl] /\ cache'[c] = 0
         /\ \A x \in Codes : cache'[x] = cache[x] \/ cache'[x] = 0
  BY ResolutionAssumption DEF TypeOK, DeleteEntry

\* Asking names a user and a link.
LEMMA AskStep ==
  ASSUME Inv, NEW o \in Owners, AskChange(o)
  PROVE  Inv'
<1>1. PICK u \in Users, c \in Codes, s \in Status :
        change' = [change EXCEPT ![o] = [at |-> "find", user |-> u, code |-> c,
                                         want |-> s, overlap |-> FALSE]]
  BY DEF AskChange
<1>2. /\ change' \in [Owners -> Change]
      /\ \A p \in Owners : p # o => change'[p] = change[p]
      /\ change'[o] = [at |-> "find", user |-> u, code |-> c,
                       want |-> s, overlap |-> FALSE]
  BY <1>1 DEF Inv, TypeOK, Change
<1>3. ChangeOK(o)'
  BY <1>2 DEF ChangeOK
<1> QED BY <1>2, <1>3, QuietStep DEF AskChange, Inv, TypeOK

\* Only the owner of a link gets past the lookup.
LEMMA FindStep ==
  ASSUME Inv, NEW o \in Owners, FindLink(o)
  PROVE  Inv'
<1>1. UNCHANGED <<links, cache, visit, dead, raced>> /\ change[o].at = "find"
  BY DEF FindLink
<1>2. CASE change[o].code \in Owned(change[o].user)
  <2>1. /\ change' \in [Owners -> Change]
        /\ \A p \in Owners : p # o => change'[p] = change[p]
        /\ change'[o].at = "invalidate" /\ change'[o].user = change[o].user
        /\ change'[o].code = change[o].code
    BY <1>2 DEF FindLink, Inv, TypeOK, Change
  <2>2. ChangeOK(o)'
    BY <1>1, <1>2, <2>1 DEF Inv, ChangeOK, Owned, Exists
  <2> QED BY <1>1, <2>1, <2>2, QuietStep DEF Inv, TypeOK
<1>3. CASE change[o].code \notin Owned(change[o].user)
  BY <1>1, <1>3, EndedChange, QuietStep DEF FindLink, Inv, TypeOK
<1> QED BY <1>2, <1>3

\* After the invalidation the entry is gone, and a resolution that can bring
\* it back is remembered.
LEMMA InvalidateStep ==
  ASSUME Inv, NEW o \in Owners, Invalidate(o)
  PROVE  Inv'
<1>1. PICK c \in Codes, u \in Users :
        c = change[o].code /\ u = change[o].user /\ c \in Owned(u)
  BY DEF Inv, ChangeOK, Invalidate
<1>2. UNCHANGED <<links, visit, dead, raced>> /\ DeleteEntry(c)
  BY <1>1 DEF Invalidate
<1>3. PICK overlap \in BOOLEAN : overlap = \E v \in Visitors : Holder(v, c)
  BY Zenon
<1>4. change' = [change EXCEPT ![o].at = "commit", ![o].overlap = overlap]
  BY <1>1, <1>3, Zenon DEF Invalidate, Holder
<1>5. /\ change' \in [Owners -> Change]
      /\ \A p \in Owners : p # o => change'[p] = change[p]
      /\ change'[o].at = "commit" /\ change'[o].user = u
      /\ change'[o].code = c /\ change'[o].overlap = overlap
  BY <1>1, <1>4, ZenonT(60) DEF Inv, TypeOK, Change
<1>6. \A v \in Visitors : Holder(v, c)' <=> Holder(v, c)
  BY <1>2 DEF Holder, VisitAt
<1>7. c \in Owned(u)'
  BY <1>1, <1>2 DEF Owned, Exists
<1>8. cache'[c] = 0
  BY <1>2, DeletedEntry DEF Inv
<1>9. ChangeOK(o)'
  BY <1>3, <1>5, <1>6, <1>7, <1>8 DEF ChangeOK
<1> QED BY <1>2, <1>5, <1>9, DeletedEntry, QuietStep DEF Inv

\* A failed invalidation may have deleted the entry; the request is answered.
LEMMA InvalidateFailsStep ==
  ASSUME Inv, NEW o \in Owners, InvalidateFails(o)
  PROVE  Inv'
<1>1. PICK c \in Codes : c = change[o].code
  BY DEF Inv, ChangeOK, InvalidateFails
<1>2. DeleteEntry(c) \/ UNCHANGED cache
  BY <1>1 DEF InvalidateFails
<1>3. /\ cache' \in [Codes -> 0..Ttl]
      /\ \A x \in Codes : cache'[x] = cache[x] \/ cache'[x] = 0
  BY <1>2, DeletedEntry DEF Inv, TypeOK
<1> QED BY <1>3, EndedChange, QuietStep DEF InvalidateFails
-----------------------------------------------------------------------------
(* Steps that change the status of a link. *)

\* An activation, by a status change or by a creation.
LEMMA ActivationStep ==
  ASSUME Inv, NEW c \in Codes, Activated(c), UNCHANGED cache,
         links' \in [Codes -> Link \cup {None}],
         \A x \in Codes : x # c => links'[x] = links[x],
         IsActive(c)',
         Exists(c) => links'[c].owner = links[c].owner,
         change' \in [Owners -> Change],
         \A o \in Owners : change'[o] = change[o] \/ change'[o] = NoChange
  PROVE  Inv'
<1>1. \A v \in Visitors :
        /\ visit'[v] \in Visit
        /\ visit'[v].at = visit[v].at /\ visit'[v].code = visit[v].code
        /\ visit'[v].age = visit[v].age
        /\ visit'[v].alwaysLive = visit[v].alwaysLive
  BY ZenonT(60) DEF Inv, TypeOK, Activated, Visit
<1>2. /\ visit' \in [Visitors -> Visit]
      /\ dead' \in [Codes -> 0..Horizon] /\ dead'[c] = 0
      /\ raced' = raced \ {c}
      /\ \A x \in Codes : x # c => dead'[x] = dead[x]
  <2>1. visit' \in [Visitors -> Visit] /\ raced' = raced \ {c}
    BY <1>1 DEF Activated
  <2>2. 0 \in 0..Horizon /\ dead' = [dead EXCEPT ![c] = 0]
    BY ResolutionAssumption DEF Horizon, Activated
  <2> QED BY <2>1, <2>2 DEF Inv, TypeOK
<1>3. TypeOK'
  BY <1>2 DEF Inv, TypeOK
<1>4. \A v \in Visitors, x \in Codes : Holder(v, x)' <=> Holder(v, x)
  BY <1>1 DEF Holder, VisitAt
<1>5. ASSUME NEW v \in Visitors PROVE VisitOK(v)'
  <2>1. \A x \in Codes : /\ IsActive(x) => IsActive(x)'
                         /\ Exists(x) => Exists(x)'
                         /\ Inactive(x)' => Inactive(x) /\ dead'[x] = dead[x]
    BY <1>2 DEF IsActive, Exists, Inactive
  <2> QED BY <1>1, <2>1 DEF Inv, VisitOK, VisitAt
<1>6. ASSUME NEW o \in Owners PROVE ChangeOK(o)'
  <2>1. CASE change'[o] = NoChange
    BY <2>1 DEF ChangeOK, NoChange
  <2>2. CASE change'[o] = change[o]
    <3>1. \A u \in Users : Owned(u) \subseteq Owned(u)'
      BY DEF Owned, Exists, IsActive
    <3> QED BY <2>2, <3>1, <1>4 DEF Inv, ChangeOK
  <2> QED BY <2>1, <2>2
<1>7. ASSUME NEW x \in Codes PROVE LinkOK(x)'
  BY <1>2, <1>4 DEF Inv, LinkOK, Inactive, Exists, IsActive
<1> QED BY <1>3, <1>5, <1>6, <1>7 DEF Inv

\* A status change that reactivates.
LEMMA ReactivationStep ==
  ASSUME Inv, NEW o \in Owners, CommitReactivation(o)
  PROVE  Inv'
<1>1. PICK c \in Codes : c = change[o].code /\ c \in Owned(change[o].user)
  BY DEF Inv, ChangeOK, CommitReactivation
<1>2. Activated(c) /\ UNCHANGED cache /\ Exists(c) /\ SetStatus(c, "ACTIVE")
  BY <1>1 DEF CommitReactivation, Owned
<1>3. /\ links' \in [Codes -> Link \cup {None}]
      /\ links' = [links EXCEPT ![c] = [owner |-> links[c].owner,
                                        url |-> links[c].url, status |-> "ACTIVE"]]
  BY <1>2, RowsTyped DEF Inv, Status
<1>4. links'[c] = [owner |-> links[c].owner, url |-> links[c].url,
                   status |-> "ACTIVE"]
  BY <1>3 DEF Inv, TypeOK
<1>5. /\ \A x \in Codes : x # c => links'[x] = links[x]
      /\ IsActive(c)' /\ links'[c].owner = links[c].owner
  BY <1>2, <1>3, <1>4, LinkTableAssumption DEF IsActive, Exists, Inv, TypeOK, Link, Status
<1>6. /\ change' \in [Owners -> Change]
      /\ \A p \in Owners : change'[p] = change[p] \/ change'[p] = NoChange
  BY EndedChange DEF CommitReactivation
<1> QED BY <1>2, <1>3, <1>5, <1>6, ActivationStep

\* A deactivation starts the clock of the link's stale entry; without an
\* overlap there is no entry and nobody who could fill one.
LEMMA DeactivationStep ==
  ASSUME Inv, NEW o \in Owners, CommitDeactivation(o)
  PROVE  Inv'
<1>1. PICK c \in Codes, overlap \in BOOLEAN :
        /\ c = change[o].code /\ overlap = change[o].overlap
        /\ IsActive(c)
  BY DEF Inv, TypeOK, Change, ChangeOK, CommitDeactivation
<1>2. /\ UNCHANGED cache /\ Exists(c) /\ SetStatus(c, "DEACTIVATED")
      /\ Deactivated(c, overlap)
  BY <1>1 DEF CommitDeactivation, IsActive
<1>3. /\ links' \in [Codes -> Link \cup {None}]
      /\ links' = [links EXCEPT ![c] = [owner |-> links[c].owner,
                               url |-> links[c].url, status |-> "DEACTIVATED"]]
  BY <1>2, RowsTyped DEF Inv, Status
<1>4. links'[c] = [owner |-> links[c].owner, url |-> links[c].url,
                   status |-> "DEACTIVATED"]
  BY <1>3 DEF Inv, TypeOK
<1>5. /\ \A x \in Codes : x # c => links'[x] = links[x]
      /\ links'[c] # None
  BY <1>2, <1>3, <1>4, LinkTableAssumption DEF Exists, Inv, TypeOK, Link, Status
<1>6. \A v \in Visitors :
        /\ visit'[v] \in Visit
        /\ visit'[v].at = visit[v].at /\ visit'[v].code = visit[v].code
        /\ visit'[v].age = visit[v].age
        /\ visit'[v].alwaysLive =>
             visit[v].alwaysLive /\ visit[v].code # c
  BY <1>2 DEF Inv, TypeOK, Deactivated, Visit
<1>7. /\ visit' \in [Visitors -> Visit]
      /\ dead' \in [Codes -> 0..Horizon] /\ dead'[c] = 0
      /\ raced' \subseteq Codes
      /\ overlap => c \in raced'
      /\ \A x \in Codes : x # c =>
           dead'[x] = dead[x] /\ (x \in raced' <=> x \in raced)
  <2>1. visit' \in [Visitors -> Visit]
    BY <1>2, <1>6 DEF Deactivated
  <2>2. 0 \in 0..Horizon /\ dead' = [dead EXCEPT ![c] = 0]
    BY <1>2, ResolutionAssumption DEF Horizon, Deactivated
  <2>3. raced' = IF overlap THEN raced \cup {c} ELSE raced \ {c}
    BY <1>2 DEF Deactivated
  <2> QED BY <2>1, <2>2, <2>3 DEF Inv, TypeOK
<1>8. /\ change' \in [Owners -> Change]
      /\ \A p \in Owners : change'[p] = change[p] \/ change'[p] = NoChange
  BY EndedChange DEF CommitDeactivation
<1>9. TypeOK'
  BY <1>2, <1>3, <1>7, <1>8 DEF Inv, TypeOK
<1>10. \A v \in Visitors, x \in Codes : Holder(v, x)' <=> Holder(v, x)
  BY <1>6 DEF Holder, VisitAt
<1>11. ASSUME NEW v \in Visitors PROVE VisitOK(v)'
  <2>1. \A x \in Codes : /\ IsActive(x) /\ x # c => IsActive(x)'
                         /\ Exists(x) => Exists(x)'
                         /\ Inactive(x)' => \/ x = c /\ dead'[x] = 0
                                            \/ Inactive(x) /\ dead'[x] = dead[x]
    BY <1>5, <1>7 DEF IsActive, Exists, Inactive
  <2>2. visit'[v].age \in Nat
    BY <1>6, ResolutionAssumption DEF Visit
  <2> QED BY <1>6, <2>1, <2>2 DEF Inv, VisitOK, VisitAt
<1>12. ASSUME NEW p \in Owners PROVE ChangeOK(p)'
  <2>1. CASE change'[p] = NoChange
    BY <2>1 DEF ChangeOK, NoChange
  <2>2. CASE change'[p] = change[p]
    <3>1. \A u \in Users : Owned(u) \subseteq Owned(u)'
      BY <1>4, <1>5 DEF Owned, Exists
    <3> QED BY <2>2, <3>1, <1>2, <1>10 DEF Inv, ChangeOK
  <2> QED BY <1>8, <2>1, <2>2
<1>13. ASSUME NEW x \in Codes PROVE LinkOK(x)'
  <2>1. CASE x # c
    BY <2>1, <1>2, <1>5, <1>7, <1>10
    DEF Inv, LinkOK, Inactive, Exists, IsActive
  <2>2. CASE x = c
    <3>1. ~overlap => cache[c] = 0 /\ \A v \in Visitors : ~Holder(v, c)
      BY <1>1 DEF Inv, ChangeOK, CommitDeactivation
    <3>2. cache[c] + 0 <= Ttl + MaxHold
      BY ResolutionAssumption DEF Inv, TypeOK
    <3> QED BY <2>2, <3>1, <3>2, <1>2, <1>7, <1>10 DEF LinkOK
  <2> QED BY <2>1, <2>2
<1> QED BY <1>9, <1>11, <1>12, <1>13 DEF Inv

\* Creating a row, or reactivating one, activates a link.
LEMMA CreateStep ==
  ASSUME Inv, NEW u \in Users, NEW d \in Urls,
         CreateNew(u, d) \/ CreateReactivating(u, d)
  PROVE  Inv'
<1>1. UNCHANGED <<cache, change>>
  BY DEF CreateNew, CreateReactivating
<1>2. CASE CreateNew(u, d)
  <2>1. PICK c \in Codes : ~Exists(c) /\ AddLink(c, u, d) /\ Activated(c)
    BY <1>2 DEF CreateNew
  <2>2. links' \in [Codes -> Link \cup {None}]
    BY <2>1, RowsTyped DEF Inv
  <2>3. links'[c] = [owner |-> u, url |-> d, status |-> "ACTIVE"]
    BY <2>1 DEF AddLink, Inv, TypeOK
  <2>4. links'[c] # None
    BY <2>3, LinkTableAssumption
  <2>5. \A x \in Codes : x # c => links'[x] = links[x]
    BY <2>1 DEF AddLink, Inv, TypeOK
  <2> QED
    BY <1>1, <2>1, <2>2, <2>3, <2>4, <2>5, ActivationStep
    DEF IsActive, Exists, Inv, TypeOK
<1>3. CASE CreateReactivating(u, d)
  <2>1. PICK c \in Codes : /\ Exists(c) /\ links[c].owner = u
                           /\ SetStatus(c, "ACTIVE") /\ Activated(c)
    BY <1>3 DEF CreateReactivating, LinksTo, Owned
  <2>2. /\ links' \in [Codes -> Link \cup {None}]
        /\ links' = [links EXCEPT ![c] = [owner |-> links[c].owner,
                                 url |-> links[c].url, status |-> "ACTIVE"]]
    BY <2>1, RowsTyped DEF Inv, Status
  <2>3. links'[c] = [owner |-> links[c].owner, url |-> links[c].url,
                     status |-> "ACTIVE"]
    BY <2>2 DEF Inv, TypeOK
  <2>4. /\ \A x \in Codes : x # c => links'[x] = links[x]
        /\ IsActive(c)' /\ links'[c].owner = links[c].owner
    BY <2>1, <2>2, <2>3, LinkTableAssumption
    DEF IsActive, Exists, Inv, TypeOK, Link, Status
  <2> QED
    BY <1>1, <2>1, <2>2, <2>4, ActivationStep DEF Inv, TypeOK
<1> QED BY <1>2, <1>3

-----------------------------------------------------------------------------
(* Time. *)

\* A tick ages a deactivation no faster than the reads made before it, and
\* takes from an entry what it adds to the age of its link's deactivation.
LEMMA TickStep ==
  ASSUME Inv, Tick
  PROVE  Inv'
<1>1. UNCHANGED <<links, change, raced>>
  BY DEF Tick
<1>2. \A c \in Codes :
        /\ cache[c] \in 0..Ttl /\ cache'[c] \in 0..Ttl
        /\ cache[c] = 0 => cache'[c] = 0
        /\ cache'[c] > 0 => cache[c] > 0 /\ cache'[c] + 1 = cache[c]
  BY ResolutionAssumption DEF Inv, TypeOK, Tick, OneTickLess
<1>3. cache' \in [Codes -> 0..Ttl]
  BY <1>2 DEF Tick
<1>4. \A c \in Codes :
        /\ dead[c] \in 0..Horizon /\ dead'[c] \in 0..Horizon
        /\ dead'[c] <= dead[c] + 1
  BY ResolutionAssumption DEF Inv, TypeOK, Tick, Horizon
<1>5. dead' \in [Codes -> 0..Horizon]
  BY <1>4 DEF Tick
<1>6. ASSUME NEW v \in Visitors
      PROVE  /\ visit'[v] \in Visit
             /\ visit'[v].at = visit[v].at /\ visit'[v].code = visit[v].code
             /\ visit'[v].alwaysLive = visit[v].alwaysLive
             /\ VisitAt(v, "set") => visit'[v].age = visit[v].age + 1
  <2>1. visit[v] \in Visit
    BY DEF Inv, TypeOK
  <2>2. CASE ~VisitAt(v, "set")
    BY <2>1, <2>2 DEF Tick
  <2>3. CASE VisitAt(v, "set")
    <3>1. visit'[v] = [visit[v] EXCEPT !.age = visit[v].age + 1]
      BY <2>3 DEF Tick
    <3>2. visit[v].age + 1 \in 0..MaxHold
      BY <2>1, <2>3, ResolutionAssumption DEF Tick, Visit
    <3> QED BY <2>1, <3>1, <3>2 DEF Visit
  <2> QED BY <2>2, <2>3
<1>7. visit' \in [Visitors -> Visit]
  BY <1>6 DEF Tick
<1>8. TypeOK'
  BY <1>1, <1>3, <1>5, <1>7 DEF Inv, TypeOK
<1>9. \A v \in Visitors, c \in Codes : Holder(v, c)' <=> Holder(v, c)
  BY <1>6 DEF Holder, VisitAt
<1>10. ASSUME NEW v \in Visitors PROVE VisitOK(v)'
  <2>1. PICK r \in Visit : r = visit[v]
    BY DEF Inv, TypeOK
  <2>2. r.age \in Nat
    BY ResolutionAssumption DEF Visit
  <2>3. VisitAt(v, "set") => r.code \in Codes
    BY <2>1 DEF Inv, VisitOK, VisitAt
  <2>4. VisitAt(v, "set") /\ Inactive(r.code) => dead'[r.code] <= r.age + 1
    BY <1>4, <2>1, <2>2, <2>3, ResolutionAssumption
    DEF Inv, VisitOK, VisitAt, Horizon
  <2> QED
    BY <1>1, <1>6, <2>1, <2>4
    DEF Inv, VisitOK, VisitAt, Inactive, Exists, IsActive
<1>11. \A o \in Owners : ChangeOK(o)'
  BY <1>1, <1>2, <1>9 DEF Inv, ChangeOK, Owned, Exists
<1>12. ASSUME NEW c \in Codes PROVE LinkOK(c)'
  <2>1. Inactive(c)' <=> Inactive(c)
    BY <1>1 DEF Inactive, Exists, IsActive
  <2>2. Inactive(c) /\ cache'[c] > 0 => cache'[c] + dead'[c] <= Ttl + MaxHold
    BY <1>2, <1>4, ResolutionAssumption DEF Inv, LinkOK, Horizon
  <2> QED BY <1>1, <1>2, <1>9, <2>1, <2>2 DEF Inv, LinkOK
<1> QED BY <1>8, <1>10, <1>11, <1>12 DEF Inv

-----------------------------------------------------------------------------
(* The invariant. *)

\* Nothing in flight, no entry, no link.
LEMMA InitInv == Init => Inv
<1> SUFFICES ASSUME Init PROVE Inv
  OBVIOUS
<1>1. TypeOK
  BY InitTyped
<1>2. \A v \in Visitors : visit[v] = NoVisit
  BY DEF Init
<1>3. \A v \in Visitors : VisitOK(v)
  BY <1>2 DEF VisitOK, NoVisit, VisitAt
<1>4. \A o \in Owners : ChangeOK(o)
  BY DEF Init, ChangeOK, NoChange
<1>5. \A c \in Codes : LinkOK(c)
  BY DEF Init, LinkOK, Inactive, Exists
<1> QED BY <1>1, <1>3, <1>4, <1>5 DEF Inv

\* The other steps of a resolution carry no read.
LEMMA LightResolveStep ==
  ASSUME Inv, NEW v \in Visitors,
         \/ StartVisit(v) \/ CacheHit(v) \/ CacheMiss(v) \/ CacheReadFails(v)
         \/ ReadMissing(v) \/ VisitorGone(v)
  PROVE  Inv'
<1>1. CASE StartVisit(v)
  <2>1. PICK c \in Codes, dd \in BOOLEAN, ll \in BOOLEAN :
          /\ ll => IsActive(c)
          /\ visit' = [visit EXCEPT ![v] =
                        [at |-> "get", code |-> c, age |-> 0,
                         alwaysDead |-> dd, alwaysLive |-> ll]]
    BY <1>1, Zenon DEF StartVisit, IsActive
  <2>2. [at |-> "get", code |-> c, age |-> 0,
         alwaysDead |-> dd, alwaysLive |-> ll] \in Visit
    BY ResolutionAssumption DEF Visit
  <2> QED BY <1>1, <2>1, <2>2, LocalVisitStep DEF StartVisit
<1>2. ASSUME NEW step \in {"read", "redirected", "missing"},
             VisitGoto(v, step), visit[v].at \in {"get", "read"},
             step = "missing" => ~IsActive(visit[v].code),
             UNCHANGED <<links, cache, change, dead, raced>>
      PROVE  Inv'
  <2>1. PICK r \in Visit : r = visit[v]
    BY DEF Inv, TypeOK
  <2>2. PICK rec \in Visit : /\ rec.at = step /\ rec.code = r.code
                             /\ rec.alwaysLive = r.alwaysLive
                             /\ rec = [visit[v] EXCEPT !.at = step]
    BY <2>1, MovedVisit, ZenonT(60) DEF Inv, Visit
  <2>3. visit' = [visit EXCEPT ![v] = rec]
    BY <1>2, <2>2, MovedVisit DEF Inv, VisitGoto
  <2>4. /\ r.code \in Codes
        /\ r.alwaysLive => IsActive(r.code)
    BY <1>2, <2>1 DEF Inv, VisitOK
  <2> QED BY <1>2, <2>1, <2>2, <2>3, <2>4, LocalVisitStep
<1>3. CASE CacheHit(v) \/ CacheMiss(v) \/ CacheReadFails(v) \/ ReadMissing(v)
  BY <1>2, <1>3
  DEF CacheHit, CacheMiss, CacheReadFails, FallBack, ReadMissing, VisitAt
<1>4. CASE VisitorGone(v)
  <2>1. NoVisit \in Visit
    BY ResolutionAssumption DEF NoVisit, Visit
  <2> QED BY <1>4, <2>1, LocalVisitStep DEF VisitorGone, NoVisit
<1> QED BY <1>1, <1>3, <1>4

\* Every step of the system keeps the invariant.
LEMMA NextInv == Inv /\ [Next]_vars => Inv'
<1> SUFFICES ASSUME Inv, [Next]_vars PROVE Inv'
  OBVIOUS
<1>1. ASSUME NEW v \in Visitors, Resolve(v) PROVE Inv'
  BY <1>1, ReadActiveStep, FillStep, LightResolveStep DEF Resolve
<1>2. ASSUME NEW o \in Owners, EndWithoutChange(o) PROVE Inv'
  BY <1>2, EndedChange, QuietStep DEF EndWithoutChange, Inv, TypeOK
<1>3. ASSUME NEW o \in Owners, ChangeStatus(o) PROVE Inv'
  BY <1>2, <1>3, AskStep, FindStep, InvalidateStep, InvalidateFailsStep,
     ReactivationStep, DeactivationStep
  DEF ChangeStatus
<1>4. ASSUME NEW c \in Codes, Evict(c) PROVE Inv'
  BY <1>4, DeletedEntry, QuietStep DEF Evict, Inv, TypeOK
<1>5. CASE UNCHANGED vars
  <2>1. UNCHANGED <<links, cache, visit, change, dead, raced>>
    BY <1>5 DEF vars
  <2> QED BY <2>1, QuietStep DEF Inv, TypeOK
<1> QED BY <1>1, <1>3, <1>4, <1>5, CreateStep, TickStep DEF Next

\* The invariant holds in every reachable state.
LEMMA Invariance == Spec => []Inv
<1> QED BY InitInv, NextInv, PTL DEF Spec

\* Whatever order resolutions, status changes, creations, evictions and ticks
\* come in, the variables of the services keep their types: a lifetime never
\* exceeds LINK_RESOLUTION_CACHE_TTL_SECONDS, a row keeps its shape.
THEOREM ResolutionTypeCorrect == Spec => []TypeOK
<1>1. Inv => TypeOK
  BY DEF Inv
<1> QED BY <1>1, Invariance, PTL

\* The late SET of LinksService.resolve is bounded: for every lifetime and any
\* number of requests, the entry of a deactivated link is gone Ttl + MaxHold
\* ticks after the deactivation.
THEOREM StaleEntryIsBounded == Spec => []StaleLifetime
<1>1. Inv => StaleLifetime
  BY DEF Inv, LinkOK, StaleLifetime
<1> QED BY <1>1, Invariance, PTL

\* LinksService.changeStatus deletes the entry before it commits, and that is
\* enough unless a resolution holds or makes a database read in between.
THEOREM UndisturbedDeactivation == Spec => []UndisturbedDeactivationIsFinal
<1>1. Inv => UndisturbedDeactivationIsFinal
  <2> SUFFICES ASSUME Inv, NEW c \in Codes, Inactive(c), cache[c] > 0
               PROVE  c \in raced
    BY DEF UndisturbedDeactivationIsFinal
  <2>1. LinkOK(c)
    BY DEF Inv
  <2> QED BY <2>1 DEF LinkOK
<1> QED BY <1>1, Invariance, PTL

\* LinksService.resolve falls back to the database on a miss and on every
\* failure of Redis, so a link that stays active is always found.
THEOREM LiveLinksAreFound == Spec => []LiveLinkIsFound
<1>1. Inv => LiveLinkIsFound
  BY DEF Inv, VisitOK, LiveLinkIsFound
<1> QED BY <1>1, Invariance, PTL
=============================================================================
