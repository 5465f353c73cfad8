----------------------------- MODULE LinkTable -----------------------------
(***************************************************************************)
(* The "links" table of PostgreSQL and the vocabulary the link modules     *)
(* share.  A row is keyed by its short code: the column carries a unique   *)
(* index, never changes and no code path deletes a link, so the row's uuid *)
(* and its short code identify each other.                                 *)
(***************************************************************************)
EXTENDS Naturals, FiniteSets

CONSTANTS Users,      \* accounts that own links
          Urls,       \* destination URLs, in DestinationUrl's canonical form
          Codes,      \* short codes (six characters of A-Z and 0-9)
          MaxActive,  \* MAX_ACTIVE_LINKS_PER_USER
          None        \* no row, no holder

ASSUME LinkTableAssumption ==
  /\ IsFiniteSet(Codes)
  /\ MaxActive \in Nat
  /\ None \notin [owner: Users, url: Urls, status: {"ACTIVE", "DEACTIVATED"}]
  /\ None \notin Codes

VARIABLE links

Status == {"ACTIVE", "DEACTIVATED"}

Link == [owner: Users, url: Urls, status: Status]

Exists(c) == links[c] # None

IsActive(c) == Exists(c) /\ links[c].status = "ACTIVE"

Owned(u) == {c \in Codes : Exists(c) /\ links[c].owner = u}

\* countActiveLinks
ActiveLinks(u) == {c \in Owned(u) : IsActive(c)}

\* The rows a lookup by (userId, destinationUrl) returns.
LinksTo(u, d) == {c \in Owned(u) : links[c].url = d}

\* A limit read as "more than" instead of "at least".
RoomOffByOne(u) == Cardinality(ActiveLinks(u)) <= MaxActive

\* The test both transactions make before a link becomes active.
Room(u) == Cardinality(ActiveLinks(u)) < MaxActive

AddLink(c, u, d) ==
  links' = [links EXCEPT ![c] = [owner |-> u, url |-> d, status |-> "ACTIVE"]]

SetStatus(c, s) == links' = [links EXCEPT ![c].status = s]
=============================================================================
