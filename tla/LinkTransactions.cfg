\* Safety and the refinement of LinkRegistry.
CONSTANTS
  alice = alice
  bob = bob
  d1 = d1
  d2 = d2
  c1 = c1
  c2 = c2
  c3 = c3
  r1 = r1
  r2 = r2
  r3 = r3
  None = None
  Users <- MCUsers
  Urls <- MCUrls
  Codes <- MCCodes
  Clients <- MCClients
  MaxActive = 1
  MaxCodeAttempts = 2
SPECIFICATION Spec
SYMMETRY MCSymmetry
INVARIANTS
  TypeOK
  ActiveLimit
  NoDuplicateInsert
  LockedReadsStayTrue
PROPERTIES
  LinkIdentityKept
  ImplementsRegistry
