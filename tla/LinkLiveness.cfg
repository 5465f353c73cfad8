\* Liveness under contention for one account row; no symmetry.
CONSTANTS
  alice = alice
  bob = bob
  d1 = d1
  d2 = d2
  c1 = c1
  c2 = c2
  c3 = c3
  r1 = r1
  r2 = r2
  r3 = r3
  None = None
  Users <- OneUser
  Urls <- OneUrl
  Codes <- OneCode
  Clients <- ThreeClients
  MaxActive = 1
  MaxCodeAttempts = 2
SPECIFICATION FairSpec
PROPERTY EveryRequestAnswered
