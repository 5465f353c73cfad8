\* The resolution cache against status changes and creations.
CONSTANTS
  alice = alice
  bob = bob
  d1 = d1
  c1 = c1
  v1 = v1
  v2 = v2
  v3 = v3
  o1 = o1
  o2 = o2
  None = None
  Users <- MCUsers
  Urls <- MCUrls
  Codes <- MCCodes
  Visitors <- MCVisitors
  Owners <- MCOwners
  MaxActive = 1
  Ttl = 2
  MaxHold = 2
SPECIFICATION Spec
SYMMETRY MCSymmetry
INVARIANTS
  TypeOK
  StaleLifetime
  UndisturbedDeactivationIsFinal
  LiveLinkIsFound
