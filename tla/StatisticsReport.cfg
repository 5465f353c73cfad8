\* Reports of every kind of period, while accesses are recorded.
CONSTANTS
  a1 = a1
  a2 = a2
  l1 = l1
  br = br
  unknown = unknown
  p1 = p1
  alice = alice
  bob = bob
  None = None
  Accesses = {a1, a2}
  Links = {l1}
  Countries = {br, unknown}
  Visitors = {p1}
  Days <- MCDays
  Users = {alice, bob}
  OwnerOf <- MCOwnerOf
  QueryDates <- MCQueryDates
SPECIFICATION Spec
SYMMETRY MCSymmetry
INVARIANTS
  TypeOK
  ValidationIsExact
  SeriesAreDense
  LaterStatementsSeeMore
  QuietReportAddsUp
