\* Recording and closing, with duplicate deliveries and failures.
CONSTANTS
  a1 = a1
  a2 = a2
  l1 = l1
  br = br
  unknown = unknown
  p1 = p1
  p2 = p2
  w1 = w1
  w2 = w2
  f1 = f1
  f2 = f2
  None = None
  Accesses = {a1, a2}
  Links = {l1}
  Countries = {br, unknown}
  Visitors = {p1}
  MaxDay = 1
  MonthOf <- MCMonthOf
  Workers = {w1, w2}
  Finalizers = {f1}
  MaxAttempts = 2
  MaxStalls = 1
  MaxSends = 1
SPECIFICATION Spec
SYMMETRY MCSymmetry
INVARIANTS
  TypeOK
  AggregatesExact
  ClosedDayHasNoRawRows
  CompletedIsCountedOrLate
PROPERTIES
  ClosedDaysAreFrozen
  ImplementsLedger
