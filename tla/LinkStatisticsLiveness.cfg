\* Every job settles and every raw row goes.
CONSTANTS
  a1 = a1
  a2 = a2
  l1 = l1
  br = br
  unknown = unknown
  p1 = p1
  p2 = p2
  w1 = w1
  w2 = w2
  f1 = f1
  f2 = f2
  None = None
  Accesses = {a1}
  Links = {l1}
  Countries = {br}
  Visitors = {p1}
  MaxDay = 1
  MonthOf <- MCMonthOf
  Workers = {w1, w2}
  Finalizers = {f1, f2}
  MaxAttempts = 2
  MaxStalls = 1
  MaxSends = 2
SPECIFICATION FairSpec
PROPERTIES
  EveryJobSettles
  RawRowsAreDeleted
