\* One worker, one request at a time: an old login challenge comes back.
CONSTANTS
  x1 = x1
  x2 = x2
  r1 = r1
  r2 = r2
  w1 = w1
  w2 = w2
  None = None
  Placeholder = Placeholder
  Secrets = {x1, x2}
  Requests = {r1}
  Workers = {w1}
  MaxIssues = 2
  Deliveries = 1
  MaxFailures = 2
SPECIFICATION Spec
SYMMETRY MCSymmetry
INVARIANT
  NewChallengeReplacesOld
