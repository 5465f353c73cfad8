\* A session revoked, its cache entry deleted, and still admitted.
CONSTANTS
  u1 = u1
  s1 = s1
  s2 = s2
  t1 = t1
  t2 = t2
  t3 = t3
  r1 = r1
  r2 = r2
  c1 = c1
  None = None
  Users = {u1}
  Sessions = {s1, s2}
  Tokens = {t1, t2, t3}
  Requests = {r1, r2}
  Checks = {c1}
  Faults = FALSE
SPECIFICATION Spec
PROPERTY
  RevokedSessionIsRejected
