\* Two requests at a time and two workers that process their jobs.
CONSTANTS
  x1 = x1
  x2 = x2
  r1 = r1
  r2 = r2
  w1 = w1
  w2 = w2
  None = None
  Placeholder = Placeholder
  Secrets = {x1, x2}
  Requests = {r1, r2}
  Workers = {w1, w2}
  MaxIssues = 2
  Deliveries = 1
  MaxFailures = 1
SPECIFICATION Spec
SYMMETRY MCSymmetry
INVARIANTS
  TypeOK
  OneSecretWorks
  LockedLoginFails
PROPERTIES
  SerialRunsKeepNewer
  SecretUsedOnce
