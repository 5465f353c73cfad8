\* Counters that run out while two clients keep sending requests.
CONSTANTS
  register = register
  alice = alice
  ip1 = ip1
  r1 = r1
  r2 = r2
  None = None
  Accounts = {alice}
  Ips = {ip1}
  Operations = {register}
  Requests = {r1, r2}
  Hour = 2
  LoginWindow = 1
  EmailLimit = 2
  IpLimit = 1
  LoginLimit = 2
  MaxFailures = 2
SPECIFICATION MCSpec
INVARIANTS
  TypeOK
  BurstIsBounded
  LockFollowsFailures
PROPERTIES
  LoginNeedsAttemptsLeft
  LimitsRunOut
