SPECIFICATION AccountsSpec
CONSTANTS
  Attempts = {x1, x2, x3}
  MaxTime = 4
  MaxSecrets = 2
  MaxIssues = 2
  MaxVerifying = 2
  RecoveryCount = 1
  AccountLimit = 1
  IpLimit = 3
  Window = 1
  PendingTtl = 2
  MaxAttempts = 2
  Sids = {x1, x2, x3}
  Owners = {o1, o2}
  AbsoluteTtl = 2
  IdleTtl = 1
  SessionTime = 3
  Flows = {f1, f2}
  Callbacks = {c1, c2}
  Granted = {s1, s2}
  Users = {alice, bob}
  Nobody = nobody
  TwoFactor = {bob}
  FlowTtl = 1
  Skew = 0
  ReauthWindow = 1
  Latency = 1
  Never = never
  OidcTime = 3
  Regular = {r}
  Visitors = {x1, x2, x3}
  MaxAccounts = 2
  MaxIdentities = 3
  DemoLimit = 3
  OwnerSteps = 3
  o1 = o1
  None = None
SYMMETRY Symmetry
INVARIANTS TypeOK LoginSound RevokedStayOut OidcSound DataConsistent ServerSound
PROPERTY LoginSteps
CHECK_DEADLOCK FALSE
