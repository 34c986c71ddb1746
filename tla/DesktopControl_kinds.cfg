SPECIFICATION FairSpec
CONSTANTS
  c1 = c1
  c2 = c2
  g1 = g1
  g2 = g2
  w1 = w1
  w2 = w2
  Commands = {c1, c2}
  Grants = {g1}
  Workers = {w1}
  NoCommand = NoCommand
  NoGrant = NoGrant
  Kind <- NativeAndDryRun
  SigningReady = {"observe", "native"}
  PendingTtl = 2
  Leases = {1}
  GrantLives = {2}
  Budgets = {1}
  LastEnqueue = 1
  MaxClock = 3
CHECK_DEADLOCK FALSE
INVARIANTS EnvelopeFitsApproval
PROPERTIES QueueDrains
