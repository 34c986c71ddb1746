SPECIFICATION Spec
CONSTANTS
  ana = ana
  bo = bo
  Senders = {ana, bo}
  LastTurn = 2
  SenderOf <- MostlyAna
  PoolSize = 1
  GlobalCap = 2
  PerSenderCap = 1
  MayDrain = TRUE
CHECK_DEADLOCK FALSE
INVARIANTS DrainLeavesNoneQueued FallbackMeansNoReply
