SPECIFICATION FairSpec
CONSTANTS
  ana = ana
  bo = bo
  Senders = {ana, bo}
  LastTurn = 3
  SenderOf <- MostlyAna
  PoolSize = 2
  GlobalCap = 2
  PerSenderCap = 2
  MayDrain = TRUE
CHECK_DEADLOCK FALSE
INVARIANTS QueuedIsCarried GateCounts AnsweredInOrder
PROPERTIES TurnIsHeardOf
