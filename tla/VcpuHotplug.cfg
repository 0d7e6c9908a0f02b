CONSTANTS
  BootVcpus = 1
  MaxVcpus = 2
  MaxBreaks = 1
  MaxOps = 3
  SERVER_MAX_RECONNECT_TIME = 1
SPECIFICATION FairSpec
INVARIANTS
  TidsOfPresent
  OnlineHaveThreads
  OneAnswerPending
PROPERTIES
  
  ResizeEnds
