CONSTANTS
  MaxCreates = 2
  MaxShutdowns = 2
  MaxRequests = 3
  MaxOom = 1
  MESSAGE_BUFFER_SIZE = 1
SPECIFICATION FairShimSpec
INVARIANTS
  
  
  CrashIsClean
PROPERTIES
  ShutdownEnds
CHECK_DEADLOCK FALSE
