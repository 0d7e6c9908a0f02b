CONSTANTS
  Execs = {"e1"}
  Waiters = {"w1", "w2"}
SPECIFICATION FairSpec
INVARIANTS
  InStep
  ExitRecorded
  WaitersGetCode
PROPERTIES
  WaitEnds
  LockReleased
CHECK_DEADLOCK FALSE
