CONSTANTS
  Tasks = {t1, t2}
  Instances = {1, 2}
  Ops = {"create", "start", "wait", "kill", "close_io", "delete"}
  Procs = {"init"}
  Restarts = FALSE
  Faults = FALSE
SPECIFICATION FairSpec
INVARIANTS StopsOwnInstance ReportedIsCleaned 
PROPERTIES RequestsReturn 
CHECK_DEADLOCK FALSE
