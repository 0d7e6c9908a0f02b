CONSTANTS
  Tasks = {t1, t2}
  Instances = {1}
  Ops = {"create", "start", "exec", "wait", "pause", "resume", "update", "delete"}
  Procs = {"init", "exec"}
  Restarts = TRUE
  Faults = TRUE
SPECIFICATION Spec
INVARIANTS CleanedOnce
SYMMETRY TaskSymmetry
CHECK_DEADLOCK FALSE
