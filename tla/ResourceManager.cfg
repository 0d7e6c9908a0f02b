CONSTANTS
  c1 = c1
  c2 = c2
  p1 = p1
  p2 = p2
  Containers = {c1, c2}
  Paths = {p1, p2}
  Ids = {1, 2, 3, 4}
  VcpusOf <- MCVcpusOf
  MoreVcpus = 3
  DefaultVcpus = 2
  MaxVcpus = 4
  MaxCreates = 4
SPECIFICATION Spec
SYMMETRY Sym
INVARIANTS
  IndexUnique
  AttachedWhileHeld
  
CHECK_DEADLOCK FALSE
