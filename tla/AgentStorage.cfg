CONSTANTS
  c1 = c1
  c2 = c2
  c3 = c3
  p1 = p1
  p2 = p2
  Cids = {c1, c2, c3}
  Paths = {p1, p2}
  Block = {p1}
  Unnamed = {p2}
  Requests <- MCRequests
SPECIFICATION Spec
SYMMETRY Sym
INVARIANTS
  OneCreator
  RefsExact
  LiveMounted
  NoMissedUevent
CHECK_DEADLOCK FALSE
