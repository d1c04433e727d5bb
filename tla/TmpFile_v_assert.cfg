SPECIFICATION TmpSpec
CONSTANTS
  c1 = c1
  c2 = c2
  c3 = c3
  Callers = {c1, c2, c3}
  Process <- Pids
  NAMELENGTH = 2
  RETRIES = 2
  MaxDescriptors = 2
  MaxTime = 0
SYMMETRY Symmetry
INVARIANTS
  AssertHolds
