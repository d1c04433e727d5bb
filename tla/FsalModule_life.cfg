SPECIFICATION ModuleSpec
CONSTANTS
  t1 = t1
  t2 = t2
  t3 = t3
  e1 = e1
  e2 = e2
  Threads = {t1, t2, t3}
  Exports = {e1, e2}
  HoldsModule = TRUE
SYMMETRY Symmetry
INVARIANTS
  RequestsFindLibrary
  NoneSkipped
  ExportsAccounted
