SPECIFICATION Spec
CONSTANTS
  Plugin = {p1, p2}
  Pid = {c1, c2}
  NoPid = NoPid
  BaseWait = 1
  MaxWait = 3
  ResetFailure = 4
  GraceSeconds = 1
  IntBits = 32
  Throwing = {p1}
  DuplicateNames = TRUE
  Observed = {p1, p2}
  Quantum = 1
  MaxFailures = 3
SYMMETRY Symmetry
INVARIANTS IInv RestartsSpreadOut
