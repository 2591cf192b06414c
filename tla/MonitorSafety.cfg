SPECIFICATION FairSpec
CONSTANTS
  Plugin = {p1, p2}
  Pid = {c1, c2}
  NoPid = NoPid
  BaseWait = 1
  MaxWait = 1
  ResetFailure = 1
  GraceSeconds = 1
  IntBits = 32
  Throwing = {}
  DuplicateNames = FALSE
  Observed = {}
  Quantum = 1
  MaxFailures = 1
INVARIANTS TypeOK PidTable NoLostChild NoForgottenPlugin ReloadStops OnlyConfiguredRun
PROPERTIES ChildrenReaped PluginsRestarted
