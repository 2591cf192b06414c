SPECIFICATION FairSpec
CONSTANTS
  File <- Files
  Missing = Missing
  None = None
  Null = Null
  DatabaseAt = {d1, d2}
  NetworkAt = {o1, o2}
  Supported = {"sqlite"}
  MaxEdits = 2
INVARIANTS TypeOK ConfigIsDeclared WellFormedIsRead LoadedIsConsistent CommFollowsDatabase NetworksOwned ReferencesStayValid
PROPERTIES ReloadHonoured
