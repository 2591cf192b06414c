SPECIFICATION Spec
CONSTANTS
  File <- SomeFiles
  Missing = Missing
  None = None
  Null = Null
  DatabaseAt = {d1, d2}
  NetworkAt = {o1, o2}
  Supported = {"sqlite"}
  MaxEdits = 2
INVARIANTS DatabaseServed
