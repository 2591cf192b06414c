SPECIFICATION Spec
CONSTANTS
  Key <- OneKey
  Longer <- Beginnings
  Value = {v1, v2}
  Permission = {EatCake}
  Empty = Empty
  Backend = {"postgres"}
  Array <- Arrays
  QueriesFail = FALSE
  MaxCalls = 1
  MaxCloses = 1
INVARIANTS GetReturnsClosest
