SPECIFICATION Spec
CONSTANTS
  Key <- OneKey
  Longer <- Beginnings
  Value = {v1, v2}
  Permission = {EatCake}
  Empty = Empty
  Backend = {"sqlite", "postgres", "mongo"}
  Array <- Arrays
  QueriesFail = FALSE
  MaxCalls = 3
  MaxCloses = 1
INVARIANTS TypeOK OpenIsComplete OpenFailsOnlyAfterTornUpgrade FullScopeGets NetworkGets SqliteGrants 
PROPERTIES SqliteImplements MongoImplements
