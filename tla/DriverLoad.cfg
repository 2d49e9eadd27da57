SPECIFICATION Spec
CONSTANTS
  Devs = {0, 1}
  NumSems = 3
  PoolSize = 5
  Bsps = {"contract", "linux"}
  Unknown = {1}
INVARIANTS
  TypeOK
  ContractUsable
  NeverShared
  FailedLoadFreesAll
  UnloadCleansUp
PROPERTIES
  LoadsAreAtomic
