SPECIFICATION Spec
CONSTANTS
  Devs = {0}
  NumSems = 15
  PoolSize = 14
  Bsps = {"linux"}
  Unknown = {}
INVARIANTS
  LoadedUsable
