SPECIFICATION Spec
CONSTANTS
  Clients = {c1}
  LastPort = 2
  SerdesPort = 1
  Calls <- AllCalls
  Failing = {"set", "get"}
INVARIANTS
  TypeOK
  ToldModeIsSet
  NoStrayWrite
  VlanIsDone
