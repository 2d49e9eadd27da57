SPECIFICATION FairSpec
CONSTANTS
  Threads = {t1, t2}
  Units <- MCUnits
  Program <- MCProgram
  CarefulOps <- MCCareful
  Fields <- MCFields
  Settings = {"mode", "split", "hash"}
  Reset <- MCReset
  Values <- MCValues
  Past = "past"
  None = None
INVARIANTS
  TypeOK
  SemPaired
  NoOverrun
  OwnOperands
  OwnAnswer
  PutBack
PROPERTIES
  SettingsKept
  CallsReturn
