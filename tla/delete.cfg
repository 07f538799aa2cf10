SPECIFICATION Spec
CONSTANTS
  MaxSession = 2
  MaxGen = 1
  MaxId = 2
  SeqMax = 2
  Capacity = 1
  MaxCell = 1
  Names <- MCNames
  Configs <- MCConfigs
  Builds <- MCOneBuild
  NoName = NoName
  Blank = Blank
  IoFaults = FALSE
  NameGenMax = 1
  InitialCards <- MCFullCards
  UserCommands = {"CATALOG", "RENAME", "DELETE"}
  PowerFails = TRUE
PROPERTIES
  StoreImplemented
  DeleteExact
  PageExact
