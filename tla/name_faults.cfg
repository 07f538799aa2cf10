SPECIFICATION Spec
CONSTANTS
  MaxSession = 1
  MaxGen = 1
  MaxId = 1
  SeqMax = 2
  Capacity = 1
  MaxCell = 1
  Names <- MCNames
  Configs <- MCConfigs
  Builds <- MCOneBuild
  NoName = NoName
  Blank = Blank
  IoFaults = TRUE
  NameGenMax = 2
  InitialCards <- MCEmptyCard
  UserCommands = {"EXPORT", "CATALOG", "RENAME", "DELETE"}
  PowerFails = FALSE
PROPERTIES
  StoreImplemented
  ExportTruth
