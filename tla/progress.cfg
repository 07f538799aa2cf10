SPECIFICATION FairSpec
CONSTANTS
  MaxSession = 2
  MaxGen = 1
  MaxId = 1
  SeqMax = 2
  Capacity = 1
  MaxCell = 1
  Names <- MCOnlyNoName
  Configs <- MCConfigs
  Builds <- MCOneBuild
  NoName = NoName
  Blank = Blank
  IoFaults = TRUE
  NameGenMax = 1
  InitialCards <- MCForeignCard
  UserCommands = {"EXPORT", "IMPORT", "CATALOG"}
  PowerFails = FALSE
PROPERTIES
  RequestsEnd
  StartupEnds
