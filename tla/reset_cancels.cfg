SPECIFICATION Spec
CONSTANTS
  MaxSession = 2
  MaxGen = 1
  MaxId = 1
  SeqMax = 2
  Capacity = 1
  MaxCell = 1
  Names <- MCOnlyNoName
  Configs <- MCConfigs
  Builds <- MCOneBuild
  NoName = NoName
  Blank = Blank
  IoFaults = FALSE
  NameGenMax = 1
  InitialCards <- MCEmptyCard
  UserCommands = {"EXPORT", "IMPORT"}
  PowerFails = FALSE
PROPERTIES
  ResetCancelsTransfers
