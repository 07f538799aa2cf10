SPECIFICATION Spec
CONSTANTS
  MaxSession = 3
  MaxGen = 1
  MaxId = 1
  SeqMax = 3
  Capacity = 1
  MaxCell = 1
  Names <- MCOnlyNoName
  Configs <- MCTwoConfigs
  Builds <- MCOneBuild
  NoName = NoName
  Blank = Blank
  IoFaults = TRUE
  NameGenMax = 1
  InitialCards <- MCEmptyCard
  UserCommands = {"EXPORT"}
  PowerFails = TRUE
INVARIANTS
  Protocol
  KeyOutlivesArchives
