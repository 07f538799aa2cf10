SPECIFICATION Spec
CONSTANTS
  MaxSession = 2
  MaxGen = 1
  MaxId = 2
  SeqMax = 3
  Capacity = 1
  MaxCell = 2
  Names <- MCOnlyNoName
  Configs <- MCConfigs
  Builds <- MCBuilds
  NoName = NoName
  Blank = Blank
  IoFaults = TRUE
  NameGenMax = 1
  InitialCards <- MCStrangeCards
  UserCommands = {"EXPORT", "IMPORT"}
  PowerFails = FALSE
INVARIANTS
  TypeOK
  NoBadResponse
  WorkerIdleBetweenRequests
  SlotOwnership
  SlotIntact
PROPERTIES
  PublishedWhole
  ExportTruth
  ImportAtomic
