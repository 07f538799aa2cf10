SPECIFICATION FairSpec
CONSTANTS
  Kinds = {"SAVE", "SAMPLED"}
  RingSize = 2
  CursorSpan = 4
  Span = 32
  DropMax = 1
  MaxEvents = 3
  SlotCount = 3
  IoFaults = TRUE
  DrainMax = 1
  InitialDumps <- MCDumps
  InitialReports <- MCReports
  MaxRuns = 1
INVARIANTS
  TypeOK
  RecordsWhole
  EmittedInOrder
  CriticalKept
  DumpFollows
PROPERTIES
  NewestKept
  RingIsQueue
  QueueDrains
  CrashReported
