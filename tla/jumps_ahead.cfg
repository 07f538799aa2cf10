SPECIFICATION Spec
CONSTANTS
  Kinds = {"WARP", "SAMPLED"}
  RingSize = 2
  CursorSpan = 4
  Span = 32
  DropMax = 1
  MaxEvents = 3
  SlotCount = 3
  IoFaults = FALSE
  DrainMax = 1
  InitialDumps <- MCDumps
  InitialReports <- MCReports
  MaxRuns = 0
PROPERTIES
  SamplesWait
