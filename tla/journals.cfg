SPECIFICATION FairSpec
CONSTANTS
  Journals = {"PB", "PROGRESS", "TARGETS"}
  Span = 8
  MaxVersion = 4
  MaxFaults = 2
  InitialFiles <- MCFiles
  MaxRuns = 2
CHECK_DEADLOCK FALSE
INVARIANTS
  TypeOK
  FilesWhole
  ShownSaved
  ResetSticks
PROPERTIES
  NewerFormatKept
  JournalsImplemented
  EditsSaved
