SPECIFICATION Spec
CONSTANTS
  Keys = {"k1"}
  Vals = {0, 1}
  SeqMax = 2
  Missing = Missing
  Damaged = Damaged
  Setups = {"default", "player"}
  DefaultSetup = "default"
  Defaults <- MCDefaults
  LauncherWrites = FALSE
  IoFaults = TRUE
  PowerFails = TRUE
  MaxRuns = 3
  InitialCards <- MCCards
INVARIANTS
  TypeOK
  SavedMeansStored
  LineOwned
PROPERTIES
  RegisterImplemented
