SPECIFICATION Spec
CONSTANTS
  Keys = {"k1"}
  Vals = {0, 1}
  SeqMax = 2
  Missing = Missing
  Damaged = Damaged
  Setups = {"default", "player"}
  DefaultSetup = "default"
  Defaults <- MCDefaults
  LauncherWrites = TRUE
  IoFaults = FALSE
  PowerFails = TRUE
  MaxRuns = 2
  InitialCards <- MCUsedCards
PROPERTIES
  LauncherSettingsKept
