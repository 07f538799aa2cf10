SPECIFICATION FairSpec
CONSTANTS
  Keys = {"k1", "k2"}
  Vals = {0, 1}
  SeqMax = 2
  Missing = Missing
  Damaged = Damaged
  Setups = {"default", "player"}
  DefaultSetup = "default"
  Defaults <- MCDefaults
  LauncherWrites = TRUE
  IoFaults = FALSE
  PowerFails = FALSE
  MaxRuns = 1
  InitialCards <- MCCards
PROPERTIES
  UntouchedKept
  LauncherSettingsKept
  EditsReachCard
