SPECIFICATION PpoSpec
CONSTANTS
  Prompts = 2
  Samples = 2
  MaxSteps = 2
  MaxBlank = 1
  Modes = {"token", "broadcast", "mc_return"}
  WorldSizes = {2, 3}
INVARIANTS PpoTypeOK RowsBelong AdvantageIsOwn UpdateIsWhole CrashCauses
CHECK_DEADLOCK FALSE
