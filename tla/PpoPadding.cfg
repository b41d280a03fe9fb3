SPECIFICATION PpoSpec
CONSTANTS
  Prompts = 2
  Samples = 2
  MaxSteps = 2
  MaxBlank = 1
  Modes = {"broadcast"}
  WorldSizes = {3}
INVARIANT PaddingIsMasked
CHECK_DEADLOCK FALSE
