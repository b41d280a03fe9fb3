CONSTANTS
  MaxSteps = 2
  MaxResponseLength = 4
  ModelLens = {1, 2}
  EnvLens = {1, 3}
  StopLen = 1
  EnvRetries = 2
  RetryLimit = 2
SPECIFICATION Spec
CHECK_DEADLOCK FALSE
INVARIANT NoContainerIsTrue
