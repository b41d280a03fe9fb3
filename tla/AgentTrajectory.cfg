SPECIFICATION Spec
CONSTANTS
  MaxSteps = 3
  MaxResponseLength = 6
  ModelLens = {1, 2}
  EnvLens = {1, 3}
  StopLen = 1
  EnvRetries = 2
  RetryLimit = 2
INVARIANTS TypeOK LossOnOwnTurns BudgetHolds ResultIsJudged
PROPERTY Terminates
CHECK_DEADLOCK FALSE
