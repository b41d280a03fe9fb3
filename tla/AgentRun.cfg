SPECIFICATION Spec
CONSTANTS
  Windows = {2, 3}
  Keeps = {1, 2}
  Triggers = {2, 5}
  MaxSteps = 4
  MaxStepsAbsolute = 9
  Restarts = {1, 2}
  Iterations = {1, 2}
INVARIANTS TypeOK EveryTurnShownOnce WindowHolds
PROPERTIES SummariesFrozen RunEnds
CHECK_DEADLOCK FALSE
