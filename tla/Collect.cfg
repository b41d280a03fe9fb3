SPECIFICATION Spec
CONSTANTS
  N = 3
  ImageOf <- SharedImages
  MaxWorkers = 2
  PullWorkers = 1
  RetryFailed = TRUE
  KeepImages = FALSE
  MaxRuns = 2
INVARIANTS TypeOK RunningHasImage NoDuplicates ImageAccount
PROPERTIES QuarantineLosesNothing StreamEnds KeepsPromise
CHECK_DEADLOCK FALSE
