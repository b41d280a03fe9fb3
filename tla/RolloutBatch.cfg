SPECIFICATION Spec
CONSTANTS
  Envs = {e1, e2, e3}
  Sentinel = None
  EnvRetries = 2
  RetryLimit = 2
INVARIANTS TypeOK ResultsOnce RunningIsServed
PROPERTY BatchSettles
CHECK_DEADLOCK FALSE
