SPECIFICATION Spec
CONSTANTS
  Envs = {e1, e2}
  Sentinel = None
  EnvRetries = 1
  RetryLimit = 1
PROPERTY ConsumerEnds
CHECK_DEADLOCK FALSE
