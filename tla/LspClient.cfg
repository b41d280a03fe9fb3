SPECIFICATION Spec
CONSTANTS
  Tools = {t1}
  MaxAsked = 3
INVARIANTS TypeOK RepliesMatch ShutdownUnheard
PROPERTY CallsEnd
CHECK_DEADLOCK FALSE
