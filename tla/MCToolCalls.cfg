SPECIFICATION Spec
CONSTANTS
  Threads = {t1, t2, t3}
  None = None
  Tools <- MCTools
  Intents <- MCIntents
INVARIANT ExecutorIsShared
PROPERTY SearchesEnd
CHECK_DEADLOCK FALSE
