SPECIFICATION FairSpec
CONSTANTS
  SETUP_LIMIT = 9
  SELECT_TIMEOUT = 5
  SLEEP = 2
  Lines <- MCLines
  Digits <- MCDigits
  Zero <- MCZero
  MaxLines = 2
  MaxRepeats = 1
CHECK_DEADLOCK FALSE
INVARIANTS
  TypeOK
  LifeCycleKept
  PublishedFromOneLine
PROPERTIES
  ConfigureReturns
  TimerReturns
