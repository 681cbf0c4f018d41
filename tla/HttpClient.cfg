SPECIFICATION FairSpec
CONSTANTS
  Calls <- MCCalls
  MaxRetries = 3
  BaseDelay = 2
  MaxDelay = 40
  RetryAfters <- MCRetryAfters
INVARIANTS
  TypeOK
  PostAtMostOnce
  TruthfulOutcome
  SleepBounded
PROPERTIES
  NothingSentAfterCancel
  CallsReturn
  Implements
CHECK_DEADLOCK FALSE
