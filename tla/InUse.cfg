SPECIFICATION Spec
CONSTANTS
  Names <- MCNames
  Comments <- MCComments
  MaxFaults = 2
  MaxChanges = 3
  OutsideNames <- MCOneName
INVARIANTS
  TypeOK
  InServiceAsRecorded
  AppliedMeansConverged
  NothingOrphaned
PROPERTIES
  FailedLeavesService
  ForgottenOnlyWhenGone
  NonEmptyOnlyByForce
  DisabledOnlyOnRequest
CHECK_DEADLOCK FALSE
