SPECIFICATION Spec
CONSTANTS
  Null = Null
  Confs <- MCConfs
  MaxRuns = 3
  MaxPolls = 2
  MaxFaults = 2
  MaxEdits = 2
INVARIANT TypeOK
PROPERTIES
  ForgottenIsStopping
  TemplateRefusedForAReason
  DestroyReturns
CHECK_DEADLOCK FALSE
