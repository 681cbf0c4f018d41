SPECIFICATION Spec
CONSTANTS
  Resources <- MCResources
  URIs <- MCURIs
  MaxVersions = 4
  MaxFaults = 2
  MaxChanges = 4
  MaxOutside = 0
  Serial = TRUE
INVARIANT OwnVersionRecorded
CHECK_DEADLOCK FALSE
