SPECIFICATION Spec
CONSTANTS
  Resources <- MCResources
  URIs <- MCURIs
  MaxVersions = 3
  MaxFaults = 0
  MaxChanges = 2
  MaxOutside = 0
  Serial = FALSE
INVARIANT OwnVersionRecorded
CHECK_DEADLOCK FALSE
