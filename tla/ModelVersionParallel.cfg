SPECIFICATION Spec
CONSTANTS
  Resources <- MCResources
  URIs <- MCURIs
  MaxVersions = 4
  MaxFaults = 0
  MaxChanges = 3
  MaxOutside = 1
  Serial = FALSE
INVARIANT TypeOK
PROPERTY NeverOlderThanOwn
CHECK_DEADLOCK FALSE
