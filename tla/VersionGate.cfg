SPECIFICATION Spec
CONSTANTS
  Handlers = {h1, h2}
  Versions <- MCVersions
  Unparsable = Unparsable
  Null = Null
  MaxFailures = 2
INVARIANTS
  TypeOK
  ClosedGatesHold
  RefusalsJustified
