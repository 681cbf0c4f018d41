SPECIFICATION Spec
CONSTANTS
  Resources = {r1, r2}
  Names <- MCNames
  Inherited <- MCInherited
  Incompatible <- MCIncompatible
  Opaque <- MCOpaque
  Checked = TRUE
  NotTracked = NotTracked
  MaxFaults = 1
  MaxChanges = 2
  MaxOutside = 2
SYMMETRY Swapped
INVARIANT TypeOK
PROPERTIES
  UpdateConverges
  OnlySeenDetached
  DestroyDetaches
CHECK_DEADLOCK FALSE
