SPECIFICATION Spec
CONSTANTS
  Null = Null
  Unknown = Unknown
  Kinds <- IdentityKinds
  Names = {"n1", "n2"}
  Keys = {"k"}
  ManagedKey = "m"
  CatalogKey = "location"
  Members = {"x", "y"}
  ManagedKinds <- AddedKinds
  AutoIncrements = {FALSE}
  MaxEdits = 2
  MaxOutside = 2
  MaxFaults = 1
  MaxApplies = 1
INVARIANT UpdateUnreachable
