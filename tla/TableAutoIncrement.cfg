SPECIFICATION Spec
CONSTANTS
  Null = Null
  Unknown = Unknown
  Kinds <- TableKind
  Names = {"n1", "n2"}
  Keys = {"k"}
  ManagedKey = "m"
  CatalogKey = "location"
  Members = {"x", "y"}
  ManagedKinds <- AddedKinds
  AutoIncrements = {TRUE}
  MaxEdits = 1
  MaxOutside = 0
  MaxFaults = 0
  MaxApplies = 1
PROPERTY ColumnsAppliedInPlace
