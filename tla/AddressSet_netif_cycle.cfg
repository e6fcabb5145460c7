CONSTANTS
  Addr = {1, 2}
  V4 <- MCV4Both
  GroupOf <- MCGroupDistinct
SPECIFICATION Spec
INVARIANT NetifListAcyclic
