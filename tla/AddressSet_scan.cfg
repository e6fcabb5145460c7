CONSTANTS
  Addr = {1, 2, 3, 4}
  V4 = {4}
  GroupOf <- MCGroupShared
SPECIFICATION Spec
INVARIANT IpsSortedUnique
PROPERTY ScanRefinesGroups
