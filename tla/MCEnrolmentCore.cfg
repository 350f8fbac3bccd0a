SPECIFICATION Spec
CONSTANTS
  Machines = {"m1", "m2"}
  NodeKeys = {"a", "b", "c"}
  Users = {1, 2}
  Tags = {"t", "u"}
  Routes = {"r"}
  KeyIDs = {1, 2, 3}
  KeyOf <- MCKeyOf
  TagOwners <- MCTagOwners
  AutoRoutes = {"r"}
  DefaultExpiry = 0
  Last4 = 6
  Last6 = 5
  ReservedIPs = {3}
  Strategy = "sequential"
  Callers = {c1, c2}
  Requests <- MCRequests
  InitRows <- MCInitRows
  InitKeys <- MCInitKeys
  MaxOps = 3
  MaxTime = 2
  MaxFaults = 1
SYMMETRY Symmetry
CHECK_DEADLOCK FALSE
INVARIANTS OwnedXorTagged SingleUse NodesDistinct RowsSound
PROPERTIES InvalidKeysChangeNothing
