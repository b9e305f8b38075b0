SPECIFICATION Spec
CONSTANTS
  t1 = t1
  t2 = t2
  k1 = k1
  k2 = k2
  Thread <- MCThread
  Key <- MCKey
  Slot <- MCSlot
  Table <- MCTable
  MatCap = 1
  MaxLeft = 1
  None = None
  Request <- MCRequest
  WarmCap = 1
  Cap = 3
  Free1 = 1
  Sizes <- MCSizes
SYMMETRY Symmetry
INVARIANTS
  PoolClean
  OwnVariables
  BytesBounded
  TablesAccounted
