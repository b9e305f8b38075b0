SPECIFICATION Spec
CONSTANTS
  t1 = t1
  t2 = t2
  User <- MCUser
  Id <- MCId
  Body <- MCBody
  MaxLines = 3
  Table <- MCTable
  Key <- MCKey
  Field <- MCField
  Thread <- MCThread
  Reader <- MCReader
  Click <- MCClick
  Base <- MCBase
  MaxExits = 1
SYMMETRY Symmetry
INVARIANTS
  SavesChecked
  SavedOnce
  PanelsExact
CHECK_DEADLOCK FALSE
