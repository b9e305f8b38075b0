SPECIFICATION PageSpec
CONSTANTS
  User <- MCUser
  Id <- MCId
  Body <- MCBody
  MaxLines = 3
  Table <- MCTable
  Key <- MCKey
  Field <- MCField
  Thread <- MCThread
  Reader <- MCReader
  Click <- MCClick
  Base <- MCBase
  MaxExits = 0
  Page <- MCPage
  TabOf <- MCTabOf
  Reading <- MCReading
INVARIANT
  EditsKept
CHECK_DEADLOCK FALSE
