SPECIFICATION Spec
CONSTANTS
  User <- MCUser
  Id <- MCId
  Body <- MCBody
  MaxLines = 3
  Worker <- MCWorker
  Click <- MCClick
INVARIANT
  StopKeepsAll
