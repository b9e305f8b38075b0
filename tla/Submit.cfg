SPECIFICATION Spec
CONSTANTS
  t1 = t1
  t2 = t2
  User <- MCUser
  Id <- MCId
  Body <- MCBody
  MaxLines = 3
  Thread <- MCThread
  Click <- MCClick
  Once <- MCOnce
  MaxPerViewer = 2
  LockCap = 1
  Arc <- MCArc
  MaxExits = 1
SYMMETRY Symmetry
INVARIANTS
  AckedSurvive
  OnceOnly
  QuotaHeld
  RememberedOnce
PROPERTY
  Promise
CHECK_DEADLOCK FALSE
