CONSTANTS
  Req = {1, 2, 3}
  Keys = {1, 2}
  TKeys = {1}
  SizeOf <- MCSizeOf
  Cap = 4
  None = None
SPECIFICATION SortedSpec
INVARIANTS
  NoForeignCancellation
  WaitersCounted
  SingleFlight
  InterruptOnlyAbandoned
  NoLostWakeup
  NewestSurvives
  NoStaleFlight
PROPERTIES
  InterruptReachesOwnQuery
  SupersededAnswers
  AbandonedEnds
  OnlyQueriesBlock
