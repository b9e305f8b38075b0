CONSTANTS
  Interval = {interval}
  Task = {}
  Ingest = {}
  Demand = {}
  Reload = {reload}
  Writer = {}
  Health = {}
  MaxCalls = 1
  MaxEdits = 1
  None = None
  Asker = {a}
  Bad = {1}
  MaxData = 1
SPECIFICATION FairDriftSpec
INVARIANTS
  CheckedUnlessOverlapped
  UntestedHasRun
  OwnAnswersChecked
PROPERTY AnswersResume
