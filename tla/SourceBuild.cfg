CONSTANTS
  Interval = {interval}
  Task = {}
  Ingest = {ingest}
  Demand = {}
  Reload = {}
  Writer = {w1}
  Health = {health}
  MaxCalls = 1
  MaxEdits = 0
  None = None
  Copier = {c1, c2}
  MaxBuilds = 2
  MaxWrites = 1
SPECIFICATION FairSourceSpec
INVARIANTS
  SlotsExact
  StuckShows
  FreshOnReturn
PROPERTIES
  CallsEnd
  BatchesShown
