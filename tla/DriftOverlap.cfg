CONSTANTS
  Interval = {interval}
  Task = {}
  Ingest = {}
  Demand = {demand}
  Reload = {}
  Writer = {}
  Health = {}
  MaxCalls = 1
  MaxEdits = 0
  None = None
  Asker = {a}
  Bad = {1}
  MaxData = 1
SPECIFICATION DriftSpec
INVARIANT PendingUntilChecked
