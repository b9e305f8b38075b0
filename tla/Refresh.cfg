CONSTANTS
  Interval = {interval}
  Task = {task}
  Ingest = {ingest}
  Demand = {}
  Reload = {reload}
  Writer = {w1}
  Health = {health}
  MaxCalls = 1
  MaxEdits = 1
  None = None
SPECIFICATION Spec
INVARIANTS
  RunningSetServed
  FreshOnReturn
  FailuresCounted
  WishesKept
PROPERTY NeverBackwards
