CONSTANTS
  Checker = {runner}
  Channels = 2
  Hash = {h1, h2}
  NoRows = NoRows
  MaxExits = 0
SPECIFICATION Spec
INVARIANT ResolvedTold
