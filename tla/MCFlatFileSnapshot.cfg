SPECIFICATION Spec
CONSTANTS
  Blocks = {g, b1, b2}
  Genesis = g
  App = app
  Cursor = cursor
  Readers = {r1}
  Units = 2
  MaxFileSize = 4
  MaxFaults = 1
  MaxCrashes = 1
  PowerLoss = TRUE
INVARIANT
  SnapshotSeesCommitted
CHECK_DEADLOCK FALSE
