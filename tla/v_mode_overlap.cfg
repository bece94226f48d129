SPECIFICATION Spec
CONSTANTS
  Modes = {study, rest}
  Unknown = unknown
  FirstMode = study
  MaxTime = 4
  Checkpoint = 2
  Repair = 1
  Stale = 1
  MaxChanges = 2
  MaxFaults = 0
INVARIANT BoundaryAlwaysKeepsOldMode
CHECK_DEADLOCK FALSE
