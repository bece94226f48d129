SPECIFICATION Spec
CONSTANTS
  Modes = {study, rest}
  Unknown = unknown
  FirstMode = study
  MaxTime = 5
  Checkpoint = 2
  Repair = 1
  Stale = 1
  MaxChanges = 1
  MaxFaults = 0
INVARIANT SegmentsKeepTheirMode
CHECK_DEADLOCK FALSE
