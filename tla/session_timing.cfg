SPECIFICATION Spec
CONSTANTS
  Modes = {study, rest}
  Unknown = unknown
  FirstMode = study
  MaxTime = 4
  Checkpoint = 3
  Repair = 2
  Stale = 2
  MaxChanges = 2
  MaxFaults = 1
INVARIANTS OnlyElapsedTime CountedOnceButForEstimates FaultsCountAtMostAnInterval BoundaryKeepsOldMode ConsumedBoundarySplits
PROPERTIES SettledBeforeReplaced
CHECK_DEADLOCK FALSE
