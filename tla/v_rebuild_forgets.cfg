SPECIFICATION Spec
CONSTANTS
  Ids <- ThreeIds
  Dates <- MCDates
  Hours <- ThreeHours
  DateOf <- MCDateOf
  DateOfHour <- MCDateOfHour
  HoursOf <- TwoOneOne
  Zero <- FirstIsZero
  RowOf <- MCRowOf
  Views <- MCViews
  Order <- DayAndHours
  Syncs <- OneSync
  StaleLock = FALSE
  Pressure <- Nowhere
  MaxAge = 0
  Budget <- OneRepair
INVARIANT PendingKeepsKeyDirty
