SPECIFICATION Spec
CONSTANTS
  Ids <- MCIds
  Dates <- MCDates
  Hours <- OneHour
  DateOf <- MCDateOf
  DateOfHour <- MCDateOfHour
  HoursOf <- MCHoursOf
  Zero <- FirstIsZero
  RowOf <- MCRowOf
  Views <- MCViews
  Order <- MCOrder
  Syncs <- OneSync
  StaleLock = FALSE
  Pressure <- Nowhere
  MaxAge = 0
  Budget <- RepairLateRefuse
INVARIANT CountedOnce
