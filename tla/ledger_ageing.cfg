SPECIFICATION Spec
CONSTANTS
  Ids <- MCIds
  Dates <- MCDates
  Hours <- OneHour
  DateOf <- MCDateOf
  DateOfHour <- MCDateOfHour
  HoursOf <- MCHoursOf
  Zero <- NoZero
  RowOf <- MCRowOf
  Views <- MCViews
  Order <- MCOrder
  Syncs <- OneSync
  StaleLock = FALSE
  Pressure <- Nowhere
  MaxAge = 2
  Budget <- NoFault
INVARIANT CleanMeansDelivered PendingKeepsKeyDirty
