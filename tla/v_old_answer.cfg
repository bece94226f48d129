SPECIFICATION Spec
CONSTANTS
  Ids <- MCIds
  Dates <- MCDates
  Hours <- NoHour
  DateOf <- MCDateOf
  DateOfHour <- MCDateOfHour
  HoursOf <- MCHoursOf
  Zero <- NoZero
  RowOf <- MCRowOf
  Views <- MCViews
  Order <- MCOrder
  Syncs <- TwoSyncs
  StaleLock = TRUE
  Pressure <- Nowhere
  MaxAge = 0
  Budget <- NoFault
INVARIANT CleanMeansDelivered
