SPECIFICATION Spec
CONSTANTS
  Ids <- MCIds
  Dates <- MCDates
  Hours <- NoHour
  DateOf <- MCDateOf
  DateOfHour <- MCDateOfHour
  HoursOf <- MCHoursOf
  Zero <- NoZero
  RowOf <- MCRowOf
  Views <- MCViews
  Order <- MCOrder
  Syncs <- OneSync
  StaleLock = FALSE
  Pressure <- Everywhere
  MaxAge = 0
  Budget <- PressAndCrash
INVARIANT FactsPreserved UnackedStaysQueued UploadedIsOnServer AcksAreTrue
PROPERTY NeverDroppedSilently
