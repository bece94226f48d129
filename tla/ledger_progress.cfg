SPECIFICATION FairSpec
CONSTANTS
  Ids <- MCIds
  Dates <- MCDates
  Hours <- NoHour
  DateOf <- MCDateOf
  DateOfHour <- MCDateOfHour
  HoursOf <- MCHoursOf
  Zero <- NoZero
  RowOf <- MCRowOf
  Views <- MCViews
  Order <- MCOrder
  Syncs <- OneSync
  StaleLock = FALSE
  Pressure <- Nowhere
  MaxAge = 0
  Budget <- OneCrash
PROPERTY PendingIsUploaded DirtyIsCleared JournalDrains
