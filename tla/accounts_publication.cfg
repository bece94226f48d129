SPECIFICATION Spec
CONSTANTS
  p1 = p1
  p2 = p2
  Devices <- MCDevices
  Dates <- MCDates
  Revisions <- MCRevisions
  Publishers <- MCPublishers
  Manifests <- MCManifests
  Lossy <- MCLossy
  Faults = 2
SYMMETRY MCSymmetry
INVARIANT CompleteDayIsCurrent CompleteWeekIsCurrent OnlyPublishedIsSummed
PROPERTY HeadsOnlyAdvance ImplementsProfileAccounts
