SPECIFICATION FairSpec
CONSTANTS
  a = a
  b = b
  u1 = u1
  u2 = u2
  Scopes <- MCScopes
  Facts <- OneFact
  Legacy <- NoLegacy
  Runs <- TwoRuns
  BootDrain = TRUE
  Budget <- BootWaits
INVARIANT NothingLost ArchivesAreOwn
PROPERTY ChangesFinish
