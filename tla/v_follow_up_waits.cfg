SPECIFICATION FairSpec
CONSTANTS
  a = a
  b = b
  u1 = u1
  u2 = u2
  Scopes <- MCScopes
  Facts <- OneFact
  Legacy <- OneFact
  Runs <- TwoRuns
  BootDrain = FALSE
  Budget <- Unbound
PROPERTY ChangesFinish
CHECK_DEADLOCK FALSE
