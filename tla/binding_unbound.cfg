SPECIFICATION Spec
CONSTANTS
  a = a
  b = b
  u1 = u1
  u2 = u2
  Scopes <- MCScopes
  Facts <- TwoFacts
  Legacy <- OneFact
  Runs <- TwoRuns
  BootDrain = FALSE
  Budget <- Unbound
INVARIANT NoForeignFacts AcksStayHome
CHECK_DEADLOCK FALSE
