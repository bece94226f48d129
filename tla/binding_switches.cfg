SPECIFICATION Spec
CONSTANTS
  a = a
  b = b
  u1 = u1
  u2 = u2
  Scopes <- MCScopes
  Facts <- TwoFacts
  Legacy <- OneFact
  Runs <- OneRun
  BootDrain = FALSE
  Budget <- Switches
INVARIANT OwnFactsOnly OneBook
PROPERTY SameScopeContinues ImplementsScopedBooks
