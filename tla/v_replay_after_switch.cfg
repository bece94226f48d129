SPECIFICATION Spec
CONSTANTS
  a = a
  b = b
  u1 = u1
  u2 = u2
  Scopes <- MCScopes
  Facts <- TwoFacts
  Legacy <- NoLegacy
  Runs <- OneRun
  BootDrain = TRUE
  Budget <- Boots
INVARIANT NoForeignFacts
