SPECIFICATION Spec
CONSTANTS
  w1 = w1
  w2 = w2
  Dates <- TwoDates
  MaxTracked = 1
  Runners <- OneRunner
  Budget <- MCBudget
INVARIANT OneAccountPerRevision
