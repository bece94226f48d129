SPECIFICATION FairSpec
CONSTANTS
  w1 = w1
  w2 = w2
  Dates <- OneDate
  MaxTracked = 1
  Runners <- TwoRunners
  Budget <- MCBudget
INVARIANT OneAccountPerRevision PublishedMarkIsTrue NeverBehindTheWorker
PROPERTY PublishedOnlyAdvances NewestIsPublished
