SPECIFICATION TransfersSpec
CONSTANTS
  Word = 1000
  MaxTotal = 20
  MaxJobs = 4
  MaxParts = 4
  Calls <- MCCalls
  JobIds = {j1}
  MaxRetries <- MCBudgets
  Threads = {t1, t2}
  Fds = {3, 4, 5}
  MaxTries = 2
  Free = Free
  Clients = {c1, c2, c3}
  NoOne = NoOne
  MaxFailures = 2
INVARIANTS
  SafeTransfersTile
  OnlySafeTransfersTile
  BudgetPerReset
  BudgetSinceReset
  AloneSpendsAll
  OnlyUnbufferedStrays
  OwnBytes
  DescriptorsAccounted
  HandlesNeedLibrary
  CleanedUp
PROPERTIES
  Terminates
  PartsTerminate
