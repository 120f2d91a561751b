SPECIFICATION Spec
CONSTANTS
  Word = 1000
  Sizes <- MCSizes
  Jobs = 2
  PartsPerJob = 2
  MaxRetries = 1
  ErrorLen = 1
INVARIANT
  RetriesWithinMax
