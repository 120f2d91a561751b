SPECIFICATION FairSpec
CONSTANTS
  Word = 1000
  FileSize = 7
  Jobs = 3
  PartsPerJob = 2
  MaxRetries = 2
  NoPart = NoPart
  NoObject = NoObject
  NoList = NoList
INVARIANTS
  TypeOK
  ObjectIsSource
  EtagsStayValid
  RetryBudget
  NoJobOutlivesCall
  FailsOnlyOnFault
PROPERTIES
  Terminates
  ImplementsAtomicUpload
  ImplementsSharedRetries
