SPECIFICATION FairSpec
CONSTANTS
  Word = 1000
  Sizes <- MCSizes
  Jobs = 2
  PartsPerJob = 2
  MaxRetries = 1
  ErrorLen = 1
INVARIANTS
  TypeOK
  AnsweredPartsAreThere
  RetriedIsWhole
  GivesUpOnlyOnFault
  RetriesNotLost
  NoJobOutlivesCall
PROPERTY
  Terminates
