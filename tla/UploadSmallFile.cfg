SPECIFICATION Spec
CONSTANTS
  Word = 1000
  FileSize = 9
  Jobs = 2
  PartsPerJob = 4
  MaxRetries = 0
  NoPart = NoPart
  NoObject = NoObject
  NoList = NoList
INVARIANT
  EveryObjectIsSource
