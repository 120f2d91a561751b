SPECIFICATION Spec
CONSTANTS
  Data = {d1, d2}
  NoData = NoData
INVARIANTS
  MethodKept
  
  OwnBuffers
  ReturnsAnswered
  ResultIsOwnAnswer
