SPECIFICATION Spec
CONSTANTS
  Data = {d1}
  NoData = NoData
INVARIANT FunctionsAreUsed
