SPECIFICATION SampleSpec
CONSTANTS
  Data = {d1}
  NoData = NoData
  Block = 4
  LenBytes = 2
  MaxLines = 5
  MaxItems = 3
  MaxBytes = 11
INVARIANT
  TagsKeepTheirValues
CHECK_DEADLOCK FALSE
