SPECIFICATION FormatsSpec
CONSTANTS
  Data = {d1}
  NoData = NoData
  Block = 4
  LenBytes = 2
  MaxLines = 5
  MaxItems = 3
  MaxBytes = 11
  MaxSize = 13
  MaxRoom = 3
  BufSize = 8
INVARIANTS
  DigestsAreStandard
  SettingsRead
  SignatureVerifies
  RecordsRead
  AnswersRead
  BodyIsRange
  HashIsOfFile
