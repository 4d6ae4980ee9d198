CONSTANTS
  Words <- MCWords
  Blank = 0
  EndToken = 2
  StartOfTranscript = 3
  Languages <- MCLanguages
  TaskTokens <- MCTaskTokens
  StartOfPrev = 8
  NoTimestamps = 9
  TimeBegin = 10
  LastTime = 13
  Multilingual = TRUE
  MaxContext = 12
  Window = 3
  Options <- PlainOptions
  Troubled = {}
  Sampleable = {1, 2, 10, 11, 12, 13}
  SampleLength = 9
  Step = 4
  Cs = 2
  MedianCap = 8
  HalfSecond = 4
SPECIFICATION DecodeSpec
INVARIANTS WindowAdvances
CHECK_DEADLOCK FALSE
