CONSTANTS
  Words <- MCWords
  Blank = 0
  EndToken = 2
  StartOfTranscript = 3
  Languages <- MCLanguages
  TaskTokens <- MCTaskTokens
  StartOfPrev = 8
  NoTimestamps = 9
  TimeBegin = 10
  LastTime = 12
  Multilingual = TRUE
  MaxContext = 10
  Window = 3
  Options <- MCOptions
  Troubled <- TroubledOptions
  Sampleable = {1, 2, 5, 10, 11, 12}
  SampleLength = 9
  Step = 4
  Cs = 2
  MedianCap = 8
  HalfSecond = 4
SPECIFICATION MCSpec
INVARIANTS DecodeHolds NothingFallsBetweenWindows AlignmentHolds
CHECK_DEADLOCK FALSE
