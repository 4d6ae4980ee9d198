CONSTANTS
  FrameSamples = 2
  FramesPerSecond = 2
  RequiredSegments = 1
  UseVad = TRUE
  MayPanic = TRUE
  Pushes = {3, 5}
  Considered <- MCConsidered
  Rounding = 1
  PassSegments <- MCPassSegments
  Texts = {1}
  Fallbacks = {0}
  WaitingText = 2
  MaxBuffer = 15
  MaxInstant = 16
  MaxStashed = 1
  Short = {6, 10}
  Long = {9}
SPECIFICATION Spec
INVARIANTS SessionHolds PushTellsTheTruth
PROPERTIES MarksMoveWithTheirAudio PromiseKept
CHECK_DEADLOCK FALSE
