SPECIFICATION MCSpec
CONSTANTS
  ChunkSamples = 13
  ChunkFrames = 4
  FrameStep = 3
  FrameDuration = 4
  OuterWindows = 2
  NumSlots = 2
  MinClean = 1
  MinActive = 1
  MaxOutputFrames = 10
  MaxChunks = 5
  MaxTensorBytes = 300
  RowBytes = 8
  MaxClusterId = 1
  OuterStride = 4
  Asks <- MCAsks
  MaxRetries = 1
  Scorings = {"cosine", "plda"}
  RowLength <- MCRowLength
  MinCohortScores = 2
  TopN = 2
  HeldOuts <- MCHeldOuts
  MaxEntries = 3
  MaxTokens = 2
INVARIANTS ExtractionsHold NoPhantomSpeaker SidesKeepApart
