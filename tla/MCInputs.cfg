SPECIFICATION InputsSpec
CONSTANTS
  MaxTokenContext = 3
  Vocab = 4
  Receptive = 3
  Stride = 2
  MaxLogProbWidth = 2
  Width = 2
  SpecialTokens = 2
  CallSizes <- Sizes
  Loadable <- AnyModels
  WindowSamples = 4
  MinSamples = 2
  MaxSamples = 6
  Columns = 3
  TokenCeiling = 5
  ChunkLists <- Lists
  LongTexts <- SomeTexts
  EngageBytes = 2
  MaxTokenBytes = 4
  LiveSessions = 2
  MinCap = 5
  MaxCap = 6
  Window = 2
INVARIANTS OpenDoorsAnswer FittingModelsOpen FacesAndFramesHold InputsAreMeasured TextIsWhole
CHECK_DEADLOCK FALSE
