CONSTANTS
  MaxUsize = 3
  Window = 4
  WindowPadding = 1
  ChunkPadding = 1
  Content = 7
  Options <- WholeOptions
  Languages <- MCLanguages
  Default = "en"
  Outcomes <- CalmOutcomes
  Times = {0, 2, 3}
  MaxSlices = 2
  MaxPasses = 4
  Characters = {"a", "b"}
  NameLength = 3
  Catalog <- MCCatalog
  Callers = {"c1", "c2"}
  FramesHeard = 3
  StretchesHeard = 1
  FrameSize = 3
  Blocks = {0, 1, 2, 7}
  MaxSamples = 10
  MaxStreams = 2
  MaxAudios = 3
  BatchSize = 2
  Ladder = 1
  WindowsOf = 2
SPECIFICATION CallSpec
INVARIANTS NothingIsSkipped
CHECK_DEADLOCK FALSE
