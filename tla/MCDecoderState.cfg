CONSTANTS
  MaxContext = 4
  LoopBound = 4
  SampleLength = 3
  HasAlignment = TRUE
  Tokens = {t1, t2}
  Audio = {a1, a2}
  Nothing = Nothing
  Aligners <- MCAligners
  Languages = {"en", "ja"}
  Texts <- MCTexts
  ModelWindow = 3
  ReceptiveField = 2
  Hop = 1
  Lengths = {0, 1, 3, 4}
  MaxSets = 2
  MaxRegistered = 2
  MaxSettings = 2
SPECIFICATION MCSpec
INVARIANTS DecoderInv RowsAreOwn GatherIsSwifts AlignersHold SettingsHold
PROPERTIES PassIsAutoregressive
CHECK_DEADLOCK FALSE
