CONSTANTS
  Texts <- MCTexts
  Facts = {}
  Results <- MCResults
  RequestedCount = 2
  PrefillBudget = 1
  SampleTicks = 1
  InstantTicks = 3
  MaxKept = 3
  MaxWords = 3
  Instants = {0, 1}
  StrideSamples = 2
  Pushes = {0, 1, 4}
  MaxBuffer = 6
SPECIFICATION DriverSpec
INVARIANTS DriverInv SettledBehindWatermark TranscriptEndsWithHypothesis
PROPERTIES AdvanceIsSound RetryAsksTheSame PushTerminates PromiseKept
CHECK_DEADLOCK FALSE
