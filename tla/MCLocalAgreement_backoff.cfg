CONSTANTS
  Texts <- MCTexts
  Facts = {}
  Results <- MCResults
  RequestedCount = 1
  PrefillBudget = 2
  SampleTicks = 2
  InstantTicks = 1
  MaxKept = 4
  MaxWords = 3
  Instants = {0, 1, 2}
  MCWords <- TimedWords
SPECIFICATION Spec
INVARIANTS HoldbackOfferable
PROPERTIES NoAvoidableStrand HoldbackEmptiesOnlyOverBudget
CHECK_DEADLOCK FALSE
