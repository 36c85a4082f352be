SPECIFICATION Spec
CONSTANTS
  MaxExecCCDepth = 2
  MaxAnswers = 5
  MaxCounted = 2
INVARIANTS
  OneResponse
  WarnsWhenNothingIsShown
  RecordInOrder
PROPERTIES
  GivesWhatDiscordTakes
CHECK_DEADLOCK FALSE
