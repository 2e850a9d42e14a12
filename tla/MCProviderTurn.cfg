SPECIFICATION FairSpec
CONSTANTS
  Formats <- MCFormats
  Tries = 2
  Errors <- MCErrors
  MaxTokens = 2
INVARIANT
  AnswerOfOneResponse
PROPERTY
  TurnEnds
CHECK_DEADLOCK FALSE
