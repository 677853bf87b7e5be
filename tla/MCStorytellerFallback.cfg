CONSTANTS
  ann = ann
  ben = ben
  stranger = stranger
  None = None
  Words <- MCWords
  Expected <- MCExpected
  Opening <- MCOpening
  Answers <- MCAnswers
  MaxRounds = 3
  NarrativeLimit = 3
  MaxCrashes = 0
SPECIFICATION Spec
INVARIANTS
  FallbackStandsAlone
CHECK_DEADLOCK FALSE
