CONSTANTS
  ann = ann
  ben = ben
  stranger = stranger
  None = None
  Words <- MCWords
  Expected <- MCExpected
  Opening <- MCOpening
  Answers <- MCAnswers
  MaxRounds = 3
  NarrativeLimit = 3
  MaxCrashes = 1
SPECIFICATION Spec
INVARIANTS
  TypeOK
  StoryMatchesRounds
  EveryPlayerTold
PROPERTIES
  ToldAsChronicle
  RoundEnds
CHECK_DEADLOCK FALSE
