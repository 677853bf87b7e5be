CONSTANTS
  People = {p1, p2, p3}
  Totals = {5, 6, 9, 10}
  Lengths = {2, 3}
  None = None
SPECIFICATION Spec
SYMMETRY Symmetry
INVARIANTS TypeOK StageShape SparksCovered FallbackAgrees SetupStands GenerationBudget SecretUntilRolled EndingsByFraction
PROPERTIES RoundLocked ScoreKept
