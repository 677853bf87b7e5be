CONSTANTS
  Callers = {ann, ben}
  Capacity = 1
  Limit = 2
  Window = 2
  MaxTime = 3
  Words <- MCWords
  Texts <- MCTexts
  None = None
SPECIFICATION SupportSpec
INVARIANTS
  AdmittedBound
  AnsweredDraftsKept
  NoSecretKept
  RefusalsExplained
