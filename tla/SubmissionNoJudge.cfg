SPECIFICATION Spec
CONSTANTS
  f1 = f1
  f2 = f2
  NoFlag = NoFlag
  Flags <- TwoFlags
  Good <- First
  Strong <- First
  Judged = FALSE
  AutoSubmit = TRUE
  MaxWrong = 1
  Operator <- NoReconsider
  Retryable <- AnyRow
  TornAnswers = TRUE
  MaxCredit = 2
  MaxInFlight = 1
INVARIANTS
  OnlyTheHumanActs
