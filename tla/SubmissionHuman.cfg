SPECIFICATION Spec
CONSTANTS
  f1 = f1
  f2 = f2
  NoFlag = NoFlag
  Flags <- TwoFlags
  Good <- First
  Strong <- First
  Judged = TRUE
  AutoSubmit = TRUE
  MaxWrong = 1
  Operator <- NoPark
  Retryable <- DocumentedRows
  TornAnswers = FALSE
  MaxCredit = 2
  MaxInFlight = 1
INVARIANTS
  BudgetKept
  NothingHangsUnseen
