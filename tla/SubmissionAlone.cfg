SPECIFICATION FairSpec
CONSTANTS
  f1 = f1
  f2 = f2
  NoFlag = NoFlag
  Flags <- TwoFlags
  Good <- First
  Strong <- TwoFlags
  Judged = TRUE
  AutoSubmit = TRUE
  MaxWrong = 1
  Operator <- NoOperation
  Retryable <- AnyRow
  TornAnswers = FALSE
  MaxCredit = 3
  MaxInFlight = 1
INVARIANTS
  DrivenOnce
PROPERTIES
  DocketSpec
  OutcomeIsFinal
  SubmittingResolves
