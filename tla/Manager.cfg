SPECIFICATION FairSpec
CONSTANTS
  c1 = c1
  c2 = c2
  Challenges <- TwoChallenges
  Score <- Scores
  Found <- FoundTimes
  Concurrency = 1
  MaxCandidates = 2
  Answers <- StartOrHold
  Touched <- OnlyFirst
  Modes <- OnOff
INVARIANTS
  ManagerInv
PROPERTIES
  HumanDecides
  FallbackStarts
  ReplanSpec
