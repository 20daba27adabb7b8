SPECIFICATION FairSpec
CONSTANTS
  t1 = t1
  t2 = t2
  MaxReviews = 2
  MaxNews = 1
  Room = 1
  Modes <- LlmModes
  Ticks <- TwoTicks
  Scenes <- Both
  Policies <- Fetching
  Faults <- AnyFault
  MaxFaults = 2
INVARIANTS
  AdviceInv
  OncePerState
PROPERTIES
  ReviewsArrive
  HintArrives
