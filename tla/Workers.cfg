\* Everything goes wrong.
SPECIFICATION FairSpec
CONSTANTS
  c1 = c1
  c2 = c2
  c3 = c3
  w1 = w1
  w2 = w2
  w3 = w3
  None = None
  Challenges <- OneChallenge
  Workers <- TwoWorkers
  Concurrency = 2
  Slots = 2
  Operator <- AnyOperation
  Faults <- AnyFault
  Careful = FALSE
INVARIANTS
  WorkersInv
PROPERTIES
  TickEnds
