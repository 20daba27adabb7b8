\* A worker without pong, and a late exit event.
SPECIFICATION Spec
CONSTANTS
  c1 = c1
  c2 = c2
  c3 = c3
  w1 = w1
  w2 = w2
  w3 = w3
  None = None
  Challenges <- OneChallenge
  Workers <- ThreeWorkers
  Concurrency = 1
  Slots = 1
  Operator <- NoOperation
  Faults <- OnlyLost
  Careful = TRUE
INVARIANT OneWorker
