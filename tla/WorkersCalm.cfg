\* Workers crash at any moment; the human stops what runs.
SPECIFICATION Spec
CONSTANTS
  c1 = c1
  c2 = c2
  c3 = c3
  w1 = w1
  w2 = w2
  w3 = w3
  None = None
  Challenges <- ThreeChallenges
  Workers <- ThreeWorkers
  Concurrency = 2
  Slots = 2
  Operator <- SomeOperations
  Faults <- OnlyCrash
  Careful = TRUE
INVARIANTS
  PlacesAreKept
  WorkFollowsStatus
PROPERTIES
  CrewSpec
SYMMETRY Symmetric
