\* One challenge, everything may fail once or twice.
SPECIFICATION FairSpec
CONSTANTS
  c1 = c1
  c2 = c2
  r1 = r1
  r2 = r2
  Challenges <- OneChallenge
  Reloads <- OneReload
  Policies <- AnyPolicy
  OffTopic <- OneChallenge
  Place <- PlaceOf
  Triage = 1
  MaxDownloads = 1
  MaxVersion = 2
  Faults <- AnyFault
  MaxFaults = 2
  Calm <- Both
  Contests <- Any
INVARIANTS
  PreparationInv
  WorksWithFiles
PROPERTIES
  NotSilentlyStale
  GetsPrepared
