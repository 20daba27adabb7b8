SPECIFICATION FairSpec
CONSTANTS
  m1 = m1
  m2 = m2
  p1 = p1
  p2 = p2
  None = None
  Order <- MCOrder
  Providers = {p1, p2}
  ProviderOf <- MCProviderOf
  Name <- MCName
  Sees = {m2}
  Env = "unset"
  AllowMock = {TRUE, FALSE}
  Questions = {"q1"}
  MaxVision = 1
  Operator = {"pause", "restart", "switch", "hint", "edit", "flag"}
  Faults = {"crash", "http", "slow"}
  MaxRows = 2
  MaxOrders = 1
  MaxEdits = 1
  MaxFaults = 1
  MaxLooks = 2
INVARIANTS SessionsInv VisionWithinBudget
PROPERTIES KeepsStory StopEnds PersistedArrives
CHECK_DEADLOCK FALSE
