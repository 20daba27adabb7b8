SPECIFICATION MCSpec
CONSTANTS
  MaxRestarts = 4
  TrialBound = 12
  SmallPrimes = {2, 3, 5}
  SmallESteps = 64
  FermatSteps = 120
  LogBound = 4
  DefaultModulus = 8
  m1 = m1
  m2 = m2
  m3 = m3
  p1 = p1
  p2 = p2
  None = None
  Order <- MCOrder
  Providers = {p1, p2}
  ProviderOf <- MCProviderOf
  Name <- MCName
  Sees = {m2}
  Inquiries <- MCInquiries
INVARIANTS
  ColumnsFollow
  CanStillBeSolved
  AlgorithmsAreRight
  FilesAreWhole
  PlatformsAreBelieved
  ModelsServe
  CatalogIsUsable
CHECK_DEADLOCK FALSE
