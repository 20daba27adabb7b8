SPECIFICATION FairSpec
CONSTANTS
  Contents = {"x", "y"}
  MaxCalls = 3
  MaxFaults = 2
  Faults = {"crash", "torn", "hang", "nospawn", "full"}
  Paths <- MCPaths
  Calls <- MCCalls
INVARIANTS
  ToolsInv
  
PROPERTIES
  EffectsHappen
  CallsReturn
CHECK_DEADLOCK FALSE
