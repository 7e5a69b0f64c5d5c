SPECIFICATION FairSpec
CONSTANTS
  Calls = {c1, c2}
  MaxReadRetries = 1
  ReadBudget = 2
  ConnectTimeout = 1
  Margin = 2
  TokenLife = 3
  AssertionLife = 3
  MetadataTimeout = 1
  MaxJitter = 1
  None = None
INVARIANT FreshOnTheWire
PROPERTIES OneDeadline SaidIsTrue WaitsEnd
