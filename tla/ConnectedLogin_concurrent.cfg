SPECIFICATION FairSpec
CONSTANTS
  Handlers = {h1, h2}
  Sids = {s1, s2}
  Results = {r1}
  None = None
  MaxCrashes = 1
INVARIANTS AtMostOneSession ProviderAskedOnce
PROPERTIES ImplementsLogin RecoveryReturnsSession RevokedForGood 
