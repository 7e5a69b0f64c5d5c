SPECIFICATION Spec
CONSTANTS
  Handlers = {h1, h2}
  Refs = {r1}
  Patches = {p, q}
  Connections = {x}
  MaxVersion = 2
  MaxDisclosure = 2
  MaxCrashes = 1
  None = None
SYMMETRY Symmetry
INVARIANTS ConsentBehindChange IntentBound ConfirmedIsApplied FailedNotApplied
PROPERTIES RetryFindsResult
