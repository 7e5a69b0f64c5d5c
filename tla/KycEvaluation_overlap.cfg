SPECIFICATION Spec
CONSTANTS
  Handlers = {h1, h2}
  Keys = {k1, k2}
  Evals = {e1, e2}
  Webhooks = {w1}
  None = None
  MaxOverlaps = 1
  MaxCrashes = 1
  MaxDecisions = 1
  MaxDeliveries = 3
SYMMETRY Symmetry
INVARIANTS ExactlyOnce AuditMatchesRecord EvidenceBacked
PROPERTY TerminalNeverRegresses
CHECK_DEADLOCK FALSE
