SPECIFICATION FairSpec
CONSTANTS
  Handlers = {h1, h2}
  Keys = {k1, k2}
  Evals = {e1}
  Webhooks = {w1}
  None = None
  MaxOverlaps = 0
  MaxCrashes = 1
  MaxDecisions = 1
  MaxDeliveries = 2
PROPERTY MissedWebhookRecovered
CHECK_DEADLOCK FALSE
