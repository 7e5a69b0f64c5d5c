SPECIFICATION Spec
CONSTANTS
  Handlers = {h1, h2}
  a1 = a1
  a2 = a2
  Accounts <- MCAccounts
  Sessions <- MCSessions
  Percents = {p1, p2}
  None = None
  ReleaseStages = {"signal", "automated_alpha"}
  Asked = {"previewAllocation", "joinTemplate", "updateAllocation", "leaveTemplate", "connectBroker", "syncBrokerConnection"}
  MaxRequests = 3
  MaxTroubles = 1
  MaxEvents = 1
SYMMETRY Symmetry
INVARIANTS ReceiptAgrees AnswersAreTrue GateHeld AppliedOnce
CHECK_DEADLOCK FALSE
