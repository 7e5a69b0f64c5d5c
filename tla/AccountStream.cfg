SPECIFICATION Spec
CONSTANTS
    Personas = {"invited", "admitted"}
    MaxTime = 2
    Resettable = {"invited"}
    MaxEdits = 1
    Legs = 1
    PatchLegs = {1}
    FirstFill = 1
    NextFill = 1
    ValidateAfter = 1
    SyncAfter = 2
    Projections = {"activity"}
    Replay = 1
    MaxDrops = 1
CHECK_DEADLOCK FALSE
INVARIANTS NothingSkipped LogTellsRecords StepsInOrder
PROPERTIES SignalsReachPage
