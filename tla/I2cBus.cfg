SPECIFICATION FairSpec
CONSTANTS
    divider = 2
    Width = 2
    OpenDrain = TRUE
    Commands <- AllCommands
    Words <- SomeWords
    HoldsRequest = TRUE
    WaitsForIdle = TRUE
    X = X
INVARIANTS TypeOK BusyRisesOnce
PROPERTIES BusRules BytesCross BytesComplete
