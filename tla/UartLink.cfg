SPECIFICATION FairSpec
CONSTANTS
    DBIT = 2
    SB_TICK = 16
    Width = 2
    ReadsNext = FALSE
    M = 2
    MaxDrift = 7
    MaxWords = 2
INVARIANTS TypeOK
PROPERTIES ImplementsChannel InStep EveryWordArrives
