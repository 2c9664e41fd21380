SPECIFICATION Spec
CONSTANTS
    BufLen = 3
    RxDepth = 1
    TxDepth = 1
    Timeout = 1
    Counts = {1, 4}
    MaxIn = 3
    MaxOut = 4
INVARIANTS TypeOK InOrder NoLostWakeUp CallerKnows
PROPERTIES EverythingArrives CallsEnd
