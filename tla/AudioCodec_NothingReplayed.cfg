SPECIFICATION Spec
CONSTANTS
    Depth = 6
    Margin = 1
    FifoDepth = 4
    FrameLens = {2, 3}
INVARIANT NothingReplayed
