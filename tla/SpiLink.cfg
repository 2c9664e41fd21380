SPECIFICATION FairSpec
CONSTANTS
    slaves = 2
    d_width = 2
    Z = Z
    Dividers = {0, 2}
    Addresses = {1, 3}
    MaxWords = 2
INVARIANTS TypeOK SelectsTheAddressed
PROPERTIES WordsDelivered ClockWellFormed
