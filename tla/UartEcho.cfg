SPECIFICATION Spec
CONSTANTS
    divisor = 4
    HalfBit = 4
    ndbits = 1
    Words <- AllWords
    BitLengths = {40, 43, 46}
    AvoidsTick = TRUE
INVARIANTS TypeOK
PROPERTIES InStep WordsEchoed
