SPECIFICATION UseSpec
CONSTANTS
    Depth = 4
    Data = {z, a}
    Zero = z
    NoWord = none
INVARIANTS
    EmptyMeansNothingUnread
