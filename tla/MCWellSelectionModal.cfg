CONSTANTS
    A1 = A1
    B1 = B1
    A2 = A2
    NULL = NULL
    Wells <- MCWells
    WellRank <- MCWellRank
SPECIFICATION Spec
INVARIANT TypeOK
