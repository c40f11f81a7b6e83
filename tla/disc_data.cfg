CONSTANTS
    Width = 1000003
    SectorCells = 2
    Inputs <- MCInputs
SPECIFICATION Spec
CHECK_DEADLOCK FALSE
INVARIANTS
    ReadsAreRight
    StraddlingReadsRight
    RawImagesRight
    RightParser
    RawLayoutRight
    UDFRight
    RepliesAgree
