\* A disc of five sectors, read two at a time; a dialog that can be closed,
\* paused and cancelled at any moment.
SPECIFICATION LiveSpec
CONSTANTS
    VolumeSize = 5
    BufferSize = 2
    PartialReads = FALSE
    PartialWrites = FALSE
    Zeros = Zeros
    Unwritten = Unwritten
INVARIANTS TypeOK ImageIsComplete ListIsASet
PROPERTIES ClosingEnds CancelEnds
