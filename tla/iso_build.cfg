\* An image of six parts, and a pipe that holds the reports of three.
SPECIFICATION Spec
CONSTANTS
    Parts = 6
    PipeRoom = 3
INVARIANTS TypeOK ReportedImageStays MountedImageIsWhole NothingHalfDone
PROPERTY BuildEnds
CHECK_DEADLOCK FALSE
