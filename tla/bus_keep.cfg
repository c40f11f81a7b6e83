\* Images mounted to be kept after a restart, without replacements.
SPECIFICATION Spec
CONSTANTS
    Path = {p1, p2}
    KeyLimit = 2
    Free = Free
    Blank = Blank
    Drive = {d1, d2}
    ID = {n1, n2}
    Caller = {c1}
    Cleaner = Cleaner
    Starter = Starter
    Replacing = {}
    NoDrive = NoDrive
    NoID = NoID
    NoKey = NoKey
    NoPath = NoPath
SYMMETRY BusSymmetry
INVARIANT KeptImageRecorded
