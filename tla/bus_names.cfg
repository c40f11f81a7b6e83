\* A mount while the cleanup thread is shutting a drive down.
SPECIFICATION Spec
CONSTANTS
    Path = {p1}
    KeyLimit = 1
    Free = Free
    Blank = Blank
    Drive = {d1, d2}
    ID = {n1, n2}
    Caller = {c1}
    Cleaner = Cleaner
    Starter = Starter
    Replacing = {}
    NoDrive = NoDrive
    NoID = NoID
    NoKey = NoKey
    NoPath = NoPath
SYMMETRY BusSymmetry
INVARIANT NewNamesAreUnused
