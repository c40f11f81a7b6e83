\* Two files, two device objects, two identifiers and a caller, with the
\* cleanup thread, start-up and restarts.  The image of one drive is also
\* replaced, which renames that drive.
SPECIFICATION Spec
CONSTANTS
    Path = {p1, p2}
    KeyLimit = 2
    Free = Free
    Blank = Blank
    Drive = {d1, d2}
    ID = {n1, n2}
    Caller = {c1}
    Cleaner = Cleaner
    Starter = Starter
    Replacing = {d1}
    NoDrive = NoDrive
    NoID = NoID
    NoKey = NoKey
    NoPath = NoPath
SYMMETRY BusSymmetry
INVARIANTS TypeOK NamesClashOnlyInShutdown OneNamePerDrive OneRecordPerImage
