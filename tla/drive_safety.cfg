\* Two images, two clients that replace them, two threads that execute SCSI
\* requests, the cleanup thread: every interleaving, crashes included.
SPECIFICATION Spec
CONSTANTS
    Image = {i1, i2}
    Client = {c1, c2}
    Scsi = {s1, s2}
    NoImage = NoImage
    NoClient = NoClient
    NoThread = NoThread
    CallsToComplete = 2
    CallsToCleanup = 2
    EmptyPath = TRUE
SYMMETRY DriveSymmetry
INVARIANTS TypeOK VerdictSound NoLostWaiter OldImageGone
PROPERTIES MediumChangeVisible ImplementsSlot
