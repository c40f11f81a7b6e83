\* A drive is unmounted with the empty path, as DeviceControl.h documents.
SPECIFICATION Spec
CONSTANTS
    Image = {i1}
    Client = {c1, c2}
    Scsi = {s1, s2}
    NoImage = NoImage
    NoClient = NoClient
    NoThread = NoThread
    CallsToComplete = 2
    CallsToCleanup = 2
    EmptyPath = TRUE
INVARIANT UnmountIsSafe
