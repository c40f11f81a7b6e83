\* Images are replaced while earlier replacements are being completed.
SPECIFICATION Spec
CONSTANTS
    Image = {i1}
    Client = {c1, c2}
    Scsi = {s1, s2}
    NoImage = NoImage
    NoClient = NoClient
    NoThread = NoThread
    CallsToComplete = 2
    CallsToCleanup = 2
    EmptyPath = FALSE
INVARIANT ReplaceKeepsDrive
