\* Replacements complete and ejected drives go away, under the fairness of
\* LiveSpec.  The empty path is left out: it stops the machine.
SPECIFICATION LiveSpec
CONSTANTS
    Image = {i1}
    Client = {c1, c2}
    Scsi = {s1}
    NoImage = NoImage
    NoClient = NoClient
    NoThread = NoThread
    CallsToComplete = 2
    CallsToCleanup = 2
    EmptyPath = FALSE
PROPERTIES RemountCompletes UnusedDriveGoes
