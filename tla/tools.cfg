CONSTANTS
    User = user
    Script = script
    NewImage = b
    Tool = {user, script}
    Image = {a, b}
    Letter = {V}
    Commands <- MCCommands
    Profiled = {a}
    NoImage = NoImage
    NoLetter = NoLetter
    AllImages = AllImages
SPECIFICATION Spec
INVARIANT
    TypeOK
PROPERTY
    UndisturbedEffect
    UnmountsWhatWasAsked
    ProgramsEnd
CHECK_DEADLOCK FALSE
