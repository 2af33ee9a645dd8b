CONSTANTS
    Users = {u1, u2}
    NoFile = NoFile
    Window = 1
    MaxCommands = 2
    MaxPosts = 1
    MaxCrashes = 1
    MaxKills = 1
SYMMETRY MCSymmetry
SPECIFICATION MCSpec
INVARIANTS FilesTypeOK  UsersSurvive  
CHECK_DEADLOCK FALSE
