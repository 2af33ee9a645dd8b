CONSTANTS
    Users = {u1, u2}
    NoFile = NoFile
    Window = 1
    MaxCommands = 2
    MaxPosts = 0
    MaxCrashes = 0
    MaxKills = 0
SPECIFICATION MCFriendsSpec
INVARIANT UnFollowRemovesOne
CHECK_DEADLOCK FALSE
