CONSTANTS
    Users = {u1, u2}
    Names = {r1, r2}
    Lines <- MCBadLines
    MaxLines = 4
    MaxLeaves = 0
    MaxConns = 4
    MaxListeners = 2
    MaxClients = 2
    MaxChatRooms = 2
SYMMETRY MCSymmetry
SPECIFICATION MCSpec
INVARIANTS ChatTypeOK TablesAgree SlotsAreOpen MembersOfLiveRooms 
PROPERTIES TextReachesTheRoom
CHECK_DEADLOCK FALSE
