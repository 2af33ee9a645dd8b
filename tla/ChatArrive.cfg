CONSTANTS
    Users = {u1, u2}
    Names = {r1, r2}
    Lines <- MCLines
    MaxLines = 4
    MaxLeaves = 0
    MaxConns = 4
    MaxListeners = 2
    MaxClients = 3
    MaxChatRooms = 2
SYMMETRY MCSymmetry
SPECIFICATION MCSpec
INVARIANTS JoinersArrive
CHECK_DEADLOCK FALSE
