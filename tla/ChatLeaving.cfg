CONSTANTS
    Users = {u1, u2}
    Names = {r1}
    Lines <- MCTalk
    MaxLines = 4
    MaxLeaves = 1
    MaxConns = 4
    MaxListeners = 2
    MaxClients = 3
    MaxChatRooms = 2
SYMMETRY MCSymmetry
SPECIFICATION MCSpec
INVARIANTS SurvivesLeaving
CHECK_DEADLOCK FALSE
