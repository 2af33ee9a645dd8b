CONSTANTS
    Clients = {c1, c2, c3}
    Users = {u1, u2, u3}
    Window = 1
    MaxEvents = 3
SPECIFICATION MCSpec
SYMMETRY MCSymmetry
INVARIANTS ServiceTypeOK  FollowsAgree NewestAreShown  
CHECK_DEADLOCK FALSE
