------------------------------- MODULE MCChat -------------------------------
EXTENDS ChatSystem, TLC

MCSymmetry == Permutations(Users) \cup Permutations(Names)

\* Every command that changes something, on every room, and a text.
MCLines == {m \in AllLines : \/ m.verb \in {"CREATE", "JOIN", "DELETE"} /\ m.arg # NoName
                             \/ m.verb = "TEXT" /\ m.arg = NoName}

\* All of those, LIST, and the two kinds of line the server cannot parse.
MCBadLines == MCLines \cup {Line(v, NoName) : v \in {"BLANK", "CREATE", "LIST"}}

\* Members who only talk.
MCTalk == {m \in MCLines : m.verb \in {"JOIN", "TEXT"}}

\* Those that change who is in a room, and a text.
MCFew == {m \in MCLines : m.verb \in {"JOIN", "DELETE", "TEXT"}}

\* The state after one CREATE whose client has gone: the run need not spend a
\* line on it.
OneRoom(r) ==
    /\ chat_room_db = [q \in Names |-> IF q = r THEN 1 ELSE 0]
    /\ fd_to_chat_room = [l \in Listeners |-> IF l = 1 THEN [name |-> r, port |-> 1]
                                                        ELSE NoRoom]
    /\ chat_room_socket = [k \in RoomSlots |-> IF k = 1 THEN 1 ELSE 0]
    /\ client_socket = [i \in Slots |-> NoConn]
    /\ client_room_name = [i \in Slots |-> NoName]
    /\ read_fd_set = {}
    /\ running = TRUE

MCInit == NetInit /\ ClientInit /\ \E r \in Names : OneRoom(r)

MCSpec == MCInit /\ [][ChatNext]_chatVars

MCFairSpec == MCSpec /\ Fairness
=============================================================================
