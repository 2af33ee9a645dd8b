----------------------------- MODULE ChatSystem -----------------------------
(***************************************************************************)
(* The chat room server and its clients.  The model ends with the server's *)
(* process; nothing restarts it.                                           *)
(***************************************************************************)
EXTENDS ChatServer, ChatClient

chatVars == <<netVars, serverVars, clientVars>>

ChatTypeOK ==
    /\ \A n \in Conns :
         /\ conn[n].to \in Listeners \cup {Main}
         /\ conn[n].peer \in PeerStates
         /\ conn[n].here \in {"open", "closed"}
         /\ Range(conn[n].up) \subseteq Lines
    /\ chat_room_db \in [Names -> Nat]
    /\ fd_to_chat_room \in [Listeners -> [name : Names \cup {NoName}, port : Nat]]
    /\ chat_room_socket \in [RoomSlots -> Listeners \cup {0}]
    /\ client_socket \in [Slots -> Conns \cup {NoConn}]
    /\ client_room_name \in [Slots -> Names \cup {NoName}]
    /\ read_fd_set \subseteq Sources
    /\ at \in [Users -> {"start", "prompt", "await", "joining", "chat", "exited"}]
    /\ sock \in [Users -> Conns \cup {NoConn}]

ChatInit == NetInit /\ ServerInit /\ ClientInit

\* The listening sockets of rooms with their ports.
RoomSockets == {<<l, fd_to_chat_room[l].port>> :
                   l \in {x \in Listeners : fd_to_chat_room[x] # NoRoom}}

ServerMoves == ServerStep /\ UNCHANGED clientVars
ClientMoves(c) == ClientStep(c, RoomSockets) /\ UNCHANGED serverVars
NetMoves == \E n \in Conns : ResetArrives(n) /\ UNCHANGED <<serverVars, clientVars>>

ChatNext ==
    /\ running
    /\ \/ ServerMoves
       \/ \E c \in Users : ClientMoves(c)
       \/ NetMoves

ChatSpec == ChatInit /\ [][ChatNext]_chatVars

\* The server's loop never blocks but in select, and a client's recv returns
\* when something is there.  Users and the network owe nothing.
Fairness ==
    /\ WF_chatVars(running /\ ServerMoves)
    /\ \A c \in Users :
         WF_chatVars(running /\ (TakeReply(c) \/ TakeJoin(c)) /\ UNCHANGED serverVars)

FairChatSpec == ChatSpec /\ Fairness

-----------------------------------------------------------------------------
\* The connections the server has accepted on the socket of room r.
Members(r) == {n \in Range(client_socket) \ {NoConn} :
                 conn[n].to # Main /\ fd_to_chat_room[conn[n].to].name = r}

(***************************************************************************)
(* The structures of the server agree (crsd.cpp:203-211, 312-329): every   *)
(* room of chat_room_db has exactly one listening socket, with its name    *)
(* and its port, and one place in the array of sockets to select unless    *)
(* the array was full; nothing else is in the map or in the array.         *)
(***************************************************************************)
TablesAgree ==
    /\ \A r \in Names :
         Cardinality({l \in Listeners : fd_to_chat_room[l].name = r})
           = (IF does_room_exist(r) THEN 1 ELSE 0)
    /\ \A l \in Listeners : fd_to_chat_room[l] # NoRoom
         => chat_room_db[fd_to_chat_room[l].name] = fd_to_chat_room[l].port
    /\ \A k \in RoomSlots : chat_room_socket[k] # 0
         => /\ fd_to_chat_room[chat_room_socket[k]] # NoRoom
            /\ \A j \in RoomSlots \ {k} : chat_room_socket[j] # chat_room_socket[k]

(***************************************************************************)
(* Slots and descriptors (crsd.cpp:174-178, 257-258, 307-309): a slot      *)
(* holds an open descriptor that no other slot holds and that waits in no  *)
(* queue, through every reuse of slots and descriptors.                    *)
(***************************************************************************)
SlotsAreOpen ==
    \A i \in Slots : client_socket[i] # NoConn =>
        /\ conn[client_socket[i]].here = "open"
        /\ \A j \in Slots \ {i} : client_socket[j] # client_socket[i]
        /\ \A l \in DOMAIN backlog : client_socket[i] \notin Range(backlog[l])

(***************************************************************************)
(* A slot whose connection came in on the socket of a room carries the     *)
(* name of that room, and the room exists (crsd.cpp:163, 301-311): no      *)
(* member outlives its room or hears another one, whatever the slot was    *)
(* used for before.                                                        *)
(***************************************************************************)
MembersOfLiveRooms ==
    \A i \in Slots :
        LET n == client_socket[i]
        IN  n # NoConn /\ conn[n].to # Main =>
                /\ fd_to_chat_room[conn[n].to] # NoRoom
                /\ client_room_name[i] = fd_to_chat_room[conn[n].to].name

(***************************************************************************)
(* A client that waits for a reply never finds its connection closed with  *)
(* nothing to read: process_command does not look for that and would       *)
(* return what happens to be on its stack (crc.cpp:138-139, 185).          *)
(***************************************************************************)
NeverEmptyHanded ==
    \A c \in Users :
        at[c] = "await" /\ conn[sock[c]].here = "closed" => conn[sock[c]].down # <<>>

(***************************************************************************)
(* A text of a member reaches every other member of its room that is still *)
(* there, and no member of another room (crsd.cpp:341-351).                *)
(***************************************************************************)
TextReachesTheRoom ==
    [][\A i \in Slots :
         Relay(i) /\ conn[client_socket[i]].to # Main =>
             LET r == fd_to_chat_room[conn[client_socket[i]].to].name
             IN  \A q \in Names : \A n \in Members(q) \ {client_socket[i]} :
                     conn[n].peer = "open" =>
                         Len(conn'[n].down) = Len(conn[n].down)
                                              + (IF q = r THEN 1 ELSE 0)]_chatVars

(***************************************************************************)
(* A command that the server knows is answered (crsd.cpp:217, 254, 276,    *)
(* 335; crc.cpp:139 waits for it without a timeout), as long as the server *)
(* runs, also in a slot that an earlier JOIN has left in a room.  A line   *)
(* that is no command is dropped, and its client waits for ever.           *)
(***************************************************************************)
Waits(c) == running /\ at[c] = "await"

CommandsAreAnswered ==
    \A c \in Users : (Waits(c) /\ command[c].verb # "TEXT") ~> ~Waits(c)

(***************************************************************************)
(* The server notices every client that has left (crsd.cpp:174-178) and    *)
(* closes its end, while it runs: no slot is lost to a departed client.    *)
(***************************************************************************)
Departed(n) == running /\ conn[n].here = "open" /\ conn[n].peer # "open"

DeparturesAreNoticed == \A n \in Conns : Departed(n) ~> ~Departed(n)

(***************************************************************************)
(* A client in chat mode is in the room it asked for (crc.cpp:43).         *)
(***************************************************************************)
JoinersArrive ==
    \A c \in Users : \A r \in Names :
        at[c] = "chat" /\ sock[c] \in Members(r) => command[c].arg = r

(***************************************************************************)
(* Clients can leave unceremoniously (design.txt:78): the server survives  *)
(* it.                                                                     *)
(***************************************************************************)
SurvivesLeaving == running

=============================================================================
