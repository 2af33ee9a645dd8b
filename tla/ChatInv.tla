------------------------------ MODULE ChatInv ------------------------------
(***************************************************************************)
(* The inductive invariant of ChatSystem: what the kernel's queues, the    *)
(* server's tables and its turn, and the clients have to do with each      *)
(* other between any two steps.                                            *)
(***************************************************************************)
EXTENDS ChatSystem

Messages ==
    [kind : {"reply", "closing", "text"}, status : {"SUCCESS", "ALREADY_EXISTS", "NOT_EXISTS", "NONE"},
     port : Nat, num : Nat]

Queues == Listeners \cup {Main}

Connections ==
    [to : Queues, up : Seq(Lines), down : Seq(Messages),
     peer : PeerStates, here : {"open", "closed"}]

\* All of every connection, of the queues and of the clients: ChatTypeOK and the
\* types it leaves out.
NetTypeOK ==
    /\ conn \in [Conns -> Connections]
    /\ backlog \in [Queues -> Seq(Conns)]

ServerTypeOK ==
    /\ chat_room_db \in [Names -> Nat]
    /\ fd_to_chat_room \in [Listeners -> [name : Names \cup {NoName}, port : Nat]]
    /\ chat_room_socket \in [RoomSlots -> Listeners \cup {0}]
    /\ client_socket \in [Slots -> Conns \cup {NoConn}]
    /\ client_room_name \in [Slots -> Names \cup {NoName}]
    /\ read_fd_set \subseteq Sources

ClientTypeOK ==
    /\ at \in [Users -> {"start", "prompt", "await", "joining", "chat", "exited"}]
    /\ sock \in [Users -> Conns \cup {NoConn}]

TypesInv == NetTypeOK /\ ServerTypeOK /\ ClientTypeOK

(***************************************************************************)
(* A connection that waits to be accepted is open, came in on the socket   *)
(* it waits at, waits once and is in no slot; nothing waits where nobody   *)
(* listens.  With SlotsAreOpen this is what keeps a descriptor from being  *)
(* used for two connections.                                               *)
(***************************************************************************)
QueuesInv ==
    /\ \A l \in Queues : \A k \in 1..Len(backlog[l]) :
         /\ conn[backlog[l][k]].here = "open"
         /\ conn[backlog[l][k]].to = l
         /\ \A i \in Slots : client_socket[i] # backlog[l][k]
         /\ \A j \in 1..Len(backlog[l]) : j # k => backlog[l][j] # backlog[l][k]
    /\ \A l \in Listeners : fd_to_chat_room[l] = NoRoom => backlog[l] = <<>>

\* A slot's connection is open, and no other slot's.
SlotsInv ==
    \A i \in Slots : client_socket[i] # NoConn =>
        /\ conn[client_socket[i]].here = "open"
        /\ \A j \in Slots : j # i => client_socket[j] # client_socket[i]

(***************************************************************************)
(* TablesAgree without counting: the room of a listening socket is in      *)
(* chat_room_db with its port, each room of it has one listening socket,   *)
(* and the array holds listening sockets, each once.                       *)
(***************************************************************************)
RoomsInv ==
    /\ \A l \in Listeners : fd_to_chat_room[l] # NoRoom =>
         LET room == fd_to_chat_room[l]
         IN  room.name \in Names /\ room.port = chat_room_db[room.name] /\ room.port # 0
    /\ \A r \in Names : does_room_exist(r) => \E l \in Listeners : fd_to_chat_room[l].name = r
    /\ \A l, m \in Listeners :
         fd_to_chat_room[l] # NoRoom /\ fd_to_chat_room[l].name = fd_to_chat_room[m].name => l = m
    /\ \A k \in RoomSlots : chat_room_socket[k] # 0 =>
         /\ fd_to_chat_room[chat_room_socket[k]] # NoRoom
         /\ \A j \in RoomSlots : j # k => chat_room_socket[j] # chat_room_socket[k]

(***************************************************************************)
(* What the turn has still to look at is as select has found it, though    *)
(* the turn itself has closed sockets and slots since: something waits at  *)
(* each socket, and there is something to read in each slot.               *)
(***************************************************************************)
TurnInv ==
    /\ TheServer \in read_fd_set => backlog[Main] # <<>>
    /\ \A k \in RoomSlots : ARoom(k) \in read_fd_set =>
         chat_room_socket[k] # 0 /\ backlog[chat_room_socket[k]] # <<>>
    /\ \A i \in Slots : AClient(i) \in read_fd_set =>
         client_socket[i] # NoConn /\ Readable(client_socket[i])

(***************************************************************************)
(* A client has a connection of its own from its connect to its close, at  *)
(* its prompt and waiting one to the main port; and when the server closes *)
(* that one, it has sent something first.                                  *)
(***************************************************************************)
Busy == {"prompt", "await", "joining", "chat"}

ClientInv ==
    \A c \in Users :
        /\ at[c] \in Busy <=> sock[c] # NoConn
        /\ sock[c] # NoConn =>
             /\ conn[sock[c]].peer = "open"
             /\ \A d \in Users : d # c => sock[d] # sock[c]
        /\ at[c] \in {"prompt", "await"} =>
             /\ conn[sock[c]].to = Main
             /\ conn[sock[c]].here = "closed" => conn[sock[c]].down # <<>>

ChatInvariant ==
    /\ TypesInv /\ QueuesInv /\ SlotsInv /\ RoomsInv /\ TurnInv /\ ClientInv
    /\ MembersOfLiveRooms

=============================================================================
