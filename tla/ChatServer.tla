----------------------------- MODULE ChatServer -----------------------------
(***************************************************************************)
(* The chat room server (crsd.cpp): one thread that selects, accepts on    *)
(* the sockets that are ready and then serves the clients that are ready.  *)
(* Each accept and each served message is one action; the order within a   *)
(* turn is the code's, and clients act between any two of them.            *)
(*                                                                         *)
(* A descriptor of a client is the number of its connection, that of a     *)
(* room its listening socket; no room's entry in either map is copied, as  *)
(* no copy is ever changed.                                                *)
(***************************************************************************)
EXTENDS ChatNet

CONSTANTS
    MaxClients,    \* MAX_CLIENTS, 256 in the code
    MaxChatRooms   \* MAX_CHAT_ROOM, 25 in the code

ASSUME SizeAssumption ==
    /\ MaxClients \in Nat \ {0} /\ MaxChatRooms \in Nat \ {0}
    /\ IsFiniteSet(Names) /\ Cardinality(Names) <= MaxListeners

Slots == 1..MaxClients
RoomSlots == 1..MaxChatRooms
NoRoom == [name |-> NoName, port |-> 0]

VARIABLES
    chat_room_db,       \* name -> port of the room, 0 if there is none
    fd_to_chat_room,    \* listening socket -> its room, or NoRoom if closed
    chat_room_socket,   \* the array of listening sockets to select, 0 if unused
    client_socket,      \* slot -> connection, or NoConn
    client_room_name,   \* slot -> name of a room, or NoName
    read_fd_set,        \* what this turn has still to look at
    running             \* FALSE when a signal or an exception has ended it

serverVars == <<chat_room_db, fd_to_chat_room, chat_room_socket, client_socket,
                client_room_name, read_fd_set, running>>
tables == <<chat_room_db, fd_to_chat_room, chat_room_socket>>

\* What select may report, in the order the turn goes through it.
TheServer == <<0, 0>>
ARoom(k) == <<1, k>>
AClient(i) == <<2, i>>
Sources == {TheServer} \cup {ARoom(k) : k \in RoomSlots} \cup {AClient(i) : i \in Slots}
Before(x, y) == x[1] < y[1] \/ (x[1] = y[1] /\ x[2] < y[2])

ServerInit ==
    /\ chat_room_db = [r \in Names |-> 0]
    /\ fd_to_chat_room = [l \in Listeners |-> NoRoom]
    /\ chat_room_socket = [k \in RoomSlots |-> 0]
    /\ client_socket = [i \in Slots |-> NoConn]
    /\ client_room_name = [i \in Slots |-> NoName]
    /\ read_fd_set = {}
    /\ running = TRUE

does_room_exist(r) == chat_room_db[r] # 0

\* chat_room_db.size().
RoomCount == Cardinality({r \in Names : does_room_exist(r)})

\* num_members of a JOIN: every slot with the name counts, used or not.
MemberCount(r) == Cardinality({i \in Slots : client_room_name[i] = r})

\* The slots that a DELETE of r closes and a text in r goes to.
InRoom(r) == {i \in Slots : client_socket[i] # NoConn /\ client_room_name[i] = r}

FreeSlots == {i \in Slots : client_socket[i] = NoConn}

-----------------------------------------------------------------------------
Ready ==
    {x \in Sources :
        \/ x = TheServer /\ backlog[Main] # <<>>
        \/ x[1] = 1 /\ chat_room_socket[x[2]] # 0 /\ backlog[chat_room_socket[x[2]]] # <<>>
        \/ x[1] = 2 /\ client_socket[x[2]] # NoConn /\ Readable(client_socket[x[2]])}

\* One select, at the start of a turn.
Select ==
    /\ read_fd_set = {}
    /\ Ready # {}
    /\ read_fd_set' = Ready
    /\ UNCHANGED <<netVars, tables, client_socket, client_room_name, running>>

\* x is what the turn comes to next.
At(x) == x \in read_fd_set /\ \A y \in read_fd_set \ {x} : Before(x, y)
Pass(x) == read_fd_set' = read_fd_set \ {x}

\* accept, and the first free slot.  With no free slot the connection stays
\* open and the server has forgotten it.
Accept(l, x, name) ==
    /\ At(x)
    /\ Pass(x)
    /\ backlog' = [backlog EXCEPT ![l] = Tail(@)]
    /\ IF FreeSlots = {}
       THEN UNCHANGED <<client_socket, client_room_name>>
       ELSE LET j == Min(FreeSlots)
            IN  /\ client_socket' = [client_socket EXCEPT ![j] = Head(backlog[l])]
                /\ client_room_name' = [client_room_name EXCEPT ![j] =
                                          IF name = NoName THEN @ ELSE name]
    /\ UNCHANGED <<conn, tables, running>>

AcceptClient == Accept(Main, TheServer, NoName)

AcceptMember(k) ==
    LET l == chat_room_socket[k]
    IN  Accept(l, ARoom(k), fd_to_chat_room[l].name)

-----------------------------------------------------------------------------
\* The turn has come to the client in slot i, and a message is there.
Message(i) == Head(conn[client_socket[i]].up)
HasMessage(i) == At(AClient(i)) /\ conn[client_socket[i]].up # <<>>
Says(i, verb) == HasMessage(i) /\ Message(i).verb = verb

\* Mutant of HangUp: the descriptor is forgotten, not closed.
LeakyHangUp(i) ==
    /\ At(AClient(i))
    /\ Pass(AClient(i))
    /\ conn[client_socket[i]].up = <<>>
    /\ client_socket' = [client_socket EXCEPT ![i] = NoConn]
    /\ client_room_name' = [client_room_name EXCEPT ![i] = NoName]
    /\ UNCHANGED <<netVars, tables, running>>

\* read returns 0 or less.
HangUp(i) ==
    /\ At(AClient(i))
    /\ Pass(AClient(i))
    /\ conn[client_socket[i]].up = <<>>
    /\ conn' = [conn EXCEPT ![client_socket[i]] = CloseHere(@)]
    /\ client_socket' = [client_socket EXCEPT ![i] = NoConn]
    /\ client_room_name' = [client_room_name EXCEPT ![i] = NoName]
    /\ UNCHANGED <<backlog, tables, running>>

\* strtok returns NULL where a string is built from its result.
Chokes(m) == m.verb = "BLANK" \/ (m.verb \in {"CREATE", "JOIN", "DELETE"} /\ m.arg = NoName)

\* The connections that the message in slot i makes the server send to.
Targets(i) ==
    LET m == Message(i)
        own == IF m.verb = "TEXT" THEN {} ELSE {i}
        others == IF m.verb = "DELETE" /\ does_room_exist(m.arg) THEN InRoom(m.arg)
                  ELSE IF m.verb = "TEXT" /\ client_room_name[i] # NoName
                       THEN InRoom(client_room_name[i]) \ {i} ELSE {}
    IN  {client_socket[j] : j \in own \cup others}

BrokenPipe(i) == \E n \in Targets(i) : conn[n].peer = "broken"

\* An exception or SIGPIPE ends the process; nothing catches either.
Die(i) ==
    /\ HasMessage(i)
    /\ Chokes(Message(i)) \/ BrokenPipe(i)
    /\ running' = FALSE
    /\ UNCHANGED <<netVars, tables, client_socket, client_room_name, read_fd_set>>

\* The server reads the command verb in slot i and survives it.
Command(i, verb) ==
    /\ Says(i, verb)
    /\ ~Chokes(Message(i)) /\ ~BrokenPipe(i)
    /\ UNCHANGED running

\* The message in slot i is consumed and r is sent back.
Answer(i, r) == conn' = [conn EXCEPT ![client_socket[i]] =
                           Deliver(Consume(@), r)]

\* CREATE: the port is the next after as many rooms as there are.  A full
\* array of room sockets takes no more, and the room is never selected.
Create(i) ==
    LET r == Message(i).arg
        l == Min({x \in Listeners : fd_to_chat_room[x] = NoRoom})
        new_port == 1 + RoomCount
        unused == {k \in RoomSlots : chat_room_socket[k] = 0}
    IN  /\ Command(i, "CREATE")
        /\ Pass(AClient(i))
        /\ IF does_room_exist(r)
           THEN /\ Answer(i, Reply("ALREADY_EXISTS", 0, 0))
                /\ UNCHANGED tables
           ELSE /\ Answer(i, Reply("SUCCESS", 0, 0))
                /\ chat_room_db' = [chat_room_db EXCEPT ![r] = new_port]
                /\ fd_to_chat_room' = [fd_to_chat_room EXCEPT ![l] =
                                         [name |-> r, port |-> new_port]]
                /\ chat_room_socket' = IF unused = {} THEN chat_room_socket
                                       ELSE [chat_room_socket EXCEPT ![Min(unused)] = l]
        /\ UNCHANGED <<backlog, client_socket, client_room_name>>

\* Mutants of Join: the slot keeps the closed descriptor; the slot is freed with
\* -1 instead of 0; no reply for a room that does not exist.
ForgetfulJoin(i) ==
    /\ Command(i, "JOIN")
    /\ Pass(AClient(i))
    /\ conn' = [conn EXCEPT ![client_socket[i]] = CloseHere(Deliver(@, Reply("NOT_EXISTS", 0, 0)))]
    /\ UNCHANGED <<backlog, tables, client_socket, client_room_name>>

MinusJoin(i) ==
    /\ Command(i, "JOIN")
    /\ Pass(AClient(i))
    /\ conn' = [conn EXCEPT ![client_socket[i]] = CloseHere(Deliver(@, Reply("NOT_EXISTS", 0, 0)))]
    /\ client_socket' = [client_socket EXCEPT ![i] = -1]
    /\ UNCHANGED <<backlog, tables, client_room_name>>

SilentJoin(i) ==
    /\ Command(i, "JOIN")
    /\ ~does_room_exist(Message(i).arg)
    /\ Pass(AClient(i))
    /\ conn' = [conn EXCEPT ![client_socket[i]] = CloseHere(@)]
    /\ client_socket' = [client_socket EXCEPT ![i] = NoConn]
    /\ UNCHANGED <<backlog, tables, client_room_name>>

\* JOIN: the reply, and the server closes the connection; the room name of the
\* slot stays as it was.
Join(i) ==
    LET r == Message(i).arg
        n == client_socket[i]
        reply == IF does_room_exist(r)
                 THEN Reply("SUCCESS", chat_room_db[r], MemberCount(r))
                 ELSE Reply("NOT_EXISTS", 0, 0)
    IN  /\ Command(i, "JOIN")
        /\ Pass(AClient(i))
        /\ conn' = [conn EXCEPT ![n] = CloseHere(Deliver(@, reply))]
        /\ client_socket' = [client_socket EXCEPT ![i] = NoConn]
        /\ UNCHANGED <<backlog, tables, client_room_name>>

List(i) ==
    /\ Command(i, "LIST")
    /\ Pass(AClient(i))
    /\ Answer(i, Reply("SUCCESS", 0, 0))
    /\ UNCHANGED <<backlog, tables, client_socket, client_room_name>>

\* Mutant of DeleteMissing: the reply is sent only for a room that exists.
SilentDeleteMissing(i) ==
    /\ Command(i, "DELETE")
    /\ ~does_room_exist(Message(i).arg)
    /\ Pass(AClient(i))
    /\ conn' = [conn EXCEPT ![client_socket[i]] = Consume(@)]
    /\ UNCHANGED <<backlog, tables, client_socket, client_room_name>>

DeleteMissing(i) ==
    /\ Command(i, "DELETE")
    /\ ~does_room_exist(Message(i).arg)
    /\ Pass(AClient(i))
    /\ Answer(i, Reply("NOT_EXISTS", 0, 0))
    /\ UNCHANGED <<backlog, tables, client_socket, client_room_name>>

\* Mutants of Delete: the closed socket stays in the array of sockets to select;
\* the members are left where they are.
KeepingDelete(i) ==
    LET r == Message(i).arg
        l == CHOOSE x \in Listeners : fd_to_chat_room[x].name = r
    IN  /\ Command(i, "DELETE")
        /\ does_room_exist(r) /\ InRoom(r) = {} /\ backlog[l] = <<>>
        /\ Pass(AClient(i))
        /\ Answer(i, Reply("SUCCESS", 0, 0))
        /\ fd_to_chat_room' = [fd_to_chat_room EXCEPT ![l] = NoRoom]
        /\ chat_room_db' = [chat_room_db EXCEPT ![r] = 0]
        /\ UNCHANGED <<backlog, chat_room_socket, client_socket, client_room_name>>

SparingDelete(i) ==
    LET r == Message(i).arg
        l == CHOOSE x \in Listeners : fd_to_chat_room[x].name = r
    IN  /\ Command(i, "DELETE")
        /\ does_room_exist(r) /\ backlog[l] = <<>>
        /\ Pass(AClient(i))
        /\ Answer(i, Reply("SUCCESS", 0, 0))
        /\ fd_to_chat_room' = [fd_to_chat_room EXCEPT ![l] = NoRoom]
        /\ chat_room_db' = [chat_room_db EXCEPT ![r] = 0]
        /\ chat_room_socket' = [k \in RoomSlots |->
                                  IF chat_room_socket[k] = l THEN 0 ELSE chat_room_socket[k]]
        /\ UNCHANGED <<backlog, client_socket, client_room_name>>

\* DELETE: the members get a notice and are closed, then the room goes.  A
\* deleter who is a member is closed too, and its reply goes to descriptor 0.
\* The kernel drops the connections that waited for the room's socket.
Delete(i) ==
    LET r == Message(i).arg
        l == CHOOSE x \in Listeners : fd_to_chat_room[x].name = r
        kicked == InRoom(r)
        members == {client_socket[j] : j \in kicked}
    IN  /\ Command(i, "DELETE")
        /\ does_room_exist(r)
        /\ conn' = [n \in Conns |->
                      CASE n \in Range(backlog[l]) -> CloseHere(conn[n])
                        [] n \in members -> CloseHere(Deliver(conn[n], Notice("closing")))
                        [] n = client_socket[i] /\ n \notin members ->
                             Deliver(Consume(conn[n]), Reply("SUCCESS", 0, 0))
                        [] OTHER -> conn[n]]
        /\ client_socket' = [j \in Slots |-> IF j \in kicked THEN NoConn ELSE client_socket[j]]
        /\ client_room_name' =
             [j \in Slots |-> IF j \in kicked THEN NoName ELSE client_room_name[j]]
        /\ read_fd_set' = read_fd_set \ ({AClient(j) : j \in kicked} \cup {AClient(i)})
        /\ fd_to_chat_room' = [fd_to_chat_room EXCEPT ![l] = NoRoom]
        /\ chat_room_db' = [chat_room_db EXCEPT ![r] = 0]
        /\ backlog' = [backlog EXCEPT ![l] = <<>>]
        /\ chat_room_socket' = [k \in RoomSlots |->
                                  IF chat_room_socket[k] = l THEN 0 ELSE chat_room_socket[k]]

\* Mutant of Relay: the loop starts after the sender's slot.
OneSidedRelay(i) ==
    /\ Command(i, "TEXT")
    /\ Pass(AClient(i))
    /\ LET later == {client_socket[j] : j \in {x \in Slots : x > i}}
       IN  conn' = [n \in Conns |->
                      CASE n = client_socket[i] -> Consume(conn[n])
                        [] n \in Targets(i) \cap later -> Deliver(conn[n], Notice("text"))
                        [] OTHER -> conn[n]]
    /\ UNCHANGED <<backlog, tables, client_socket, client_room_name>>

\* Anything else: a text goes to the others in the room of the slot, and from a
\* slot without a room to nobody.
Relay(i) ==
    /\ Command(i, "TEXT")
    /\ Pass(AClient(i))
    /\ conn' = [n \in Conns |->
                  CASE n = client_socket[i] -> Consume(conn[n])
                    [] n \in Targets(i) -> Deliver(conn[n], Notice("text"))
                    [] OTHER -> conn[n]]
    /\ UNCHANGED <<backlog, tables, client_socket, client_room_name>>

Serve(i) ==
    \/ HangUp(i)
    \/ Die(i)
    \/ Create(i)
    \/ Join(i)
    \/ List(i)
    \/ DeleteMissing(i)
    \/ Delete(i)
    \/ Relay(i)

ServerStep ==
    \/ Select
    \/ AcceptClient
    \/ \E k \in RoomSlots : AcceptMember(k)
    \/ \E i \in Slots : Serve(i)

=============================================================================
