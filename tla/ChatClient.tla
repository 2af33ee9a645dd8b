----------------------------- MODULE ChatClient -----------------------------
(***************************************************************************)
(* The chat room clients (crc.cpp), one process per user: a new connection *)
(* for every command, and chat mode on a second one after a JOIN.          *)
(***************************************************************************)
EXTENDS ChatNet

CONSTANTS
    Users,
    Lines,      \* what users type, a subset of AllLines
    MaxLines,   \* bound: how many lines are typed in all
    MaxLeaves   \* bound: how many clients are killed

ASSUME LineAssumption ==
    Lines \subseteq AllLines /\ MaxLines \in Nat /\ MaxLeaves \in Nat

VARIABLES
    at,       \* client -> where its thread is
    sock,     \* client -> its connection, or NoConn
    command,  \* client -> the last command it has sent
    port,     \* client -> the port of the room it has joined, 0 for none
    lines, leaves

clientVars == <<at, sock, command, port, lines, leaves>>

NoLine == Line("BLANK", NoName)

ClientInit ==
    /\ at = [c \in Users |-> "start"]
    /\ sock = [c \in Users |-> NoConn]
    /\ command = [c \in Users |-> NoLine]
    /\ port = [c \in Users |-> 0]
    /\ lines = 0
    /\ leaves = 0

Goto(c, place) == at' = [at EXCEPT ![c] = place]

\* The next turn of main's loop, or a new process: its locals are fresh.
Restart(c) ==
    /\ Goto(c, "start")
    /\ command' = [command EXCEPT ![c] = NoLine]
    /\ port' = [port EXCEPT ![c] = 0]

\* The new connection of c to the listening socket l; it is there before the
\* server accepts it.  before is conn without what c closes first.
ConnectTo(c, l, before) ==
    /\ FreeConns # {}
    /\ conn' = [before EXCEPT ![Min(FreeConns)] = NewConn(l)]
    /\ backlog' = [backlog EXCEPT ![l] = Append(@, Min(FreeConns))]
    /\ sock' = [sock EXCEPT ![c] = Min(FreeConns)]

\* c closes its connection, with or without data it has not read.
Closed(c, unread) == [conn EXCEPT ![sock[c]] = ClosePeer(@, unread)]
Close(c, unread) == conn' = Closed(c, unread) /\ sock' = [sock EXCEPT ![c] = NoConn]

-----------------------------------------------------------------------------
\* main connects first and then reads the command.
ConnectMain(c) ==
    /\ at[c] = "start"
    /\ ConnectTo(c, Main, conn)
    /\ Goto(c, "prompt")
    /\ UNCHANGED <<command, port, lines, leaves>>

\* The user types a line: a command at the prompt, a message in chat mode.
Type(c, m) ==
    /\ lines < MaxLines
    /\ lines' = lines + 1
    /\ conn' = [conn EXCEPT ![sock[c]] = Submit(@, m)]
    /\ UNCHANGED <<backlog, sock, port, leaves>>

EnterCommand(c, m) ==
    /\ at[c] = "prompt"
    /\ Type(c, m)
    /\ command' = [command EXCEPT ![c] = m]
    /\ Goto(c, "await")

\* recv: whatever has come is taken for the reply.
Received(c) == Head(conn[sock[c]].down)
HasReply(c) == at[c] = "await" /\ conn[sock[c]].down # <<>>
Joins(c) == Received(c).status = "SUCCESS" /\ command[c].verb = "JOIN"

\* The connection is closed for the next command.  A Reply is longer than what
\* recv asks for, so something is always left unread.
TakeReply(c) ==
    /\ HasReply(c) /\ ~Joins(c)
    /\ Close(c, TRUE)
    /\ Restart(c)
    /\ UNCHANGED <<backlog, lines, leaves>>

TakeJoin(c) ==
    /\ HasReply(c) /\ Joins(c)
    /\ port' = [port EXCEPT ![c] = Received(c).port]
    /\ Goto(c, "joining")
    /\ UNCHANGED <<netVars, sock, command, lines, leaves>>

\* process_chatmode connects to the port in the reply.  Several sockets may
\* listen there (SO_REUSEPORT); the kernel picks one.  The old connection,
\* which the server has closed, is of no further use.
JoinRoom(c, l, listensAt) ==
    /\ at[c] = "joining"
    /\ listensAt = port[c]
    /\ ConnectTo(c, l, Closed(c, TRUE))
    /\ Goto(c, "chat")
    /\ UNCHANGED <<command, port, lines, leaves>>

\* Nobody listens at the port: the client exits.
JoinRefused(c, ports) ==
    /\ at[c] = "joining"
    /\ port[c] \notin ports
    /\ Close(c, TRUE)
    /\ Goto(c, "exited")
    /\ UNCHANGED <<backlog, command, port, lines, leaves>>

Say(c, m) ==
    /\ at[c] = "chat"
    /\ Type(c, m)
    /\ UNCHANGED <<at, command>>

\* One read takes what fits of all that has come.
ReadChat(c) ==
    /\ at[c] = "chat"
    /\ \E k \in 1..Len(conn[sock[c]].down) :
         conn' = [conn EXCEPT ![sock[c]].down = SubSeq(@, k + 1, Len(@))]
    /\ UNCHANGED <<backlog, clientVars>>

\* read returns 0 or less: back to commands.
Disconnected(c) ==
    /\ at[c] = "chat"
    /\ conn[sock[c]].down = <<>> /\ conn[sock[c]].here = "closed"
    /\ Close(c, FALSE)
    /\ Restart(c)
    /\ UNCHANGED <<backlog, lines, leaves>>

\* The user kills the client (CTRL-C) and starts another one.
Leave(c) ==
    /\ at[c] \in {"prompt", "await", "chat"}
    /\ leaves < MaxLeaves
    /\ leaves' = leaves + 1
    /\ Close(c, conn[sock[c]].down # <<>>)
    /\ Restart(c)
    /\ UNCHANGED <<backlog, lines>>

\* What a client does; listens is the relation of listening sockets to ports.
ClientStep(c, listens) ==
    \/ ConnectMain(c)
    \/ \E m \in Lines : EnterCommand(c, m) \/ Say(c, m)
    \/ TakeReply(c)
    \/ TakeJoin(c)
    \/ \E x \in listens : JoinRoom(c, x[1], x[2])
    \/ JoinRefused(c, {x[2] : x \in listens})
    \/ ReadChat(c)
    \/ Disconnected(c)
    \/ Leave(c)

=============================================================================
