----------------------------- MODULE ChatProofs -----------------------------
(***************************************************************************)
(* Proofs that ChatInvariant holds in the chat room system, of the safety  *)
(* properties it gives and of what a relayed text does, for every number   *)
(* of clients, rooms, slots and connections.                               *)
(*                                                                         *)
(* The steps of clients and of the network leave the server's part of the  *)
(* invariant alone because they never end a connection at the server's     *)
(* side (ServerUndisturbed, ServerSeesConnect); those of the server leave  *)
(* the clients' part alone because an answer goes before an end            *)
(* (ClientsUndisturbed).                                                   *)
(***************************************************************************)
EXTENDS ChatInv, FiniteSetTheorems, SequenceTheorems, NaturalsInduction,
        WellFoundedInduction, TLAPS

(***************************************************************************)
(* What close and send do to a connection (ChatNet).                       *)
(***************************************************************************)
LEMMA MessageTypes ==
    /\ \A s \in {"SUCCESS", "ALREADY_EXISTS", "NOT_EXISTS"} : \A p, k \in Nat :
         Reply(s, p, k) \in Messages
    /\ Notice("closing") \in Messages /\ Notice("text") \in Messages
BY DEF Reply, Notice, Messages

\* A connection that is free, and one that has just been made to a socket.
LEMMA NewConnections ==
    /\ FreeConn \in Connections
    /\ \A l \in Queues :
         /\ NewConn(l) \in Connections
         /\ NewConn(l).to = l
         /\ NewConn(l).here = "open" /\ NewConn(l).peer = "open"
         /\ NewConn(l).down = <<>>
<1>1. <<>> \in Seq(Lines) /\ <<>> \in Seq(Messages)
  OBVIOUS
<1> QED  BY <1>1 DEF FreeConn, NewConn, Connections, Queues, PeerStates

\* What is left of a connection when the server has closed its end.
LEMMA CloseHereEffect ==
    ASSUME NEW r \in Connections
    PROVE  /\ CloseHere(r) \in Connections
           /\ r.peer = "open" =>
                /\ CloseHere(r).peer = "open"
                /\ CloseHere(r).to = r.to
                /\ CloseHere(r).down = r.down
<1>1. <<>> \in Seq(Lines)
  OBVIOUS
<1> QED  BY <1>1, NewConnections DEF CloseHere, Connections

\* What is left of a connection when the client has closed its end.
LEMMA ClosePeerEffect ==
    ASSUME NEW r \in Connections, NEW unread \in BOOLEAN
    PROVE  /\ ClosePeer(r, unread) \in Connections
           /\ r.here = "open" =>
                /\ ClosePeer(r, unread).here = "open"
                /\ ClosePeer(r, unread).to = r.to
                /\ ClosePeer(r, unread).up = r.up
                /\ ClosePeer(r, unread).peer # "open"
<1>1. <<>> \in Seq(Messages)
  OBVIOUS
<1> QED  BY <1>1, NewConnections DEF ClosePeer, Connections, PeerStates

\* What the server sends adds to what the client can still read.
LEMMA DeliverEffect ==
    ASSUME NEW r \in Connections, NEW m \in Messages
    PROVE  /\ Deliver(r, m) \in Connections
           /\ Deliver(r, m).here = r.here
           /\ Deliver(r, m).to = r.to
           /\ Deliver(r, m).up = r.up
           /\ r.peer # "open" => Deliver(r, m).peer # "open"
           /\ r.peer = "open" =>
                /\ Deliver(r, m).peer = "open"
                /\ Deliver(r, m).down # <<>>
                /\ Len(Deliver(r, m).down) = Len(r.down) + 1
<1>1. /\ Append(r.down, m) \in Seq(Messages)
      /\ Append(r.down, m) # <<>>
      /\ Len(Append(r.down, m)) = Len(r.down) + 1
  BY AppendProperties DEF Connections
<1> QED  BY <1>1 DEF Deliver, Connections, PeerStates

\* What the client sends adds to what the server has to read.
LEMMA SubmitEffect ==
    ASSUME NEW r \in Connections, NEW m \in Lines
    PROVE  /\ Submit(r, m) \in Connections
           /\ Submit(r, m).here = r.here
           /\ Submit(r, m).to = r.to
           /\ Submit(r, m).peer = r.peer
           /\ Submit(r, m).down = r.down
           /\ r.up # <<>> => Submit(r, m).up # <<>>
<1>1. Append(r.up, m) \in Seq(Lines) /\ Append(r.up, m) # <<>>
  BY AppendProperties DEF Connections
<1> QED  BY <1>1 DEF Submit, Connections

\* The message at the head of up is consumed.
LEMMA ConsumeEffect ==
    ASSUME NEW r \in Connections, r.up # <<>>
    PROVE  /\ Consume(r) \in Connections
           /\ Consume(r).here = r.here /\ Consume(r).to = r.to
           /\ Consume(r).peer = r.peer /\ Consume(r).down = r.down
<1>1. Tail(r.up) \in Seq(Lines)
  BY HeadTailProperties DEF Connections
<1> QED  BY <1>1 DEF Consume, Connections

\* What a client of theirs types.
LEMMA LineTypes == \A m \in Lines : m.verb \in Verbs /\ m.arg \in Names \cup {NoName}
BY LineAssumption DEF AllLines

\* Of the numbers of a set, Min is one.
LEMMA MinMember ==
    ASSUME NEW S \in SUBSET Nat, S # {}
    PROVE  Min(S) \in S
<1> DEFINE less == OpToRel(<, Nat)
<1>1. IsWellFoundedOn(less, Nat)
  BY NatLessThanWellFounded
<1> HIDE DEF less
<1>2. PICK x \in S : \A y \in S : ~ <<y, x>> \in less
  BY <1>1, WFMin
<1>3. \A y \in S : x =< y
  <2> SUFFICES ASSUME NEW y \in S PROVE x =< y
    OBVIOUS
  <2>1. ~(y < x)
    BY <1>2 DEF less, OpToRel
  <2> QED  BY <2>1
<1> QED  BY <1>3 DEF Min

-----------------------------------------------------------------------------
(***************************************************************************)
(* The initial states.                                                     *)
(***************************************************************************)
LEMMA ChatInitInvariant == ChatInit => ChatInvariant
<1> SUFFICES ASSUME ChatInit PROVE ChatInvariant
  OBVIOUS
<1> USE DEF ChatInit, NetInit, ServerInit, ClientInit
<1>1. TypesInv
  <2>1. \A l \in Queues : <<>> \in Seq(Conns)
    OBVIOUS
  <2>2. NetTypeOK
    BY <2>1, NewConnections DEF NetTypeOK, Queues
  <2>3. ServerTypeOK
    BY DEF ServerTypeOK, NoRoom
  <2>4. ClientTypeOK
    BY DEF ClientTypeOK
  <2> QED  BY <2>2, <2>3, <2>4 DEF TypesInv
<1>2. QueuesInv
  BY DEF QueuesInv, Queues
<1>3. SlotsInv /\ MembersOfLiveRooms
  BY DEF SlotsInv, MembersOfLiveRooms
<1>4. RoomsInv
  BY DEF RoomsInv, NoRoom, does_room_exist
<1>5. TurnInv
  BY DEF TurnInv
<1>6. ClientInv
  BY DEF ClientInv, Busy
<1> QED  BY <1>1, <1>2, <1>3, <1>4, <1>5, <1>6 DEF ChatInvariant

-----------------------------------------------------------------------------
(***************************************************************************)
(* What the clients and the network leave alone.  They never touch the     *)
(* server's own end of a connection, and what is readable stays readable.  *)
(***************************************************************************)
OpenStays(before, n) ==
    conn[n].here = "open" =>
        /\ before[n].here = "open"
        /\ before[n].to = conn[n].to
        /\ Readable(n) => (before[n].up # <<>> \/ before[n].peer # "open")

\* The server's part of the invariant while no connection that it has open goes away.
LEMMA ServerUndisturbed ==
    ASSUME ChatInvariant, UNCHANGED <<backlog, serverVars>>,
           \A n \in Conns : OpenStays(conn', n)
    PROVE  QueuesInv' /\ SlotsInv' /\ RoomsInv' /\ TurnInv' /\ MembersOfLiveRooms'
<1> USE DEF serverVars, OpenStays
<1>1. backlog \in [Queues -> Seq(Conns)] /\ client_socket \in [Slots -> Conns \cup {NoConn}]
  BY DEF ChatInvariant, TypesInv, NetTypeOK, ServerTypeOK
<1>2. \A l \in Queues : \A k \in 1..Len(backlog[l]) : backlog[l][k] \in Conns
  BY <1>1
<1>3. QueuesInv'
  BY <1>2 DEF QueuesInv, ChatInvariant
<1>4. SlotsInv'
  BY <1>1 DEF SlotsInv, ChatInvariant
<1>5. RoomsInv'
  BY DEF RoomsInv, ChatInvariant, does_room_exist
<1>6. TurnInv'
  BY <1>1 DEF TurnInv, SlotsInv, ChatInvariant, Readable
<1>7. MembersOfLiveRooms'
  BY <1>1 DEF MembersOfLiveRooms, SlotsInv, ChatInvariant
<1> QED  BY <1>3, <1>4, <1>5, <1>6, <1>7

(***************************************************************************)
(* A connect: the new connection is in use nowhere, as a free one is       *)
(* closed at the server's end, and l is listened at.                       *)
(***************************************************************************)
LEMMA ServerSeesConnect ==
    ASSUME ChatInvariant, UNCHANGED serverVars,
           NEW c \in Users, NEW l \in Queues,
           l = Main \/ fd_to_chat_room[l] # NoRoom,
           NEW before \in [Conns -> Connections],
           \A n \in Conns : OpenStays(before, n),
           ConnectTo(c, l, before)
    PROVE  /\ NetTypeOK'
           /\ Min(FreeConns) \in FreeConns
           /\ QueuesInv' /\ SlotsInv' /\ RoomsInv' /\ TurnInv' /\ MembersOfLiveRooms'
<1> DEFINE f == Min(FreeConns)
<1> USE DEF serverVars, OpenStays
<1>1. f \in FreeConns
  <2>1. FreeConns \in SUBSET Nat
    BY DEF FreeConns, Conns
  <2> QED  BY <2>1, MinMember DEF ConnectTo
<1>2. f \in Conns /\ conn[f].here = "closed" /\ conn[f].peer # "open"
  BY <1>1 DEF FreeConns, FreeConn
<1>3. /\ backlog \in [Queues -> Seq(Conns)] /\ client_socket \in [Slots -> Conns \cup {NoConn}]
      /\ conn \in [Conns -> Connections]
  BY DEF ChatInvariant, TypesInv, NetTypeOK, ServerTypeOK
<1>4. /\ conn' = [before EXCEPT ![f] = NewConn(l)]
      /\ backlog' = [backlog EXCEPT ![l] = Append(@, f)]
  BY DEF ConnectTo
<1> HIDE DEF f
<1>5. /\ conn' \in [Conns -> Connections]
      /\ conn'[f].here = "open" /\ conn'[f].to = l
      /\ \A n \in Conns : n # f => conn'[n] = before[n]
  BY <1>2, <1>4, NewConnections
<1>6. /\ backlog' \in [Queues -> Seq(Conns)]
      /\ \A m \in Queues : m # l => backlog'[m] = backlog[m]
      /\ Len(backlog'[l]) = Len(backlog[l]) + 1
      /\ \A k \in 1..Len(backlog[l]) : backlog'[l][k] = backlog[l][k]
      /\ backlog'[l][Len(backlog[l]) + 1] = f
      /\ backlog'[l] # <<>>
  <2>1. backlog[l] \in Seq(Conns)
    BY <1>3
  <2>2. Append(backlog[l], f) \in Seq(Conns)
    BY <2>1, <1>2
  <2>3. backlog'[l] = Append(backlog[l], f)
    BY <1>3, <1>4
  <2>4. \A m \in Queues : m # l => backlog'[m] = backlog[m]
    BY <1>3, <1>4
  <2>5. backlog' \in [Queues -> Seq(Conns)]
    BY <1>3, <1>4, <2>2
  <2> QED  BY <2>1, <2>3, <2>4, <2>5, <1>2, AppendProperties
<1>7. \A n \in Conns : conn[n].here = "open" => n # f /\ conn'[n] = before[n]
  BY <1>2, <1>5
<1>8. \A m \in Queues : \A k \in 1..Len(backlog[m]) :
         backlog[m][k] \in Conns /\ conn[backlog[m][k]].here = "open"
  BY <1>3 DEF QueuesInv, ChatInvariant
<1>9. \A i \in Slots : client_socket[i] # f
  <2>1. f # NoConn
    BY <1>2 DEF Conns, NoConn
  <2> QED  BY <1>2, <1>3, <2>1 DEF SlotsInv, ChatInvariant
<1>10. QueuesInv'
  <2>1. ASSUME NEW m \in Queues, NEW k \in 1..Len(backlog'[m])
        PROVE  /\ conn'[backlog'[m][k]].here = "open"
               /\ conn'[backlog'[m][k]].to = m
               /\ \A i \in Slots : client_socket[i] # backlog'[m][k]
               /\ \A j \in 1..Len(backlog'[m]) : j # k => backlog'[m][j] # backlog'[m][k]
    <3>1. Len(backlog[l]) \in Nat
      BY <1>3
    <3>2. CASE m # l
      BY <3>2, <1>5, <1>6, <1>7, <1>8 DEF QueuesInv, ChatInvariant
    <3>3. CASE m = l /\ k \in 1..Len(backlog[l])
      <4>1. backlog'[l][k] = backlog[l][k] /\ backlog[l][k] # f
        BY <3>3, <1>2, <1>6, <1>8
      <4>2. \A j \in 1..Len(backlog[l]) : j # k => backlog'[l][j] # backlog'[l][k]
        BY SMTT(30), <3>3, <1>6 DEF QueuesInv, ChatInvariant
      <4>3. \A j \in 1..Len(backlog'[l]) : j \in 1..Len(backlog[l]) \/ j = Len(backlog[l]) + 1
        BY <3>1, <1>6
      <4>4. backlog[l][k] \in Conns /\ conn'[backlog[l][k]] = before[backlog[l][k]]
        BY <3>3, <1>7, <1>8
      <4>5. /\ conn[backlog[l][k]].here = "open" /\ conn[backlog[l][k]].to = l
            /\ \A i \in Slots : client_socket[i] # backlog[l][k]
        BY <3>3, <1>8 DEF QueuesInv, ChatInvariant
      <4>6. conn'[backlog'[l][k]].here = "open" /\ conn'[backlog'[l][k]].to = l
        BY <4>1, <4>4, <4>5 DEF OpenStays
      <4>7. \A j \in 1..Len(backlog'[l]) : j # k => backlog'[l][j] # backlog'[l][k]
        <5>1. backlog'[l][Len(backlog[l]) + 1] = f
          BY <1>6
        <5> QED  BY <4>1, <4>2, <4>3, <5>1
      <4> QED  BY <4>1, <4>5, <4>6, <4>7, <3>3
    <3>4. CASE m = l /\ k = Len(backlog[l]) + 1
      <4>1. \A j \in 1..Len(backlog'[l]) : j # k => j \in 1..Len(backlog[l])
        BY <3>1, <3>4, <1>6
      <4>2. \A j \in 1..Len(backlog[l]) : backlog'[l][j] # f
        BY SMTT(30), <1>2, <1>6, <1>8
      <4>3. backlog'[m][k] = f
        BY <3>4, <1>6
      <4>4. \A j \in 1..Len(backlog'[m]) : j # k => backlog'[m][j] # f
        BY <4>1, <4>2, <3>4
      <4> QED  BY <4>3, <4>4, <3>4, <1>5, <1>9
    <3>5. m = l => k \in 1..Len(backlog[l]) \/ k = Len(backlog[l]) + 1
      BY <3>1, <1>6
    <3> QED  BY <3>2, <3>3, <3>4, <3>5
  <2>2. \A m \in Listeners : fd_to_chat_room[m] = NoRoom => backlog'[m] = <<>>
    <3>1. Main \notin Listeners
      BY DEF Main, Listeners
    <3> QED  BY SMTT(30), <3>1, <1>6 DEF QueuesInv, ChatInvariant, Queues
  <2> QED  BY <2>1, <2>2 DEF QueuesInv
<1>11. SlotsInv'
  BY <1>3, <1>7 DEF SlotsInv, ChatInvariant
<1>12. RoomsInv'
  BY DEF RoomsInv, ChatInvariant, does_room_exist
<1>13. TurnInv'
  <2>1. \A m \in Queues : backlog[m] # <<>> => backlog'[m] # <<>>
    BY <1>6
  <2>2. \A k \in RoomSlots : chat_room_socket[k] # 0 => chat_room_socket[k] \in Queues
    BY DEF ChatInvariant, TypesInv, ServerTypeOK, Queues
  <2>3. Main \in Queues
    BY DEF Queues
  <2>4. \A i \in Slots : client_socket[i] # NoConn /\ Readable(client_socket[i])
                           => Readable(client_socket[i])'
    BY <1>3, <1>7 DEF SlotsInv, ChatInvariant, Readable
  <2> QED  BY <2>1, <2>2, <2>3, <2>4 DEF TurnInv, ChatInvariant
<1>14. MembersOfLiveRooms'
  BY <1>3, <1>7 DEF MembersOfLiveRooms, SlotsInv, ChatInvariant
<1> QED  BY <1>1, <1>5, <1>6, <1>10, <1>11, <1>12, <1>13, <1>14 DEF NetTypeOK, f

-----------------------------------------------------------------------------
(***************************************************************************)
(* The clients' steps.  A busy client has a connection of its own, so what *)
(* it does to that one disturbs no other client.                           *)
(***************************************************************************)
LEMMA BusyConnection ==
    ASSUME ChatInvariant, NEW c \in Users, at[c] \in Busy
    PROVE  /\ sock[c] \in Conns /\ conn[sock[c]] \in Connections
           /\ conn[sock[c]].peer = "open"
BY DEF ChatInvariant, TypesInv, NetTypeOK, ClientTypeOK, ClientInv

\* The clients' part of the invariant when one client moves and changes only its own connections.
LEMMA OthersUndisturbed ==
    ASSUME ChatInvariant, NEW c \in Users,
           \A d \in Users : d # c => at'[d] = at[d] /\ sock'[d] = sock[d],
           \A n \in Conns : n # sock[c] /\ n # sock'[c] => conn'[n] = conn[n],
           \/ sock'[c] = NoConn
           \/ sock'[c] = sock[c]
           \/ sock'[c] \in Conns /\ conn[sock'[c]].peer # "open",
           at'[c] \in Busy <=> sock'[c] # NoConn,
           sock'[c] # NoConn => conn'[sock'[c]].peer = "open",
           at'[c] \in {"prompt", "await"} =>
             /\ conn'[sock'[c]].to = Main
             /\ conn'[sock'[c]].here = "closed" => conn'[sock'[c]].down # <<>>
    PROVE  ClientInv'
<1>1. sock \in [Users -> Conns \cup {NoConn}]
  BY DEF ChatInvariant, TypesInv, ClientTypeOK
<1>2. ASSUME NEW d \in Users, d # c
      PROVE  /\ sock'[d] # NoConn => sock'[d] # sock'[c] /\ conn'[sock'[d]] = conn[sock'[d]]
             /\ sock'[d] = sock[d] /\ at'[d] = at[d]
  BY <1>1, <1>2 DEF ChatInvariant, ClientInv
<1>3. \A d \in Users : at'[d] \in Busy <=> sock'[d] # NoConn
  BY <1>2 DEF ChatInvariant, ClientInv
<1>4. \A d \in Users : sock'[d] # NoConn =>
         /\ conn'[sock'[d]].peer = "open"
         /\ \A e \in Users : e # d => sock'[e] # sock'[d]
  BY <1>2 DEF ChatInvariant, ClientInv
<1>5. \A d \in Users : at'[d] \in {"prompt", "await"} =>
         /\ conn'[sock'[d]].to = Main
         /\ conn'[sock'[d]].here = "closed" => conn'[sock'[d]].down # <<>>
  BY <1>2, <1>3 DEF ChatInvariant, ClientInv, Busy
<1> QED  BY <1>3, <1>4, <1>5 DEF ClientInv

\* A step of c that changes only its own connection, to r.
LEMMA OwnConnectionOnly ==
    ASSUME ChatInvariant, UNCHANGED <<backlog, serverVars>>,
           NEW c \in Users, at[c] \in Busy, NEW r \in Connections,
           conn[sock[c]].here = "open" =>
             r.here = "open" /\ r.to = conn[sock[c]].to /\ (conn[sock[c]].up # <<>> => r.up # <<>>),
           conn' = [conn EXCEPT ![sock[c]] = r]
    PROVE  /\ NetTypeOK'
           /\ \A n \in Conns : n # sock[c] => conn'[n] = conn[n]
           /\ conn'[sock[c]] = r
           /\ QueuesInv' /\ SlotsInv' /\ RoomsInv' /\ TurnInv' /\ MembersOfLiveRooms'
<1>1. sock[c] \in Conns /\ conn[sock[c]].peer = "open"
  BY BusyConnection
<1>2. conn \in [Conns -> Connections] /\ backlog \in [Queues -> Seq(Conns)]
  BY DEF ChatInvariant, TypesInv, NetTypeOK
<1>3. conn' \in [Conns -> Connections] /\ conn'[sock[c]] = r
      /\ \A n \in Conns : n # sock[c] => conn'[n] = conn[n]
  BY <1>1, <1>2
<1>4. \A n \in Conns : OpenStays(conn', n)
  BY <1>1, <1>3 DEF OpenStays, Readable
<1> QED  BY <1>2, <1>3, <1>4, ServerUndisturbed DEF NetTypeOK

\* The server's variables while it does nothing.
LEMMA ServerTypesStay ==
    ASSUME ChatInvariant, UNCHANGED serverVars PROVE ServerTypeOK'
BY DEF ChatInvariant, TypesInv, ServerTypeOK, serverVars

\* The last step of every client's action.
LEMMA ClientMoveInvariant ==
    ASSUME ChatInvariant, UNCHANGED serverVars,
           NEW c \in Users, NEW place \in {"start", "prompt", "await", "joining", "chat", "exited"},
           Goto(c, place), sock' = sock \/ (\E n \in Conns \cup {NoConn} : sock' = [sock EXCEPT ![c] = n]),
           NetTypeOK',
           QueuesInv', SlotsInv', RoomsInv', TurnInv', MembersOfLiveRooms',
           \A n \in Conns : n # sock[c] /\ n # sock'[c] => conn'[n] = conn[n],
           \/ sock'[c] = NoConn
           \/ sock'[c] = sock[c]
           \/ sock'[c] \in Conns /\ conn[sock'[c]].peer # "open",
           place \in Busy <=> sock'[c] # NoConn,
           sock'[c] # NoConn => conn'[sock'[c]].peer = "open",
           place \in {"prompt", "await"} =>
             /\ conn'[sock'[c]].to = Main
             /\ conn'[sock'[c]].here = "closed" => conn'[sock'[c]].down # <<>>
    PROVE  ChatInvariant'
<1>1. ClientTypeOK'
  BY DEF ChatInvariant, TypesInv, ClientTypeOK, Goto
<1>2. at'[c] = place /\ \A d \in Users : d # c => at'[d] = at[d] /\ sock'[d] = sock[d]
  BY DEF ChatInvariant, TypesInv, ClientTypeOK, Goto
<1>3. ClientInv'
  BY <1>2, OthersUndisturbed
<1> QED  BY <1>1, <1>3, ServerTypesStay DEF ChatInvariant, TypesInv

\* A client connects to the main socket.
LEMMA ConnectMainInvariant ==
    ASSUME ChatInvariant, UNCHANGED serverVars, NEW c \in Users, ConnectMain(c)
    PROVE  ChatInvariant'
<1>1. /\ at[c] = "start" /\ Goto(c, "prompt") /\ ConnectTo(c, Main, conn)
      /\ Main \in Queues
  BY DEF ConnectMain, Queues
<1>2. /\ conn \in [Conns -> Connections] /\ sock \in [Users -> Conns \cup {NoConn}]
      /\ \A n \in Conns : OpenStays(conn, n)
  BY DEF ChatInvariant, TypesInv, NetTypeOK, ClientTypeOK, OpenStays, Readable
<1>3. /\ NetTypeOK' /\ Min(FreeConns) \in FreeConns
      /\ QueuesInv' /\ SlotsInv' /\ RoomsInv' /\ TurnInv' /\ MembersOfLiveRooms'
  BY <1>1, <1>2, ServerSeesConnect
<1> DEFINE f == Min(FreeConns)
<1>4. f \in Conns /\ conn[f].peer # "open" /\ f # NoConn
  BY <1>3 DEF FreeConns, FreeConn, Conns, NoConn
<1>5. conn' = [conn EXCEPT ![f] = NewConn(Main)] /\ sock' = [sock EXCEPT ![c] = f]
  BY <1>1 DEF ConnectTo
<1> HIDE DEF f
<1>6. /\ sock'[c] = f /\ conn'[f] = NewConn(Main)
      /\ \A n \in Conns : n # f => conn'[n] = conn[n]
  BY <1>2, <1>4, <1>5
<1>7. /\ NewConn(Main).to = Main /\ NewConn(Main).peer = "open" /\ NewConn(Main).here = "open"
  BY <1>1, NewConnections
<1> QED  BY <1>1, <1>3, <1>4, <1>5, <1>6, <1>7, ClientMoveInvariant DEF Busy

\* A client closes its connection and connects to the socket of a room.
LEMMA JoinRoomInvariant ==
    ASSUME ChatInvariant, UNCHANGED serverVars, NEW c \in Users,
           NEW x \in RoomSockets, JoinRoom(c, x[1], x[2])
    PROVE  ChatInvariant'
<1> DEFINE l == x[1]
           r == ClosePeer(conn[sock[c]], TRUE)
<1>1. l \in Queues /\ fd_to_chat_room[l] # NoRoom
  BY DEF RoomSockets, Queues
<1>2. at[c] = "joining" /\ Goto(c, "chat") /\ ConnectTo(c, l, Closed(c, TRUE))
  BY DEF JoinRoom
<1>3. sock[c] \in Conns /\ conn[sock[c]] \in Connections /\ conn[sock[c]].peer = "open"
  BY <1>2, BusyConnection DEF Busy
<1>4. conn \in [Conns -> Connections] /\ sock \in [Users -> Conns \cup {NoConn}]
  BY DEF ChatInvariant, TypesInv, NetTypeOK, ClientTypeOK
<1>5. /\ r \in Connections
      /\ conn[sock[c]].here = "open" =>
           r.here = "open" /\ r.to = conn[sock[c]].to /\ r.up = conn[sock[c]].up /\ r.peer # "open"
  BY <1>3, ClosePeerEffect
<1>6. Closed(c, TRUE) = [conn EXCEPT ![sock[c]] = r]
  BY DEF Closed
<1> DEFINE before == Closed(c, TRUE)
<1> HIDE DEF l, r, before
<1>7. /\ before \in [Conns -> Connections]
      /\ before[sock[c]] = r /\ \A n \in Conns : n # sock[c] => before[n] = conn[n]
  BY <1>3, <1>4, <1>5, <1>6 DEF before
<1>8. \A n \in Conns : OpenStays(before, n)
  BY <1>3, <1>5, <1>7 DEF OpenStays, Readable
<1>9. /\ NetTypeOK' /\ Min(FreeConns) \in FreeConns
      /\ QueuesInv' /\ SlotsInv' /\ RoomsInv' /\ TurnInv' /\ MembersOfLiveRooms'
  BY <1>1, <1>2, <1>7, <1>8, ServerSeesConnect DEF before
<1> DEFINE f == Min(FreeConns)
<1>10. f \in Conns /\ conn[f].peer # "open" /\ f # NoConn
  BY <1>9 DEF FreeConns, FreeConn, Conns, NoConn
<1>11. conn' = [before EXCEPT ![f] = NewConn(l)] /\ sock' = [sock EXCEPT ![c] = f]
  BY <1>2 DEF ConnectTo, before
<1> HIDE DEF f
<1>12. /\ sock'[c] = f /\ conn'[f] = NewConn(l)
       /\ \A n \in Conns : n # sock[c] /\ n # f => conn'[n] = conn[n]
  BY <1>4, <1>7, <1>10, <1>11
<1>13. NewConn(l).peer = "open"
  BY <1>1, NewConnections
<1> QED  BY <1>2, <1>9, <1>10, <1>11, <1>12, <1>13, ClientMoveInvariant DEF Busy

\* A client sends a line over its connection, which stays as it was otherwise.
LEMMA TypeEffect ==
    ASSUME ChatInvariant, UNCHANGED serverVars, NEW c \in Users, NEW m \in Lines,
           at[c] \in Busy, Type(c, m)
    PROVE  /\ sock' = sock /\ sock[c] # NoConn
           /\ NetTypeOK'
           /\ \A n \in Conns : n # sock[c] => conn'[n] = conn[n]
           /\ conn'[sock[c]].peer = "open"
           /\ conn'[sock[c]].to = conn[sock[c]].to
           /\ conn'[sock[c]].here = conn[sock[c]].here
           /\ conn'[sock[c]].down = conn[sock[c]].down
           /\ QueuesInv' /\ SlotsInv' /\ RoomsInv' /\ TurnInv' /\ MembersOfLiveRooms'
<1> DEFINE r == Submit(conn[sock[c]], m)
<1>1. /\ sock[c] \in Conns /\ conn[sock[c]] \in Connections /\ conn[sock[c]].peer = "open"
      /\ sock[c] # NoConn
  BY BusyConnection DEF Conns, NoConn
<1>2. /\ r \in Connections /\ r.here = conn[sock[c]].here /\ r.to = conn[sock[c]].to
      /\ r.peer = conn[sock[c]].peer /\ r.down = conn[sock[c]].down
      /\ conn[sock[c]].up # <<>> => r.up # <<>>
  BY <1>1, SubmitEffect
<1>3. conn' = [conn EXCEPT ![sock[c]] = r] /\ UNCHANGED <<backlog, sock>>
  BY DEF Type
<1> HIDE DEF r
<1> QED  BY <1>1, <1>2, <1>3, OwnConnectionOnly

\* A client sends a command.
LEMMA EnterCommandInvariant ==
    ASSUME ChatInvariant, UNCHANGED serverVars, NEW c \in Users, NEW m \in Lines,
           EnterCommand(c, m)
    PROVE  ChatInvariant'
<1>1. at[c] = "prompt" /\ Type(c, m) /\ Goto(c, "await")
  BY DEF EnterCommand
<1>2. conn[sock[c]].to = Main /\ (conn[sock[c]].here = "closed" => conn[sock[c]].down # <<>>)
  BY <1>1 DEF ChatInvariant, ClientInv
<1> QED  BY <1>1, <1>2, TypeEffect, ClientMoveInvariant DEF Busy

\* A member of a room sends a text.
LEMMA SayInvariant ==
    ASSUME ChatInvariant, UNCHANGED serverVars, NEW c \in Users, NEW m \in Lines, Say(c, m)
    PROVE  ChatInvariant'
<1>1. at[c] = "chat" /\ Type(c, m) /\ at' = at
  BY DEF Say
<1>2. Goto(c, "chat")
  BY <1>1 DEF Goto, ChatInvariant, TypesInv, ClientTypeOK
<1> QED  BY <1>1, <1>2, TypeEffect, ClientMoveInvariant DEF Busy

\* A client closes its connection.
LEMMA CloseInvariant ==
    ASSUME ChatInvariant, UNCHANGED <<backlog, serverVars>>, NEW c \in Users,
           at[c] \in Busy, NEW unread \in BOOLEAN, Close(c, unread),
           NEW place \in {"start", "exited"}, Goto(c, place)
    PROVE  ChatInvariant'
<1> DEFINE r == ClosePeer(conn[sock[c]], unread)
<1>1. sock[c] \in Conns /\ conn[sock[c]] \in Connections
  BY BusyConnection
<1>2. /\ r \in Connections
      /\ conn[sock[c]].here = "open" =>
           r.here = "open" /\ r.to = conn[sock[c]].to /\ r.up = conn[sock[c]].up
  BY <1>1, ClosePeerEffect
<1>3. conn' = [conn EXCEPT ![sock[c]] = r] /\ sock' = [sock EXCEPT ![c] = NoConn]
  BY DEF Close, Closed
<1> HIDE DEF r
<1>4. /\ NetTypeOK' /\ \A n \in Conns : n # sock[c] => conn'[n] = conn[n]
      /\ QueuesInv' /\ SlotsInv' /\ RoomsInv' /\ TurnInv' /\ MembersOfLiveRooms'
  BY <1>2, <1>3, OwnConnectionOnly
<1>5. sock'[c] = NoConn
  BY <1>3 DEF ChatInvariant, TypesInv, ClientTypeOK
<1> QED  BY <1>3, <1>4, <1>5, ClientMoveInvariant DEF Busy

\* A client reads the reply to JOIN.
LEMMA TakeJoinInvariant ==
    ASSUME ChatInvariant, UNCHANGED serverVars, NEW c \in Users, TakeJoin(c)
    PROVE  ChatInvariant'
<1>1. /\ at[c] = "await" /\ Goto(c, "joining") /\ UNCHANGED <<conn, backlog, sock>>
  BY DEF TakeJoin, HasReply, netVars
<1>2. sock[c] \in Conns /\ conn[sock[c]].peer = "open" /\ sock[c] # NoConn
  BY <1>1, BusyConnection DEF Busy, Conns, NoConn
<1>3. /\ NetTypeOK'
      /\ QueuesInv' /\ SlotsInv' /\ RoomsInv' /\ TurnInv' /\ MembersOfLiveRooms'
  <2>1. \A n \in Conns : OpenStays(conn', n)
    BY <1>1 DEF OpenStays, Readable
  <2> QED  BY <1>1, <2>1, ServerUndisturbed DEF ChatInvariant, TypesInv, NetTypeOK
<1> QED  BY <1>1, <1>2, <1>3, ClientMoveInvariant DEF Busy

\* A member of a room reads what the room has sent.
LEMMA ReadChatInvariant ==
    ASSUME ChatInvariant, UNCHANGED serverVars, NEW c \in Users, ReadChat(c)
    PROVE  ChatInvariant'
<1>1. at[c] = "chat" /\ UNCHANGED <<backlog, sock, at>>
  BY DEF ReadChat, clientVars
<1>2. PICK k \in 1..Len(conn[sock[c]].down) :
         conn' = [conn EXCEPT ![sock[c]].down = SubSeq(@, k + 1, Len(@))]
  BY DEF ReadChat
<1> DEFINE s == conn[sock[c]]
           r == [s EXCEPT !.down = SubSeq(s.down, k + 1, Len(s.down))]
<1>3. sock[c] \in Conns /\ s \in Connections /\ s.peer = "open" /\ sock[c] # NoConn
  BY <1>1, BusyConnection DEF Busy, Conns, NoConn
<1>4. /\ r \in Connections /\ r.here = s.here /\ r.to = s.to /\ r.up = s.up /\ r.peer = s.peer
  <2>1. s.down \in Seq(Messages)
    BY <1>3 DEF Connections
  <2>2. SubSeq(s.down, k + 1, Len(s.down)) \in Seq(Messages)
    BY <2>1, SubSeqProperties
  <2> QED  BY <1>3, <2>2 DEF Connections
<1>5. conn' = [conn EXCEPT ![sock[c]] = r]
  BY <1>2
<1> HIDE DEF r
<1>6. /\ NetTypeOK' /\ \A n \in Conns : n # sock[c] => conn'[n] = conn[n]
      /\ conn'[sock[c]].peer = "open"
      /\ QueuesInv' /\ SlotsInv' /\ RoomsInv' /\ TurnInv' /\ MembersOfLiveRooms'
  BY <1>1, <1>3, <1>4, <1>5, OwnConnectionOnly DEF Busy
<1>7. Goto(c, "chat")
  BY <1>1 DEF Goto, ChatInvariant, TypesInv, ClientTypeOK
<1> QED  BY <1>1, <1>3, <1>6, <1>7, ClientMoveInvariant DEF Busy

\* Whatever a client does keeps the invariant.
LEMMA ClientStepInvariant ==
    ASSUME ChatInvariant, NEW c \in Users, ClientMoves(c)
    PROVE  ChatInvariant'
<1>1. ClientStep(c, RoomSockets) /\ UNCHANGED serverVars
  BY DEF ClientMoves
<1>2. CASE ConnectMain(c)
  BY <1>1, <1>2, ConnectMainInvariant
<1>3. CASE \E m \in Lines : EnterCommand(c, m) \/ Say(c, m)
  BY <1>1, <1>3, EnterCommandInvariant, SayInvariant
<1>4. CASE TakeReply(c)
  BY <1>1, <1>4, CloseInvariant DEF TakeReply, HasReply, Restart, Busy
<1>5. CASE TakeJoin(c)
  BY <1>1, <1>5, TakeJoinInvariant
<1>6. CASE \E x \in RoomSockets : JoinRoom(c, x[1], x[2])
  BY <1>1, <1>6, JoinRoomInvariant
<1>7. CASE JoinRefused(c, {x[2] : x \in RoomSockets})
  BY <1>1, <1>7, CloseInvariant DEF JoinRefused, Busy
<1>8. CASE ReadChat(c)
  BY <1>1, <1>8, ReadChatInvariant
<1>9. CASE Disconnected(c)
  BY <1>1, <1>9, CloseInvariant DEF Disconnected, Restart, Busy
<1>10. CASE Leave(c)
  BY <1>1, <1>10, CloseInvariant DEF Leave, Restart, Busy
<1> QED  BY <1>1, <1>2, <1>3, <1>4, <1>5, <1>6, <1>7, <1>8, <1>9, <1>10 DEF ClientStep

\* A reset at most changes a connection from provoked to broken.
LEMMA NetStepInvariant ==
    ASSUME ChatInvariant, NetMoves
    PROVE  ChatInvariant'
<1>1. PICK k \in Conns : ResetArrives(k) /\ UNCHANGED <<serverVars, clientVars>>
  BY DEF NetMoves
<1>2. /\ conn[k].peer = "provoked" /\ UNCHANGED <<backlog, at, sock>>
      /\ conn' = [conn EXCEPT ![k].peer = "broken"]
  BY <1>1 DEF ResetArrives, clientVars
<1>3. conn \in [Conns -> Connections] /\ sock \in [Users -> Conns \cup {NoConn}]
  BY DEF ChatInvariant, TypesInv, NetTypeOK, ClientTypeOK
<1>4. /\ conn' \in [Conns -> Connections]
      /\ conn'[k].here = conn[k].here /\ conn'[k].to = conn[k].to /\ conn'[k].peer # "open"
      /\ \A n \in Conns : n # k => conn'[n] = conn[n]
  BY <1>2, <1>3 DEF Connections, PeerStates
<1>5. \A n \in Conns : OpenStays(conn', n)
  BY <1>4 DEF OpenStays, Readable
<1>6. QueuesInv' /\ SlotsInv' /\ RoomsInv' /\ TurnInv' /\ MembersOfLiveRooms'
  BY <1>1, <1>2, <1>5, ServerUndisturbed
<1>7. \A c \in Users : sock[c] # NoConn => conn'[sock[c]] = conn[sock[c]]
  BY <1>2, <1>3, <1>4 DEF ChatInvariant, ClientInv
<1>8. ClientInv'
  BY <1>2, <1>7 DEF ChatInvariant, ClientInv, Busy
<1>9. TypesInv'
  BY <1>1, <1>2, <1>4, ServerTypesStay DEF ChatInvariant, TypesInv, NetTypeOK, ClientTypeOK
<1> QED  BY <1>6, <1>8, <1>9 DEF ChatInvariant

-----------------------------------------------------------------------------
(***************************************************************************)
(* The server's steps.  What they do to a connection that a client still   *)
(* holds: its answer comes before its end.                                 *)
(***************************************************************************)
ClientKept(n) ==
    conn[n].peer = "open" =>
        /\ conn'[n].peer = "open"
        /\ conn'[n].to = conn[n].to
        /\ conn[n].down # <<>> => conn'[n].down # <<>>
        /\ conn[n].to = Main /\ conn'[n].here = "closed" =>
             conn[n].here = "closed" \/ conn'[n].down # <<>>

\* The clients' part of the invariant when the server keeps what the clients have open.
LEMMA ClientsUndisturbed ==
    ASSUME ChatInvariant, UNCHANGED clientVars, \A n \in Conns : ClientKept(n)
    PROVE  ClientTypeOK' /\ ClientInv'
<1> USE DEF clientVars
<1>1. \A c \in Users : sock[c] # NoConn => ClientKept(sock[c])
  BY DEF ChatInvariant, TypesInv, ClientTypeOK
<1>2. ClientTypeOK'
  BY DEF ChatInvariant, TypesInv, ClientTypeOK
<1>3. ClientInv'
  BY <1>1 DEF ChatInvariant, ClientInv, ClientKept, Busy
<1> QED  BY <1>2, <1>3

\* Select: everything it reports is there.
LEMMA SelectInvariant ==
    ASSUME ChatInvariant, Select, UNCHANGED clientVars
    PROVE  ChatInvariant'
<1>1. /\ UNCHANGED <<conn, backlog, chat_room_db, fd_to_chat_room, chat_room_socket,
                     client_socket, client_room_name>>
      /\ read_fd_set' = Ready
  BY DEF Select, netVars, tables
<1>2. \A n \in Conns : ClientKept(n)
  BY <1>1 DEF ClientKept
<1>3. NetTypeOK' /\ ServerTypeOK'
  BY <1>1 DEF ChatInvariant, TypesInv, NetTypeOK, ServerTypeOK, Ready
<1>4. QueuesInv' /\ SlotsInv' /\ MembersOfLiveRooms'
  BY <1>1 DEF ChatInvariant, QueuesInv, SlotsInv, MembersOfLiveRooms
<1>5. RoomsInv'
  BY <1>1 DEF ChatInvariant, RoomsInv, does_room_exist
<1>6. TurnInv'
  BY <1>1 DEF TurnInv, Ready, TheServer, ARoom, AClient, Readable
<1> QED  BY <1>2, <1>3, <1>4, <1>5, <1>6, ClientsUndisturbed DEF ChatInvariant, TypesInv

(***************************************************************************)
(* The order of a turn: the main socket, the rooms' sockets, the clients.  *)
(***************************************************************************)
LEMMA TurnOrder ==
    /\ \A k \in RoomSlots : At(ARoom(k)) => TheServer \notin read_fd_set
    /\ \A i \in Slots : At(AClient(i)) =>
         TheServer \notin read_fd_set /\ \A k \in RoomSlots : ARoom(k) \notin read_fd_set
BY DEF At, Before, TheServer, ARoom, AClient

\* The sockets that select watches are told apart.
LEMMA SourcesDiffer ==
    /\ \A k \in RoomSlots : TheServer # ARoom(k)
    /\ \A i \in Slots : TheServer # AClient(i)
    /\ \A k \in RoomSlots : \A i \in Slots : ARoom(k) # AClient(i)
    /\ \A k, m \in RoomSlots : ARoom(k) = ARoom(m) => k = m
    /\ \A i, j \in Slots : AClient(i) = AClient(j) => i = j
BY DEF TheServer, ARoom, AClient

\* accept, at the main socket or at that of a live room.
LEMMA AcceptInvariant ==
    ASSUME ChatInvariant, UNCHANGED clientVars,
           NEW l \in Queues, NEW x \in Sources, NEW name \in Names \cup {NoName},
           \A i \in Slots : x # AClient(i),
           l # Main => fd_to_chat_room[l] # NoRoom /\ name = fd_to_chat_room[l].name,
           backlog[l] # <<>>,
           TheServer \notin read_fd_set \ {x},
           \A k \in RoomSlots : ARoom(k) \in read_fd_set \ {x} => chat_room_socket[k] # l,
           Accept(l, x, name)
    PROVE  ChatInvariant'
<1>1. /\ backlog' = [backlog EXCEPT ![l] = Tail(@)]
      /\ read_fd_set' = read_fd_set \ {x}
      /\ UNCHANGED <<conn, chat_room_db, fd_to_chat_room, chat_room_socket>>
  BY DEF Accept, Pass, tables
<1>2. /\ backlog \in [Queues -> Seq(Conns)] /\ client_socket \in [Slots -> Conns \cup {NoConn}]
      /\ client_room_name \in [Slots -> Names \cup {NoName}]
  BY DEF ChatInvariant, TypesInv, NetTypeOK, ServerTypeOK
<1>3. /\ backlog' \in [Queues -> Seq(Conns)]
      /\ \A m \in Queues : m # l => backlog'[m] = backlog[m]
      /\ Len(backlog'[l]) = Len(backlog[l]) - 1 /\ Len(backlog[l]) \in Nat \ {0}
      /\ \A k \in 1..Len(backlog'[l]) : backlog'[l][k] = backlog[l][k + 1]
      /\ Head(backlog[l]) = backlog[l][1] /\ Head(backlog[l]) \in Conns
  <2>1. backlog[l] \in Seq(Conns) /\ backlog[l] # <<>>
    BY <1>2
  <2>2. /\ Tail(backlog[l]) \in Seq(Conns) /\ Len(Tail(backlog[l])) = Len(backlog[l]) - 1
        /\ \A k \in 1..Len(Tail(backlog[l])) : Tail(backlog[l])[k] = backlog[l][k + 1]
        /\ Head(backlog[l]) \in Conns /\ Len(backlog[l]) \in Nat \ {0}
    BY <2>1, HeadTailProperties, EmptySeq
  <2>3. backlog'[l] = Tail(backlog[l]) /\ \A m \in Queues : m # l => backlog'[m] = backlog[m]
    BY <1>1, <1>2
  <2>4. backlog' \in [Queues -> Seq(Conns)]
    BY <1>1, <1>2, <2>2
  <2> QED  BY <2>1, <2>2, <2>3, <2>4
<1> DEFINE h == Head(backlog[l])
<1>4. /\ conn[h].here = "open" /\ conn[h].to = l
      /\ \A i \in Slots : client_socket[i] # h
      /\ \A k \in 1..Len(backlog[l]) : k # 1 => backlog[l][k] # h
      /\ h \in Conns /\ h # NoConn
  <2>1. 1 \in 1..Len(backlog[l])
    BY <1>3
  <2> QED  BY <2>1, <1>3 DEF ChatInvariant, QueuesInv, Conns, NoConn
<1> HIDE DEF h
\* What stays in the queues is as it was, and is not the head.
<1>5. ASSUME NEW m \in Queues, NEW k \in 1..Len(backlog'[m])
      PROVE  /\ conn[backlog'[m][k]].here = "open" /\ conn[backlog'[m][k]].to = m
             /\ \A i \in Slots : client_socket[i] # backlog'[m][k]
             /\ \A j \in 1..Len(backlog'[m]) : j # k => backlog'[m][j] # backlog'[m][k]
             /\ backlog'[m][k] # h
  <2>1. CASE m # l
    <3>1. backlog'[m] = backlog[m]
      BY <2>1, <1>3
    <3>2. conn[backlog[m][k]].to = m
      BY <3>1 DEF ChatInvariant, QueuesInv
    <3> QED  BY <3>1, <3>2, <2>1, <1>4 DEF ChatInvariant, QueuesInv
  <2>2. CASE m = l
    <3>1. \A j \in 1..Len(backlog'[l]) : j + 1 \in 1..Len(backlog[l]) /\ j + 1 # 1
      BY <1>3
    <3>2. \A j \in 1..Len(backlog'[l]) : j # k => j + 1 # k + 1
      BY <2>2, <1>3
    <3> QED  BY SMTT(30), <3>1, <3>2, <2>2, <1>3, <1>4 DEF ChatInvariant, QueuesInv
  <2> QED  BY <2>1, <2>2
\* The slots: one that was free may hold the head now.
<1>6. \/ UNCHANGED <<client_socket, client_room_name>>
      \/ \E j \in Slots :
           /\ client_socket[j] = NoConn
           /\ client_socket' = [client_socket EXCEPT ![j] = h]
           /\ client_room_name' = [client_room_name EXCEPT ![j] =
                                     IF name = NoName THEN client_room_name[j] ELSE name]
  <2>1. CASE FreeSlots = {}
    BY <2>1 DEF Accept
  <2>2. CASE FreeSlots # {}
    <3>1. FreeSlots \in SUBSET Nat
      BY DEF FreeSlots, Slots
    <3>2. Min(FreeSlots) \in FreeSlots
      BY <2>2, <3>1, MinMember
    <3> DEFINE j == Min(FreeSlots)
    <3>3. /\ client_socket' = [client_socket EXCEPT ![j] = Head(backlog[l])]
          /\ client_room_name' = [client_room_name EXCEPT ![j] = IF name = NoName THEN @ ELSE name]
      BY <2>2 DEF Accept
    <3>4. j \in Slots /\ client_socket[j] = NoConn
      BY <3>2 DEF FreeSlots
    <3> HIDE DEF j
    <3> QED  BY <3>3, <3>4 DEF h
  <2> QED  BY <2>1, <2>2
<1>7. \A i \in Slots :
        \/ client_socket'[i] = client_socket[i] /\ client_room_name'[i] = client_room_name[i]
        \/ /\ client_socket[i] = NoConn /\ client_socket'[i] = h
           /\ name # NoName => client_room_name'[i] = name
           /\ \A j \in Slots : j # i => client_socket'[j] = client_socket[j]
  BY <1>2, <1>6
<1>8. /\ client_socket' \in [Slots -> Conns \cup {NoConn}]
      /\ client_room_name' \in [Slots -> Names \cup {NoName}]
  <2>1. CASE UNCHANGED <<client_socket, client_room_name>>
    BY <2>1, <1>2
  <2>2. ASSUME NEW j \in Slots, client_socket' = [client_socket EXCEPT ![j] = h],
               client_room_name' = [client_room_name EXCEPT ![j] =
                                      IF name = NoName THEN client_room_name[j] ELSE name]
        PROVE  /\ client_socket' \in [Slots -> Conns \cup {NoConn}]
               /\ client_room_name' \in [Slots -> Names \cup {NoName}]
    <3>1. h \in Conns \cup {NoConn}
      BY <1>4
    <3>2. (IF name = NoName THEN client_room_name[j] ELSE name) \in Names \cup {NoName}
      BY <1>2
    <3> QED  BY <2>2, <3>1, <3>2, <1>2
  <2> QED  BY <2>1, <2>2, <1>6
<1>9. NetTypeOK' /\ ServerTypeOK'
  BY <1>1, <1>3, <1>8 DEF ChatInvariant, TypesInv, NetTypeOK, ServerTypeOK
<1>10. QueuesInv'
  <2>1. \A m \in Listeners : fd_to_chat_room[m] = NoRoom => backlog'[m] = <<>>
    <3>1. Main \notin Listeners
      BY DEF Main, Listeners
    <3> QED  BY <3>1, <1>3 DEF ChatInvariant, QueuesInv, Queues
  <2>2. \A m \in Queues : \A k \in 1..Len(backlog'[m]) :
          \A i \in Slots : client_socket'[i] # backlog'[m][k]
    BY <1>5, <1>7
  <2>3. \A m \in Queues : \A k \in 1..Len(backlog'[m]) :
          /\ conn'[backlog'[m][k]].here = "open" /\ conn'[backlog'[m][k]].to = m
          /\ \A j \in 1..Len(backlog'[m]) : j # k => backlog'[m][j] # backlog'[m][k]
    BY <1>1, <1>5
  <2>4. fd_to_chat_room' = fd_to_chat_room
    BY <1>1
  <2> QED  BY <2>1, <2>2, <2>3, <2>4 DEF QueuesInv
<1>11. SlotsInv'
  BY <1>1, <1>4, <1>7 DEF ChatInvariant, SlotsInv
<1>12. RoomsInv'
  BY <1>1 DEF ChatInvariant, RoomsInv, does_room_exist
<1>13. TurnInv'
  <2>1. \A k \in RoomSlots : ARoom(k) \in read_fd_set' =>
          chat_room_socket[k] # 0 /\ backlog'[chat_room_socket[k]] # <<>>
    <3> SUFFICES ASSUME NEW k \in RoomSlots, ARoom(k) \in read_fd_set \ {x}
                 PROVE  chat_room_socket[k] # 0 /\ backlog'[chat_room_socket[k]] # <<>>
      BY <1>1
    <3>1. chat_room_socket[k] # 0 /\ backlog[chat_room_socket[k]] # <<>>
      BY DEF ChatInvariant, TurnInv
    <3>2. chat_room_socket[k] \in Queues /\ chat_room_socket[k] # l
      BY <3>1 DEF ChatInvariant, TypesInv, ServerTypeOK, Queues
    <3> QED  BY <3>1, <3>2, <1>3
  <2>2. \A i \in Slots : AClient(i) \in read_fd_set' =>
          /\ client_socket'[i] # NoConn
          /\ conn'[client_socket'[i]].up # <<>> \/ conn'[client_socket'[i]].peer # "open"
    <3> SUFFICES ASSUME NEW i \in Slots, AClient(i) \in read_fd_set
                 PROVE  client_socket[i] # NoConn /\ Readable(client_socket[i])
      BY <1>1, <1>7 DEF Readable
    <3> QED  BY DEF ChatInvariant, TurnInv
  <2>3. TheServer \notin read_fd_set'
    BY <1>1
  <2> QED  BY <1>1, <2>1, <2>2, <2>3 DEF TurnInv, Readable
<1>14. MembersOfLiveRooms'
  <2> SUFFICES ASSUME NEW i \in Slots, client_socket'[i] # NoConn, conn[client_socket'[i]].to # Main
               PROVE  /\ fd_to_chat_room[conn[client_socket'[i]].to] # NoRoom
                      /\ client_room_name'[i] = fd_to_chat_room[conn[client_socket'[i]].to].name
    BY <1>1 DEF MembersOfLiveRooms
  <2>1. CASE client_socket'[i] = client_socket[i] /\ client_room_name'[i] = client_room_name[i]
    BY <2>1 DEF ChatInvariant, MembersOfLiveRooms
  <2>2. CASE client_socket'[i] = h /\ (name # NoName => client_room_name'[i] = name)
    <3>1. fd_to_chat_room[l] # NoRoom /\ name = fd_to_chat_room[l].name
      BY <2>2, <1>4
    <3>2. l \in Listeners
      BY <2>2, <1>4 DEF Queues
    <3>3. name \in Names
      BY <3>1, <3>2 DEF ChatInvariant, RoomsInv
    <3> QED  BY <2>2, <3>1, <3>3, <1>4, NameAssumption
  <2> QED  BY <2>1, <2>2, <1>7
<1>15. \A n \in Conns : ClientKept(n)
  BY <1>1 DEF ClientKept
<1> QED  BY <1>9, <1>10, <1>11, <1>12, <1>13, <1>14, <1>15, ClientsUndisturbed
         DEF ChatInvariant, TypesInv

\* The server accepts a client at the main socket.
LEMMA AcceptClientInvariant ==
    ASSUME ChatInvariant, UNCHANGED clientVars, AcceptClient
    PROVE  ChatInvariant'
<1>1. Accept(Main, TheServer, NoName) /\ TheServer \in read_fd_set
  BY DEF AcceptClient, Accept, At
<1>2. backlog[Main] # <<>>
  BY <1>1 DEF ChatInvariant, TurnInv
<1>3. \A k \in RoomSlots : ARoom(k) \in read_fd_set => chat_room_socket[k] # Main
  BY DEF ChatInvariant, TurnInv, Main
<1>4. Main \in Queues /\ TheServer \in Sources /\ \A i \in Slots : TheServer # AClient(i)
  BY SourcesDiffer DEF Queues, Sources
<1> QED  BY <1>1, <1>2, <1>3, <1>4, AcceptInvariant

\* The server accepts a member at the socket of a room.
LEMMA AcceptMemberInvariant ==
    ASSUME ChatInvariant, UNCHANGED clientVars, NEW k \in RoomSlots, AcceptMember(k)
    PROVE  ChatInvariant'
<1> DEFINE l == chat_room_socket[k]
           name == fd_to_chat_room[l].name
<1>1. Accept(l, ARoom(k), name)
  BY DEF AcceptMember
<1>2. At(ARoom(k)) /\ ARoom(k) \in read_fd_set
  BY <1>1 DEF Accept, At
<1>3. l # 0 /\ backlog[l] # <<>>
  BY <1>2 DEF ChatInvariant, TurnInv
<1>4. l \in Listeners /\ l \in Queues
  BY <1>3 DEF ChatInvariant, TypesInv, ServerTypeOK, Queues
<1>5. fd_to_chat_room[l] # NoRoom /\ name \in Names
  BY <1>3, <1>4 DEF ChatInvariant, RoomsInv
<1>6. TheServer \notin read_fd_set
  BY <1>2, TurnOrder
<1>7. \A m \in RoomSlots : m # k => chat_room_socket[m] # l
  BY <1>3 DEF ChatInvariant, RoomsInv
<1>8. ARoom(k) \in Sources /\ \A i \in Slots : ARoom(k) # AClient(i)
  BY SourcesDiffer DEF Sources
<1> HIDE DEF l, name
<1>9. \A m \in RoomSlots : ARoom(m) \in read_fd_set \ {ARoom(k)} => chat_room_socket[m] # l
  BY <1>7
<1>10. l # Main => fd_to_chat_room[l] # NoRoom /\ name = fd_to_chat_room[l].name
  BY <1>5 DEF name
<1> QED  BY <1>1, <1>3, <1>4, <1>5, <1>6, <1>8, <1>9, <1>10, AcceptInvariant

-----------------------------------------------------------------------------
\* The slot whose turn it is.
LEMMA ServedSlot ==
    ASSUME ChatInvariant, NEW i \in Slots, At(AClient(i))
    PROVE  /\ client_socket[i] \in Conns /\ client_socket[i] # NoConn
           /\ conn[client_socket[i]] \in Connections
           /\ conn[client_socket[i]].here = "open"
           /\ Readable(client_socket[i])
           /\ \A j \in Slots : j # i => client_socket[j] # client_socket[i]
           /\ \A l \in Queues : \A k \in 1..Len(backlog[l]) : client_socket[i] # backlog[l][k]
           /\ TheServer \notin read_fd_set
           /\ \A k \in RoomSlots : ARoom(k) \notin read_fd_set
<1>1. AClient(i) \in read_fd_set
  BY DEF At
<1>2. client_socket[i] # NoConn /\ Readable(client_socket[i])
  BY <1>1 DEF ChatInvariant, TurnInv
<1>3. client_socket[i] \in Conns /\ conn[client_socket[i]] \in Connections
  BY <1>2 DEF ChatInvariant, TypesInv, NetTypeOK, ServerTypeOK
<1>4. /\ conn[client_socket[i]].here = "open"
      /\ \A j \in Slots : j # i => client_socket[j] # client_socket[i]
  BY <1>2 DEF ChatInvariant, SlotsInv
<1>5. \A l \in Queues : \A k \in 1..Len(backlog[l]) : client_socket[i] # backlog[l][k]
  BY DEF ChatInvariant, QueuesInv
<1> QED  BY <1>2, <1>3, <1>4, <1>5, TurnOrder

(***************************************************************************)
(* A slot is served and gives up its connection.                           *)
(***************************************************************************)
LEMMA SlotFreedInvariant ==
    ASSUME ChatInvariant, UNCHANGED <<backlog, tables, clientVars>>,
           NEW i \in Slots, At(AClient(i)), Pass(AClient(i)),
           NEW r \in Connections, conn' = [conn EXCEPT ![client_socket[i]] = r],
           client_socket' = [client_socket EXCEPT ![i] = NoConn],
           client_room_name' = client_room_name
             \/ client_room_name' = [client_room_name EXCEPT ![i] = NoName],
           ClientKept(client_socket[i])
    PROVE  ChatInvariant'
<1> DEFINE n == client_socket[i]
<1> USE DEF tables
<1>1. /\ n \in Conns /\ \A j \in Slots : j # i => client_socket[j] # n
      /\ \A l \in Queues : \A k \in 1..Len(backlog[l]) : n # backlog[l][k]
      /\ TheServer \notin read_fd_set /\ \A k \in RoomSlots : ARoom(k) \notin read_fd_set
  BY ServedSlot
<1>2. /\ conn \in [Conns -> Connections] /\ backlog \in [Queues -> Seq(Conns)]
      /\ client_socket \in [Slots -> Conns \cup {NoConn}]
      /\ client_room_name \in [Slots -> Names \cup {NoName}]
  BY DEF ChatInvariant, TypesInv, NetTypeOK, ServerTypeOK
<1>3. /\ conn' \in [Conns -> Connections]
      /\ \A m \in Conns : m # n => conn'[m] = conn[m]
  BY <1>1, <1>2
<1>4. /\ client_socket' \in [Slots -> Conns \cup {NoConn}] /\ client_socket'[i] = NoConn
      /\ client_room_name' \in [Slots -> Names \cup {NoName}]
      /\ \A j \in Slots : j # i => /\ client_socket'[j] = client_socket[j]
                                   /\ client_room_name'[j] = client_room_name[j]
  BY <1>2
<1> HIDE DEF n
<1>5. \A j \in Slots : client_socket'[j] # NoConn =>
        /\ j # i /\ client_socket'[j] = client_socket[j] /\ client_socket[j] \in Conns
        /\ conn'[client_socket[j]] = conn[client_socket[j]]
  BY <1>1, <1>2, <1>3, <1>4
<1>6. read_fd_set' = read_fd_set \ {AClient(i)}
  BY DEF Pass
<1>7. NetTypeOK' /\ ServerTypeOK'
  BY <1>2, <1>3, <1>4, <1>6 DEF ChatInvariant, TypesInv, NetTypeOK, ServerTypeOK
<1>8. QueuesInv'
  <2>1. \A l \in Queues : \A k \in 1..Len(backlog[l]) : conn'[backlog[l][k]] = conn[backlog[l][k]]
    BY <1>1, <1>2, <1>3
  <2>2. \A l \in Queues : \A k \in 1..Len(backlog[l]) : \A j \in Slots :
          client_socket'[j] # backlog[l][k]
    <3>1. \A l \in Queues : \A k \in 1..Len(backlog[l]) : backlog[l][k] # NoConn
      <4>1. \A l \in Queues : \A k \in 1..Len(backlog[l]) : backlog[l][k] \in Conns
        BY <1>2
      <4> QED  BY <4>1 DEF Conns, NoConn
    <3> QED  BY <3>1, <1>5 DEF ChatInvariant, QueuesInv
  <2> QED  BY <2>1, <2>2 DEF ChatInvariant, QueuesInv
<1>9. SlotsInv'
  BY <1>4, <1>5 DEF ChatInvariant, SlotsInv
<1>10. RoomsInv'
  BY DEF ChatInvariant, RoomsInv, does_room_exist
<1>11. TurnInv'
  BY <1>1, <1>5, <1>4, <1>6, SourcesDiffer DEF ChatInvariant, TurnInv, Readable
<1>12. MembersOfLiveRooms'
  BY <1>4, <1>5 DEF ChatInvariant, MembersOfLiveRooms
<1>13. \A m \in Conns : ClientKept(m)
  BY <1>3 DEF ClientKept, n
<1> QED  BY <1>7, <1>8, <1>9, <1>10, <1>11, <1>12, <1>13, ClientsUndisturbed
         DEF ChatInvariant, TypesInv

\* read returns 0: the client has left, so it is no matter to any client.
LEMMA HangUpInvariant ==
    ASSUME ChatInvariant, UNCHANGED clientVars, NEW i \in Slots, HangUp(i)
    PROVE  ChatInvariant'
<1> DEFINE n == client_socket[i]
           r == CloseHere(conn[n])
<1>1. At(AClient(i)) /\ Pass(AClient(i)) /\ conn[n].up = <<>>
  BY DEF HangUp
<1>2. n \in Conns /\ conn[n] \in Connections /\ conn[n].peer # "open"
  BY <1>1, ServedSlot DEF Readable
<1>3. ClientKept(n)
  BY <1>2 DEF ClientKept
<1>4. r \in Connections /\ conn' = [conn EXCEPT ![n] = r]
  BY <1>2, CloseHereEffect DEF HangUp
<1> QED  BY <1>1, <1>3, <1>4, SlotFreedInvariant DEF HangUp

\* The message of the slot, when the server survives reading it.
LEMMA CommandMessage ==
    ASSUME ChatInvariant, NEW i \in Slots, NEW verb \in {"CREATE", "JOIN", "LIST", "DELETE", "TEXT"},
           Command(i, verb)
    PROVE  /\ At(AClient(i))
           /\ conn[client_socket[i]].up # <<>>
           /\ Message(i) \in Lines /\ Message(i).verb = verb
           /\ verb \in {"CREATE", "JOIN", "DELETE"} => Message(i).arg \in Names
<1>1. At(AClient(i)) /\ conn[client_socket[i]].up # <<>> /\ Message(i).verb = verb
      /\ ~Chokes(Message(i))
  BY DEF Command, Says, HasMessage
<1>2. conn[client_socket[i]].up \in Seq(Lines)
  BY <1>1, ServedSlot DEF Connections
<1>3. Message(i) \in Lines
  BY <1>1, <1>2, HeadTailProperties DEF Message
<1> QED  BY <1>1, <1>3, LineTypes DEF Chokes

\* Counting the rooms and the members gives numbers.
LEMMA CountTypes ==
    /\ RoomCount \in Nat
    /\ \A r \in Names : MemberCount(r) \in Nat
<1>1. IsFiniteSet(Slots) /\ IsFiniteSet(Names)
  BY FS_Interval, SizeAssumption DEF Slots
<1>2. RoomCount \in Nat
  BY <1>1, FS_Subset, FS_CardinalityType DEF RoomCount
<1>3. ASSUME NEW r \in Names PROVE MemberCount(r) \in Nat
  BY <1>1, FS_Subset, FS_CardinalityType DEF MemberCount
<1> QED  BY <1>2, <1>3

\* JOIN: the reply first, and then the close.
LEMMA JoinInvariant ==
    ASSUME ChatInvariant, UNCHANGED clientVars, NEW i \in Slots, Join(i)
    PROVE  ChatInvariant'
<1> DEFINE n == client_socket[i]
           name == Message(i).arg
           reply == IF does_room_exist(name)
                    THEN Reply("SUCCESS", chat_room_db[name], MemberCount(name))
                    ELSE Reply("NOT_EXISTS", 0, 0)
           r == CloseHere(Deliver(conn[n], reply))
<1>1. /\ Command(i, "JOIN") /\ Pass(AClient(i))
      /\ conn' = [conn EXCEPT ![n] = r]
      /\ client_socket' = [client_socket EXCEPT ![i] = NoConn]
      /\ UNCHANGED <<backlog, tables, client_room_name>>
  BY DEF Join
<1>2. At(AClient(i)) /\ name \in Names
  BY <1>1, CommandMessage
<1>3. n \in Conns /\ conn[n] \in Connections
  BY <1>2, ServedSlot
<1>4. reply \in Messages
  BY <1>2, CountTypes, MessageTypes DEF ChatInvariant, TypesInv, ServerTypeOK
<1> HIDE DEF reply
<1>5. /\ Deliver(conn[n], reply) \in Connections
      /\ conn[n].peer = "open" => /\ Deliver(conn[n], reply).peer = "open"
                                  /\ Deliver(conn[n], reply).to = conn[n].to
                                  /\ Deliver(conn[n], reply).down # <<>>
  BY <1>3, <1>4, DeliverEffect
<1>6. /\ r \in Connections
      /\ conn[n].peer = "open" => r.peer = "open" /\ r.to = conn[n].to /\ r.down # <<>>
  BY <1>5, CloseHereEffect
<1> HIDE DEF r
<1>7. conn'[n] = r
  BY <1>1, <1>3 DEF ChatInvariant, TypesInv, NetTypeOK
<1>8. ClientKept(n)
  BY <1>6, <1>7 DEF ClientKept
<1> QED  BY <1>1, <1>2, <1>6, <1>8, SlotFreedInvariant

(***************************************************************************)
(* A slot is served and keeps its connection; every connection stays open  *)
(* or closed at the server's end, and rooms are at most added.             *)
(***************************************************************************)
LEMMA SlotKeptInvariant ==
    ASSUME ChatInvariant, UNCHANGED <<backlog, client_socket, client_room_name, clientVars>>,
           NEW i \in Slots, At(AClient(i)), Pass(AClient(i)),
           conn' \in [Conns -> Connections],
           \A n \in Conns :
             /\ conn'[n].here = conn[n].here /\ conn'[n].to = conn[n].to
             /\ n # client_socket[i] =>
                  conn'[n].up = conn[n].up /\ (conn[n].peer # "open" => conn'[n].peer # "open"),
           \A n \in Conns : ClientKept(n),
           \A l \in Listeners : fd_to_chat_room[l] # NoRoom => fd_to_chat_room'[l] = fd_to_chat_room[l],
           chat_room_db' \in [Names -> Nat],
           fd_to_chat_room' \in [Listeners -> [name : Names \cup {NoName}, port : Nat]],
           chat_room_socket' \in [RoomSlots -> Listeners \cup {0}],
           RoomsInv'
    PROVE  ChatInvariant'
<1>1. /\ \A j \in Slots : j # i => client_socket[j] # client_socket[i]
      /\ TheServer \notin read_fd_set /\ \A k \in RoomSlots : ARoom(k) \notin read_fd_set
  BY ServedSlot
<1>2. backlog \in [Queues -> Seq(Conns)] /\ client_socket \in [Slots -> Conns \cup {NoConn}]
  BY DEF ChatInvariant, TypesInv, NetTypeOK, ServerTypeOK
<1>3. read_fd_set' = read_fd_set \ {AClient(i)}
  BY DEF Pass
<1>4. \A l \in Queues : \A k \in 1..Len(backlog[l]) : backlog[l][k] \in Conns
  BY <1>2
<1>5. NetTypeOK' /\ ServerTypeOK'
  BY <1>3 DEF ChatInvariant, TypesInv, NetTypeOK, ServerTypeOK
<1>6. QueuesInv'
  <2>1. \A l \in Listeners : fd_to_chat_room'[l] = NoRoom => backlog[l] = <<>>
    BY DEF ChatInvariant, QueuesInv
  <2>2. \A l \in Queues : \A k \in 1..Len(backlog[l]) :
          conn'[backlog[l][k]].here = "open" /\ conn'[backlog[l][k]].to = l
    BY SMTT(30), <1>4 DEF ChatInvariant, QueuesInv
  <2>3. \A l \in Queues : \A k \in 1..Len(backlog[l]) :
          /\ \A j \in Slots : client_socket[j] # backlog[l][k]
          /\ \A j \in 1..Len(backlog[l]) : j # k => backlog[l][j] # backlog[l][k]
    BY DEF ChatInvariant, QueuesInv
  <2> QED  BY <2>1, <2>2, <2>3 DEF QueuesInv
<1>7. SlotsInv'
  <2>1. ASSUME NEW j \in Slots, client_socket[j] # NoConn
        PROVE  /\ conn'[client_socket[j]].here = "open"
               /\ \A q \in Slots : q # j => client_socket[q] # client_socket[j]
    <3>1. client_socket[j] \in Conns
      BY <1>2, <2>1
    <3>2. /\ conn[client_socket[j]].here = "open"
          /\ \A q \in Slots : q # j => client_socket[q] # client_socket[j]
      BY <2>1 DEF ChatInvariant, SlotsInv
    <3> QED  BY <3>1, <3>2
  <2> QED  BY <2>1 DEF SlotsInv
<1>8. TurnInv'
  <2>1. \A j \in Slots : AClient(j) \in read_fd_set' =>
          client_socket[j] # NoConn /\ Readable(client_socket[j])'
    <3> SUFFICES ASSUME NEW j \in Slots, AClient(j) \in read_fd_set, j # i
                 PROVE  client_socket[j] # NoConn /\ Readable(client_socket[j])'
      BY <1>3
    <3>1. client_socket[j] # NoConn /\ Readable(client_socket[j])
      BY DEF ChatInvariant, TurnInv
    <3> QED  BY <3>1, <1>1, <1>2 DEF Readable
  <2> QED  BY <2>1, <1>1, <1>3 DEF TurnInv
<1>9. MembersOfLiveRooms'
  <2> SUFFICES ASSUME NEW j \in Slots, client_socket[j] # NoConn, conn'[client_socket[j]].to # Main
               PROVE  /\ fd_to_chat_room'[conn'[client_socket[j]].to] # NoRoom
                      /\ client_room_name[j] = fd_to_chat_room'[conn'[client_socket[j]].to].name
    BY DEF MembersOfLiveRooms
  <2>1. client_socket[j] \in Conns /\ conn'[client_socket[j]].to = conn[client_socket[j]].to
    BY <1>2
  <2>2. conn[client_socket[j]].to \in Listeners
    BY <2>1 DEF ChatInvariant, TypesInv, NetTypeOK, Connections, Queues
  <2> QED  BY <2>1, <2>2 DEF ChatInvariant, MembersOfLiveRooms
<1> QED  BY <1>5, <1>6, <1>7, <1>8, <1>9, ClientsUndisturbed DEF ChatInvariant, TypesInv

\* The message of the slot is consumed and answered with m.
LEMMA AnswerEffect ==
    ASSUME ChatInvariant, NEW i \in Slots, At(AClient(i)), conn[client_socket[i]].up # <<>>,
           NEW m \in Messages, Answer(i, m)
    PROVE  /\ conn' \in [Conns -> Connections]
           /\ \A n \in Conns :
                /\ conn'[n].here = conn[n].here /\ conn'[n].to = conn[n].to
                /\ n # client_socket[i] =>
                     conn'[n].up = conn[n].up /\ (conn[n].peer # "open" => conn'[n].peer # "open")
           /\ \A n \in Conns : ClientKept(n)
<1> DEFINE k == client_socket[i]
           s == Consume(conn[k])
           r == Deliver(s, m)
<1>1. conn' = [conn EXCEPT ![k] = r]
  BY DEF Answer
<1>2. k \in Conns /\ conn[k] \in Connections /\ conn \in [Conns -> Connections]
  BY ServedSlot DEF ChatInvariant, TypesInv, NetTypeOK
<1>3. s \in Connections /\ s.here = conn[k].here /\ s.to = conn[k].to
      /\ s.peer = conn[k].peer /\ s.down = conn[k].down
  BY <1>2, ConsumeEffect
<1> HIDE DEF s
<1>4. /\ r \in Connections /\ r.here = s.here /\ r.to = s.to
      /\ s.peer = "open" => r.peer = "open" /\ r.down # <<>>
  BY <1>3, DeliverEffect
<1> HIDE DEF r
<1>5. /\ conn' \in [Conns -> Connections] /\ conn'[k] = r
      /\ \A n \in Conns : n # k => conn'[n] = conn[n]
  BY <1>1, <1>2, <1>4
<1> HIDE DEF k
<1> QED  BY <1>3, <1>4, <1>5 DEF ClientKept, k

\* LIST, and DELETE of a room that is not there, only answer.
LEMMA ListInvariant ==
    ASSUME ChatInvariant, UNCHANGED clientVars, NEW i \in Slots, List(i) \/ DeleteMissing(i)
    PROVE  ChatInvariant'
<1> DEFINE reply == IF List(i) THEN Reply("SUCCESS", 0, 0) ELSE Reply("NOT_EXISTS", 0, 0)
<1>1. /\ Command(i, "LIST") \/ Command(i, "DELETE")
      /\ Pass(AClient(i)) /\ Answer(i, reply)
      /\ UNCHANGED <<backlog, tables, client_socket, client_room_name>>
  BY DEF List, DeleteMissing
<1>2. reply \in Messages
  BY MessageTypes
<1>3. At(AClient(i)) /\ conn[client_socket[i]].up # <<>>
  BY <1>1, CommandMessage
<1>4. RoomsInv'
  BY <1>1 DEF ChatInvariant, RoomsInv, does_room_exist, tables
<1>5. /\ chat_room_db \in [Names -> Nat] /\ chat_room_socket \in [RoomSlots -> Listeners \cup {0}]
      /\ fd_to_chat_room \in [Listeners -> [name : Names \cup {NoName}, port : Nat]]
  BY DEF ChatInvariant, TypesInv, ServerTypeOK
<1> HIDE DEF reply
<1> QED  BY <1>1, <1>2, <1>3, <1>4, <1>5, AnswerEffect, SlotKeptInvariant DEF tables

\* A text goes to connections of other slots, in the room of this one.
LEMMA RelayTargets ==
    ASSUME ChatInvariant, NEW i \in Slots, Command(i, "TEXT")
    PROVE  /\ client_socket[i] \notin Targets(i)
           /\ Targets(i) = IF client_room_name[i] = NoName THEN {}
                           ELSE {client_socket[j] : j \in InRoom(client_room_name[i]) \ {i}}
<1>1. At(AClient(i)) /\ Message(i).verb = "TEXT"
  BY CommandMessage
<1>2. Targets(i) = IF client_room_name[i] = NoName THEN {}
                   ELSE {client_socket[j] : j \in InRoom(client_room_name[i]) \ {i}}
  BY <1>1 DEF Targets
<1>3. \A j \in Slots : j # i => client_socket[j] # client_socket[i]
  BY <1>1, ServedSlot
<1> QED  BY <1>2, <1>3 DEF InRoom

\* A text leaves every connection where it is; those it goes to get more to read.
LEMMA RelayInvariant ==
    ASSUME ChatInvariant, UNCHANGED clientVars, NEW i \in Slots, Relay(i)
    PROVE  ChatInvariant'
<1> DEFINE k == client_socket[i]
           s == Consume(conn[k])
           T == Targets(i)
           m == Notice("text")
<1>1. /\ Command(i, "TEXT") /\ Pass(AClient(i))
      /\ conn' = [n \in Conns |-> CASE n = k -> Consume(conn[n])
                                    [] n \in T -> Deliver(conn[n], m)
                                    [] OTHER -> conn[n]]
      /\ UNCHANGED <<backlog, tables, client_socket, client_room_name>>
  BY DEF Relay
<1>2. At(AClient(i)) /\ conn[k].up # <<>>
  BY <1>1, CommandMessage
<1>3. conn[k] \in Connections /\ conn \in [Conns -> Connections]
  BY <1>2, ServedSlot DEF ChatInvariant, TypesInv, NetTypeOK
<1>4. s \in Connections /\ s.here = conn[k].here /\ s.to = conn[k].to
      /\ s.peer = conn[k].peer /\ s.down = conn[k].down
  BY <1>2, <1>3, ConsumeEffect
<1> HIDE DEF k, T
<1>5. ASSUME NEW n \in Conns
      PROVE  /\ conn'[n] \in Connections
             /\ conn'[n].here = conn[n].here /\ conn'[n].to = conn[n].to
             /\ n # k => conn'[n].up = conn[n].up /\ (conn[n].peer # "open" => conn'[n].peer # "open")
             /\ conn[n].peer = "open" => conn'[n].peer = "open"
             /\ conn[n].peer = "open" /\ conn[n].down # <<>> => conn'[n].down # <<>>
  <2>1. CASE n = k
    <3>1. n \notin T
      BY <1>1, <2>1, RelayTargets DEF k, T
    <3>2. conn'[n] = Consume(conn[n])
      BY <1>1, <2>1, <3>1
    <3> QED  BY <3>2, <1>4, <2>1
  <2>2. CASE n # k /\ n \in T
    <3>1. conn'[n] = Deliver(conn[n], m)
      BY <1>1, <2>2
    <3>2. conn[n] \in Connections /\ m \in Messages
      BY <1>3, MessageTypes
    <3> QED  BY <3>1, <3>2, <2>2, DeliverEffect
  <2>3. CASE n # k /\ n \notin T
    BY <1>1, <1>3, <2>3
  <2> QED  BY <2>1, <2>2, <2>3
<1>6. conn' \in [Conns -> Connections]
  BY <1>1, <1>5
<1>7. \A n \in Conns : ClientKept(n)
  BY <1>5 DEF ClientKept
<1>8. RoomsInv'
  BY <1>1 DEF ChatInvariant, RoomsInv, does_room_exist, tables
<1>9. /\ chat_room_db \in [Names -> Nat] /\ chat_room_socket \in [RoomSlots -> Listeners \cup {0}]
      /\ fd_to_chat_room \in [Listeners -> [name : Names \cup {NoName}, port : Nat]]
  BY DEF ChatInvariant, TypesInv, ServerTypeOK
<1> QED  BY <1>1, <1>2, <1>5, <1>6, <1>7, <1>8, <1>9, SlotKeptInvariant DEF tables, k

\* The process ends: nothing else happens any more.
LEMMA DieInvariant ==
    ASSUME ChatInvariant, UNCHANGED clientVars, NEW i \in Slots, Die(i)
    PROVE  ChatInvariant'
<1>1. UNCHANGED <<conn, backlog, chat_room_db, fd_to_chat_room, chat_room_socket,
                  client_socket, client_room_name, read_fd_set>>
  BY DEF Die, netVars, tables
<1>2. \A n \in Conns : ClientKept(n)
  BY <1>1 DEF ClientKept
<1>3. NetTypeOK' /\ ServerTypeOK'
  BY <1>1 DEF ChatInvariant, TypesInv, NetTypeOK, ServerTypeOK
<1>4. QueuesInv' /\ SlotsInv' /\ MembersOfLiveRooms' /\ TurnInv'
  BY <1>1 DEF ChatInvariant, QueuesInv, SlotsInv, MembersOfLiveRooms, TurnInv, Readable
<1>5. RoomsInv'
  BY <1>1 DEF ChatInvariant, RoomsInv, does_room_exist
<1> QED  BY <1>2, <1>3, <1>4, <1>5, ClientsUndisturbed DEF ChatInvariant, TypesInv

-----------------------------------------------------------------------------
(***************************************************************************)
(* CREATE: as long as there is a name without a room, there is a listening *)
(* socket without one, for live rooms have different names.                *)
(***************************************************************************)
LEMMA FreeListener ==
    ASSUME ChatInvariant, NEW r \in Names, ~does_room_exist(r)
    PROVE  \E x \in Listeners : fd_to_chat_room[x] = NoRoom
<1> SUFFICES ASSUME \A x \in Listeners : fd_to_chat_room[x] # NoRoom PROVE FALSE
  OBVIOUS
<1> DEFINE f == [x \in Listeners |-> fd_to_chat_room[x].name]
           others == Names \ {r}
<1>1. f \in [Listeners -> others]
  BY DEF ChatInvariant, RoomsInv, does_room_exist
<1>2. IsFiniteSet(Listeners) /\ Cardinality(Listeners) = MaxListeners
  BY FS_Interval, NetAssumption DEF Listeners
<1>3. IsFiniteSet(others) /\ Cardinality(others) = Cardinality(Names) - 1
  BY FS_RemoveElement, SizeAssumption
<1>4. Cardinality(others) < Cardinality(Listeners)
  BY <1>2, <1>3, FS_CardinalityType, SizeAssumption, NetAssumption
<1> HIDE DEF f, others
<1>5. \E x, y \in Listeners : x # y /\ f[x] = f[y]
  BY <1>1, <1>2, <1>3, <1>4, FS_PigeonHole
<1> QED  BY <1>5 DEF f, ChatInvariant, RoomsInv

\* CREATE makes a room with a socket and a port of its own.
LEMMA CreateInvariant ==
    ASSUME ChatInvariant, UNCHANGED clientVars, NEW i \in Slots, Create(i)
    PROVE  ChatInvariant'
<1> DEFINE r == Message(i).arg
           free == {x \in Listeners : fd_to_chat_room[x] = NoRoom}
           l == Min(free)
           new_port == 1 + RoomCount
           unused == {k \in RoomSlots : chat_room_socket[k] = 0}
<1>1. /\ Command(i, "CREATE") /\ Pass(AClient(i))
      /\ UNCHANGED <<backlog, client_socket, client_room_name>>
  BY DEF Create
<1>2. At(AClient(i)) /\ conn[client_socket[i]].up # <<>> /\ r \in Names
  BY <1>1, CommandMessage
<1>3. /\ chat_room_db \in [Names -> Nat] /\ chat_room_socket \in [RoomSlots -> Listeners \cup {0}]
      /\ fd_to_chat_room \in [Listeners -> [name : Names \cup {NoName}, port : Nat]]
  BY DEF ChatInvariant, TypesInv, ServerTypeOK
<1>4. Reply("ALREADY_EXISTS", 0, 0) \in Messages /\ Reply("SUCCESS", 0, 0) \in Messages
  BY MessageTypes
<1>5. CASE does_room_exist(r)
  <2>1. Answer(i, Reply("ALREADY_EXISTS", 0, 0)) /\ UNCHANGED tables
    BY <1>5 DEF Create
  <2>2. RoomsInv'
    BY <2>1 DEF ChatInvariant, RoomsInv, does_room_exist, tables
  <2> QED  BY <1>1, <1>2, <1>3, <1>4, <2>1, <2>2, AnswerEffect, SlotKeptInvariant DEF tables
<1>6. CASE ~does_room_exist(r)
  <2>1. /\ Answer(i, Reply("SUCCESS", 0, 0))
        /\ chat_room_db' = [chat_room_db EXCEPT ![r] = new_port]
        /\ fd_to_chat_room' = [fd_to_chat_room EXCEPT ![l] = [name |-> r, port |-> new_port]]
        /\ chat_room_socket' = IF unused = {} THEN chat_room_socket
                               ELSE [chat_room_socket EXCEPT ![Min(unused)] = l]
    BY <1>6 DEF Create
  <2>2. l \in Listeners /\ fd_to_chat_room[l] = NoRoom
    <3>1. free # {}
      BY <1>2, <1>6, FreeListener
    <3>2. free \in SUBSET Nat
      BY DEF Listeners
    <3> QED  BY <3>1, <3>2, MinMember
  <2>3. new_port \in Nat /\ new_port # 0
    BY CountTypes
  <2>4. unused # {} => Min(unused) \in RoomSlots
    <3>1. unused \in SUBSET Nat
      BY DEF RoomSlots
    <3> QED  BY <3>1, MinMember
  <2>5. /\ \A q \in Names : chat_room_db'[q] = IF q = r THEN new_port ELSE chat_room_db[q]
        /\ chat_room_db' \in [Names -> Nat]
    <3> HIDE DEF new_port, r
    <3> QED  BY <1>2, <1>3, <2>1, <2>3
  <2>6. /\ \A m \in Listeners : m # l => fd_to_chat_room'[m] = fd_to_chat_room[m]
        /\ fd_to_chat_room'[l] = [name |-> r, port |-> new_port]
        /\ fd_to_chat_room' \in [Listeners -> [name : Names \cup {NoName}, port : Nat]]
    <3> HIDE DEF new_port, r, l
    <3> QED  BY <1>2, <1>3, <2>1, <2>2, <2>3
  <2>7. /\ chat_room_socket' \in [RoomSlots -> Listeners \cup {0}]
        /\ \A k \in RoomSlots :
             \/ chat_room_socket'[k] = chat_room_socket[k]
             \/ /\ chat_room_socket'[k] = l
                /\ \A j \in RoomSlots : j # k => chat_room_socket'[j] = chat_room_socket[j]
    <3> HIDE DEF l, unused
    <3> QED  BY <1>3, <2>1, <2>2, <2>4
  <2> HIDE DEF l, r, new_port, unused
  <2>8. \A m \in Listeners : fd_to_chat_room[m] # NoRoom =>
          m # l /\ fd_to_chat_room[m].name \in Names /\ fd_to_chat_room[m].name # r
    BY <1>6, <2>2 DEF ChatInvariant, RoomsInv, does_room_exist
  <2>9. \A k \in RoomSlots : chat_room_socket[k] # 0 => chat_room_socket[k] # l
    BY <1>3, <2>2 DEF ChatInvariant, RoomsInv
  <2>10. RoomsInv'
    <3>1. \A m \in Listeners : fd_to_chat_room'[m] # NoRoom =>
            /\ fd_to_chat_room'[m].name \in Names
            /\ fd_to_chat_room'[m].port = chat_room_db'[fd_to_chat_room'[m].name]
            /\ fd_to_chat_room'[m].port # 0
      BY <1>2, <2>3, <2>5, <2>6, <2>8 DEF ChatInvariant, RoomsInv
    <3>2. \A q \in Names : chat_room_db'[q] # 0 => \E m \in Listeners : fd_to_chat_room'[m].name = q
      <4> SUFFICES ASSUME NEW q \in Names, chat_room_db'[q] # 0, q # r
                   PROVE  \E m \in Listeners : fd_to_chat_room'[m].name = q
        BY <2>2, <2>6
      <4>1. PICK m \in Listeners : fd_to_chat_room[m].name = q
        BY <2>5 DEF ChatInvariant, RoomsInv, does_room_exist
      <4>2. m # l
        BY <4>1, <2>2, NameAssumption DEF NoRoom
      <4> QED  BY <4>1, <4>2, <2>6
    <3>3. \A m, q \in Listeners :
            fd_to_chat_room'[m] # NoRoom /\ fd_to_chat_room'[m].name = fd_to_chat_room'[q].name
              => m = q
      <4> SUFFICES ASSUME NEW m \in Listeners, NEW q \in Listeners, m # q,
                          fd_to_chat_room'[m] # NoRoom,
                          fd_to_chat_room'[m].name = fd_to_chat_room'[q].name
                   PROVE  FALSE
        OBVIOUS
      <4>1. \A x \in Listeners : fd_to_chat_room[x] = NoRoom => fd_to_chat_room[x].name = NoName
        BY DEF NoRoom
      <4>2. CASE m = l
        BY <1>2, <2>6, <2>8, <4>1, <4>2, NameAssumption
      <4>3. CASE q = l
        BY <1>2, <2>6, <2>8, <4>3
      <4>4. CASE m # l /\ q # l
        BY <2>6, <4>4 DEF ChatInvariant, RoomsInv
      <4> QED  BY <4>2, <4>3, <4>4
    <3>4. \A k \in RoomSlots : chat_room_socket'[k] # 0 =>
            /\ fd_to_chat_room'[chat_room_socket'[k]] # NoRoom
            /\ \A j \in RoomSlots : j # k => chat_room_socket'[j] # chat_room_socket'[k]
      <4>1. fd_to_chat_room'[l] # NoRoom
        BY <1>2, <2>6, NameAssumption DEF NoRoom
      <4>2. \A k \in RoomSlots : chat_room_socket[k] # 0 =>
              /\ chat_room_socket[k] \in Listeners /\ chat_room_socket[k] # l
              /\ fd_to_chat_room[chat_room_socket[k]] # NoRoom
              /\ \A j \in RoomSlots : j # k => chat_room_socket[j] # chat_room_socket[k]
        BY <1>3, <2>9 DEF ChatInvariant, RoomsInv
      <4>3. 0 # l
        BY <2>2 DEF Listeners
      <4>4. ASSUME NEW k \in RoomSlots, chat_room_socket'[k] # 0
            PROVE  fd_to_chat_room'[chat_room_socket'[k]] # NoRoom
        BY <2>6, <2>7, <4>1, <4>2, <4>4
      <4>5. ASSUME NEW k \in RoomSlots, chat_room_socket'[k] # 0, NEW j \in RoomSlots, j # k
            PROVE  chat_room_socket'[j] # chat_room_socket'[k]
        BY <2>7, <4>2, <4>3, <4>5
      <4> QED  BY <4>4, <4>5
    <3> QED  BY <3>1, <3>2, <3>3, <3>4 DEF RoomsInv, does_room_exist
  <2>11. \A m \in Listeners : fd_to_chat_room[m] # NoRoom => fd_to_chat_room'[m] = fd_to_chat_room[m]
    BY <2>6, <2>8
  <2> QED  BY <1>1, <1>2, <1>4, <2>1, <2>5, <2>6, <2>7, <2>10, <2>11,
              AnswerEffect, SlotKeptInvariant
<1> QED  BY <1>5, <1>6

(***************************************************************************)
(* DELETE: the room's socket with what waits there, its members and their  *)
(* slots all go at once; nobody else's connection ends.                    *)
(***************************************************************************)
LEMMA DeleteInvariant ==
    ASSUME ChatInvariant, UNCHANGED clientVars, NEW i \in Slots, Delete(i)
    PROVE  ChatInvariant'
<1> DEFINE r == Message(i).arg
           l == CHOOSE x \in Listeners : fd_to_chat_room[x].name = r
           kicked == InRoom(r)
           members == {client_socket[j] : j \in kicked}
           waiting == Range(backlog[l])
           k == client_socket[i]
<1>1. /\ Command(i, "DELETE") /\ does_room_exist(r)
      /\ conn' = [n \in Conns |->
                    CASE n \in waiting -> CloseHere(conn[n])
                      [] n \in members -> CloseHere(Deliver(conn[n], Notice("closing")))
                      [] n = k /\ n \notin members ->
                           Deliver(Consume(conn[n]), Reply("SUCCESS", 0, 0))
                      [] OTHER -> conn[n]]
      /\ client_socket' = [j \in Slots |-> IF j \in kicked THEN NoConn ELSE client_socket[j]]
      /\ client_room_name' = [j \in Slots |-> IF j \in kicked THEN NoName ELSE client_room_name[j]]
      /\ read_fd_set' = read_fd_set \ ({AClient(j) : j \in kicked} \cup {AClient(i)})
      /\ fd_to_chat_room' = [fd_to_chat_room EXCEPT ![l] = NoRoom]
      /\ chat_room_db' = [chat_room_db EXCEPT ![r] = 0]
      /\ backlog' = [backlog EXCEPT ![l] = <<>>]
      /\ chat_room_socket' = [j \in RoomSlots |->
                                IF chat_room_socket[j] = l THEN 0 ELSE chat_room_socket[j]]
  BY DEF Delete
<1>2. At(AClient(i)) /\ conn[k].up # <<>> /\ r \in Names
  BY <1>1, CommandMessage
<1>3. /\ k \in Conns /\ k # NoConn
      /\ \A j \in Slots : j # i => client_socket[j] # k
      /\ \A m \in Queues : \A q \in 1..Len(backlog[m]) : k # backlog[m][q]
      /\ TheServer \notin read_fd_set /\ \A j \in RoomSlots : ARoom(j) \notin read_fd_set
  BY <1>2, ServedSlot
<1>4. l \in Listeners /\ fd_to_chat_room[l].name = r /\ fd_to_chat_room[l] # NoRoom
  BY <1>1, <1>2, NameAssumption DEF ChatInvariant, RoomsInv, NoRoom
<1>5. /\ conn \in [Conns -> Connections] /\ backlog \in [Queues -> Seq(Conns)]
      /\ client_socket \in [Slots -> Conns \cup {NoConn}]
      /\ client_room_name \in [Slots -> Names \cup {NoName}]
      /\ chat_room_db \in [Names -> Nat] /\ chat_room_socket \in [RoomSlots -> Listeners \cup {0}]
      /\ fd_to_chat_room \in [Listeners -> [name : Names \cup {NoName}, port : Nat]]
  BY DEF ChatInvariant, TypesInv, NetTypeOK, ServerTypeOK
<1>6. l \in Queues /\ \A m \in Queues : \A q \in 1..Len(backlog[m]) : backlog[m][q] \in Conns
  BY <1>4, <1>5 DEF Queues
\* What waits is at the socket of the room, and in no slot.
<1>7. \A n \in waiting : \E q \in 1..Len(backlog[l]) : n = backlog[l][q]
  <2>1. backlog[l] \in Seq(Conns)
    BY <1>5, <1>6
  <2> QED  BY <2>1, RangeEquality DEF Range
<1>8. \A n \in waiting : /\ conn[n].to = l
                         /\ \A j \in Slots : client_socket[j] # n
  <2> HIDE DEF l, waiting
  <2>1. \A q \in 1..Len(backlog[l]) : /\ conn[backlog[l][q]].to = l
                                      /\ \A j \in Slots : client_socket[j] # backlog[l][q]
    BY <1>6 DEF ChatInvariant, QueuesInv
  <2> QED  BY <2>1, <1>7
<1>9. members \subseteq Conns /\ members \cap waiting = {} /\ k \notin waiting
  BY SMTT(30), <1>5, <1>8 DEF InRoom
<1>10. \A j \in Slots : j \in kicked <=> client_socket[j] # NoConn /\ client_room_name[j] = r
  BY DEF InRoom
<1> HIDE DEF l, r, kicked, waiting, k
<1>11. ASSUME NEW n \in Conns
       PROVE  /\ conn'[n] \in Connections
              /\ conn[n].peer = "open" =>
                   /\ conn'[n].peer = "open" /\ conn'[n].to = conn[n].to
                   /\ conn[n].down # <<>> => conn'[n].down # <<>>
                   /\ n \in members => conn'[n].down # <<>>
              /\ n \notin waiting \cup members =>
                   /\ conn'[n].here = conn[n].here /\ conn'[n].to = conn[n].to
                   /\ n # k => conn'[n] = conn[n]
  <2> HIDE DEF members
  <2>1. conn[n] \in Connections /\ Notice("closing") \in Messages /\ Reply("SUCCESS", 0, 0) \in Messages
    BY <1>5, MessageTypes
  <2>2. CASE n \in waiting
    <3>1. conn'[n] = CloseHere(conn[n])
      BY <1>1, <1>9, <2>2
    <3> QED  BY <3>1, <1>9, <2>1, <2>2, CloseHereEffect
  <2>3. CASE n \in members
    <3>1. conn'[n] = CloseHere(Deliver(conn[n], Notice("closing")))
      BY <1>1, <1>9, <2>3
    <3> DEFINE d == Deliver(conn[n], Notice("closing"))
    <3>2. /\ d \in Connections
          /\ conn[n].peer = "open" => d.peer = "open" /\ d.to = conn[n].to /\ d.down # <<>>
      BY <2>1, DeliverEffect
    <3> HIDE DEF d
    <3>3. /\ CloseHere(d) \in Connections
          /\ d.peer = "open" => /\ CloseHere(d).peer = "open" /\ CloseHere(d).to = d.to
                                /\ CloseHere(d).down = d.down
      BY <3>2, CloseHereEffect
    <3> QED  BY <3>1, <3>2, <3>3, <2>3 DEF d
  <2>4. CASE n = k /\ n \notin members
    <3>1. conn'[n] = Deliver(Consume(conn[n]), Reply("SUCCESS", 0, 0))
      BY <1>1, <1>9, <2>4
    <3> DEFINE s == Consume(conn[n])
    <3>2. s \in Connections /\ s.here = conn[n].here /\ s.to = conn[n].to
          /\ s.peer = conn[n].peer /\ s.down = conn[n].down
      BY <1>2, <2>1, <2>4, ConsumeEffect
    <3> HIDE DEF s
    <3>3. /\ Deliver(s, Reply("SUCCESS", 0, 0)) \in Connections
          /\ Deliver(s, Reply("SUCCESS", 0, 0)).here = s.here
          /\ Deliver(s, Reply("SUCCESS", 0, 0)).to = s.to
          /\ s.peer = "open" => /\ Deliver(s, Reply("SUCCESS", 0, 0)).peer = "open"
                                /\ Deliver(s, Reply("SUCCESS", 0, 0)).down # <<>>
      BY <2>1, <3>2, DeliverEffect
    <3> QED  BY <3>1, <3>2, <3>3, <2>4 DEF s
  <2>5. CASE n \notin waiting /\ n \notin members /\ n # k
    <3>1. conn'[n] = conn[n]
      BY <1>1, <2>5
    <3> QED  BY <3>1, <2>1, <2>5
  <2> QED  BY <2>2, <2>3, <2>4, <2>5
<1>12. conn' \in [Conns -> Connections]
  BY <1>1, <1>11
\* The slots that are left.
<1>13. /\ client_socket' \in [Slots -> Conns \cup {NoConn}]
       /\ client_room_name' \in [Slots -> Names \cup {NoName}]
       /\ \A j \in Slots : client_socket'[j] # NoConn =>
            /\ j \notin kicked
            /\ client_socket'[j] = client_socket[j] /\ client_room_name'[j] = client_room_name[j]
  BY <1>1, <1>5
<1>14. \A j \in Slots : j \notin kicked /\ client_socket[j] # NoConn =>
         /\ client_socket[j] \in Conns
         /\ client_socket[j] \notin waiting \cup members
         /\ conn'[client_socket[j]].here = conn[client_socket[j]].here
         /\ conn'[client_socket[j]].to = conn[client_socket[j]].to
         /\ j # i => conn'[client_socket[j]] = conn[client_socket[j]]
  <2>1. ASSUME NEW j \in Slots, j \notin kicked, client_socket[j] # NoConn
        PROVE  client_socket[j] \in Conns /\ client_socket[j] \notin waiting \cup members
    <3>1. \A q \in kicked : q \in Slots /\ q # j
      BY <2>1 DEF kicked, InRoom
    <3>2. \A q \in Slots : q # j => client_socket[q] # client_socket[j]
      BY <2>1 DEF ChatInvariant, SlotsInv
    <3> QED  BY <3>1, <3>2, <2>1, <1>5, <1>8
  <2> HIDE DEF members
  <2> QED  BY <2>1, <1>3, <1>11
<1>15. /\ backlog' \in [Queues -> Seq(Conns)] /\ backlog'[l] = <<>>
       /\ \A m \in Queues : m # l => backlog'[m] = backlog[m]
  <2>1. <<>> \in Seq(Conns)
    OBVIOUS
  <2> QED  BY <2>1, <1>1, <1>5, <1>6
<1>16. /\ fd_to_chat_room'[l] = NoRoom
       /\ \A m \in Listeners : m # l => fd_to_chat_room'[m] = fd_to_chat_room[m]
       /\ fd_to_chat_room' \in [Listeners -> [name : Names \cup {NoName}, port : Nat]]
  BY <1>1, <1>4, <1>5 DEF NoRoom
<1>17. /\ chat_room_db' \in [Names -> Nat] /\ chat_room_db'[r] = 0
       /\ \A q \in Names : q # r => chat_room_db'[q] = chat_room_db[q]
  BY <1>1, <1>2, <1>5
<1>18. /\ chat_room_socket' \in [RoomSlots -> Listeners \cup {0}]
       /\ \A j \in RoomSlots : chat_room_socket'[j] # 0 =>
            chat_room_socket'[j] = chat_room_socket[j] /\ chat_room_socket[j] # l
  BY <1>1, <1>5
<1>19. read_fd_set' \subseteq read_fd_set
       /\ \A j \in Slots : AClient(j) \in read_fd_set' => j \notin kicked /\ j # i
  BY <1>1
<1>20. NetTypeOK' /\ ServerTypeOK'
  BY <1>12, <1>13, <1>15, <1>16, <1>17, <1>18, <1>19
     DEF ChatInvariant, TypesInv, NetTypeOK, ServerTypeOK
<1>21. QueuesInv'
  <2>1. ASSUME NEW m \in Queues, NEW q \in 1..Len(backlog'[m])
        PROVE  /\ conn'[backlog'[m][q]].here = "open"
               /\ conn'[backlog'[m][q]].to = m
               /\ \A j \in Slots : client_socket'[j] # backlog'[m][q]
               /\ \A j \in 1..Len(backlog'[m]) : j # q => backlog'[m][j] # backlog'[m][q]
    <3>1. m # l /\ backlog'[m] = backlog[m] /\ q \in 1..Len(backlog[m])
      BY <1>15
    <3> DEFINE n == backlog[m][q]
    <3>2. /\ n \in Conns /\ conn[n].here = "open" /\ conn[n].to = m
          /\ \A j \in Slots : client_socket[j] # n
          /\ \A j \in 1..Len(backlog[m]) : j # q => backlog[m][j] # n
          /\ n # k
      BY <3>1, <1>3, <1>6 DEF ChatInvariant, QueuesInv
    <3>3. n \notin waiting /\ n \notin members
      BY <3>1, <3>2, <1>8 DEF kicked, InRoom
    <3>4. conn'[n] = conn[n]
      <4> HIDE DEF members, n
      <4> QED  BY <3>2, <3>3, <1>11
    <3>5. \A j \in Slots : client_socket'[j] # n
      BY <3>2, <1>13 DEF Conns, NoConn
    <3> QED  BY <3>1, <3>2, <3>4, <3>5
  <2>2. \A m \in Listeners : fd_to_chat_room'[m] = NoRoom => backlog'[m] = <<>>
    BY <1>15, <1>16 DEF ChatInvariant, QueuesInv, Queues
  <2> QED  BY <2>1, <2>2 DEF QueuesInv
<1>22. SlotsInv'
  BY <1>13, <1>14 DEF ChatInvariant, SlotsInv
<1>23. RoomsInv'
  <2>1. \A m \in Listeners : fd_to_chat_room'[m] # NoRoom =>
          /\ m # l /\ fd_to_chat_room'[m] = fd_to_chat_room[m]
          /\ fd_to_chat_room[m].name \in Names /\ fd_to_chat_room[m].name # r
    BY <1>4, <1>16 DEF ChatInvariant, RoomsInv
  <2>2. \A q \in Names : chat_room_db'[q] # 0 => \E m \in Listeners : fd_to_chat_room'[m].name = q
    <3> SUFFICES ASSUME NEW q \in Names, chat_room_db'[q] # 0
                 PROVE  \E m \in Listeners : fd_to_chat_room'[m].name = q
      OBVIOUS
    <3>1. q # r
      BY <1>17
    <3>2. chat_room_db[q] # 0
      BY <3>1, <1>17
    <3>3. PICK m \in Listeners : fd_to_chat_room[m].name = q
      BY <3>2 DEF ChatInvariant, RoomsInv, does_room_exist
    <3> QED  BY <3>1, <3>3, <1>4, <1>16
  <2>3. \A m, q \in Listeners :
          fd_to_chat_room'[m] # NoRoom /\ fd_to_chat_room'[m].name = fd_to_chat_room'[q].name => m = q
    BY <2>1, <1>16, NameAssumption DEF ChatInvariant, RoomsInv, NoRoom
  <2>4. \A m \in Listeners : fd_to_chat_room'[m] # NoRoom =>
          /\ fd_to_chat_room'[m].port = chat_room_db'[fd_to_chat_room'[m].name]
          /\ fd_to_chat_room'[m].port # 0
    BY <2>1, <1>17 DEF ChatInvariant, RoomsInv
  <2>5. \A j \in RoomSlots : chat_room_socket'[j] # 0 =>
          /\ fd_to_chat_room'[chat_room_socket'[j]] # NoRoom
          /\ \A q \in RoomSlots : q # j => chat_room_socket'[q] # chat_room_socket'[j]
    BY <1>5, <1>16, <1>18 DEF ChatInvariant, RoomsInv
  <2> QED  BY <2>1, <2>2, <2>3, <2>4, <2>5 DEF RoomsInv, does_room_exist
<1>24. TurnInv'
  <2>1. \A j \in Slots : AClient(j) \in read_fd_set' =>
          /\ client_socket'[j] # NoConn
          /\ conn'[client_socket'[j]].up # <<>> \/ conn'[client_socket'[j]].peer # "open"
    <3> SUFFICES ASSUME NEW j \in Slots, AClient(j) \in read_fd_set'
                 PROVE  /\ client_socket'[j] # NoConn
                        /\ conn'[client_socket'[j]].up # <<>> \/ conn'[client_socket'[j]].peer # "open"
      OBVIOUS
    <3>1. AClient(j) \in read_fd_set /\ j \notin kicked /\ j # i
      BY <1>19
    <3>2. client_socket[j] # NoConn /\ Readable(client_socket[j])
      BY <3>1 DEF ChatInvariant, TurnInv
    <3>3. client_socket'[j] = client_socket[j]
      BY <3>1, <1>1
    <3>4. conn'[client_socket[j]] = conn[client_socket[j]]
      BY <3>1, <3>2, <1>14
    <3> QED  BY <3>2, <3>3, <3>4 DEF Readable
  <2> QED  BY <2>1, <1>3, <1>19 DEF TurnInv, Readable
<1>25. MembersOfLiveRooms'
  <2> SUFFICES ASSUME NEW j \in Slots, client_socket'[j] # NoConn, conn'[client_socket'[j]].to # Main
               PROVE  /\ fd_to_chat_room'[conn'[client_socket'[j]].to] # NoRoom
                      /\ client_room_name'[j] = fd_to_chat_room'[conn'[client_socket'[j]].to].name
    BY DEF MembersOfLiveRooms
  <2> DEFINE n == client_socket[j]
             t == conn[n].to
  <2>1. /\ j \notin kicked /\ client_socket'[j] = n /\ client_room_name'[j] = client_room_name[j]
        /\ n # NoConn
    BY <1>13
  <2>2. conn'[n].to = t /\ n \in Conns
    BY <2>1, <1>14
  <2>3. t \in Listeners
    BY <2>1, <2>2, <1>5 DEF Connections, Queues
  <2>4. fd_to_chat_room[t] # NoRoom /\ client_room_name[j] = fd_to_chat_room[t].name
    BY <2>1, <2>2 DEF ChatInvariant, MembersOfLiveRooms
  <2>5. t # l
    BY <2>1, <2>4, <1>4, <1>10
  <2> QED  BY <2>1, <2>2, <2>3, <2>4, <2>5, <1>16
<1>26. \A n \in Conns : ClientKept(n)
  <2> SUFFICES ASSUME NEW n \in Conns, conn[n].peer = "open", conn[n].to = Main,
                      conn'[n].here = "closed"
               PROVE  conn[n].here = "closed" \/ conn'[n].down # <<>>
    BY <1>11 DEF ClientKept
  <2>1. n \notin waiting
    BY <1>4, <1>8 DEF Main, Listeners
  <2> HIDE DEF members
  <2> QED  BY <2>1, <1>11
<1> QED  BY <1>20, <1>21, <1>22, <1>23, <1>24, <1>25, <1>26, ClientsUndisturbed
         DEF ChatInvariant, TypesInv

-----------------------------------------------------------------------------
\* Whatever the server does keeps the invariant.
LEMMA ServerStepInvariant ==
    ASSUME ChatInvariant, ServerMoves
    PROVE  ChatInvariant'
<1>1. ServerStep /\ UNCHANGED clientVars
  BY DEF ServerMoves
<1>2. CASE Select
  BY <1>1, <1>2, SelectInvariant
<1>3. CASE AcceptClient
  BY <1>1, <1>3, AcceptClientInvariant
<1>4. CASE \E k \in RoomSlots : AcceptMember(k)
  BY <1>1, <1>4, AcceptMemberInvariant
<1>5. ASSUME NEW i \in Slots, Serve(i) PROVE ChatInvariant'
  <2>1. CASE HangUp(i)
    BY <1>1, <2>1, HangUpInvariant
  <2>2. CASE Die(i)
    BY <1>1, <2>2, DieInvariant
  <2>3. CASE Create(i)
    BY <1>1, <2>3, CreateInvariant
  <2>4. CASE Join(i)
    BY <1>1, <2>4, JoinInvariant
  <2>5. CASE List(i) \/ DeleteMissing(i)
    BY <1>1, <2>5, ListInvariant
  <2>6. CASE Delete(i)
    BY <1>1, <2>6, DeleteInvariant
  <2>7. CASE Relay(i)
    BY <1>1, <2>7, RelayInvariant
  <2> QED  BY <1>5, <2>1, <2>2, <2>3, <2>4, <2>5, <2>6, <2>7 DEF Serve
<1> QED  BY <1>1, <1>2, <1>3, <1>4, <1>5 DEF ServerStep

\* A step that changes nothing keeps the invariant.
LEMMA ChatStutter ==
    ASSUME ChatInvariant, UNCHANGED chatVars
    PROVE  ChatInvariant'
<1>1. UNCHANGED <<conn, backlog, chat_room_db, fd_to_chat_room, chat_room_socket,
                  client_socket, client_room_name, read_fd_set, clientVars>>
  BY DEF chatVars, netVars, serverVars
<1>2. \A n \in Conns : ClientKept(n)
  BY <1>1 DEF ClientKept
<1>3. NetTypeOK' /\ ServerTypeOK'
  BY <1>1 DEF ChatInvariant, TypesInv, NetTypeOK, ServerTypeOK
<1>4. QueuesInv' /\ SlotsInv' /\ MembersOfLiveRooms' /\ TurnInv'
  BY <1>1 DEF ChatInvariant, QueuesInv, SlotsInv, MembersOfLiveRooms, TurnInv, Readable
<1>5. RoomsInv'
  BY <1>1 DEF ChatInvariant, RoomsInv, does_room_exist
<1> QED  BY <1>1, <1>2, <1>3, <1>4, <1>5, ClientsUndisturbed DEF ChatInvariant, TypesInv

(***************************************************************************)
(* The chat rooms: every step of the server, of a client and of the        *)
(* network keeps the whole invariant, for any number of clients, rooms,    *)
(* slots and connections.                                                  *)
(***************************************************************************)
THEOREM ChatInvariantHolds == ChatSpec => []ChatInvariant
<1>1. ChatInvariant /\ [ChatNext]_chatVars => ChatInvariant'
  BY ChatStutter, ServerStepInvariant, ClientStepInvariant, NetStepInvariant DEF ChatNext
<1> QED  BY ChatInitInvariant, <1>1, PTL DEF ChatSpec

(***************************************************************************)
(* Every variable of the chat room system keeps its type: no slot holds a  *)
(* descriptor that was never one (crsd.cpp:257-258), and no connection     *)
(* carries to the server what no user has typed.                           *)
(***************************************************************************)
THEOREM ChatTypes == ChatSpec => []ChatTypeOK
<1>1. ChatInvariant => ChatTypeOK
  <2> SUFFICES ASSUME ChatInvariant PROVE ChatTypeOK
    OBVIOUS
  <2>1. NetTypeOK /\ ServerTypeOK /\ ClientTypeOK
    BY DEF ChatInvariant, TypesInv
  <2>2. ASSUME NEW n \in Conns
        PROVE  /\ conn[n].to \in Listeners \cup {Main} /\ conn[n].peer \in PeerStates
               /\ conn[n].here \in {"open", "closed"} /\ conn[n].up \in Seq(Lines)
    BY <2>1 DEF NetTypeOK, Connections, Queues
  <2>3. \A n \in Conns : Range(conn[n].up) \subseteq Lines
    BY <2>2 DEF Range
  <2> QED  BY <2>1, <2>2, <2>3 DEF ChatTypeOK, ServerTypeOK, ClientTypeOK
<1> QED  BY <1>1, ChatInvariantHolds, PTL

(***************************************************************************)
(* The three structures in which the server keeps its rooms agree, through *)
(* every CREATE and DELETE (crsd.cpp:203-211, 312-329).                    *)
(***************************************************************************)
THEOREM TablesStayInAgreement == ChatSpec => []TablesAgree
<1>1. ChatInvariant => TablesAgree
  <2> SUFFICES ASSUME ChatInvariant PROVE TablesAgree
    OBVIOUS
  <2>1. RoomsInv
    BY DEF ChatInvariant
  <2>2. ASSUME NEW r \in Names
        PROVE  Cardinality({l \in Listeners : fd_to_chat_room[l].name = r})
                 = (IF does_room_exist(r) THEN 1 ELSE 0)
    <3> DEFINE L == {l \in Listeners : fd_to_chat_room[l].name = r}
    <3>1. \A l \in L : fd_to_chat_room[l] # NoRoom
      BY NameAssumption DEF NoRoom
    <3>2. CASE does_room_exist(r)
      <4>1. PICK l \in Listeners : fd_to_chat_room[l].name = r
        BY <2>1, <3>2 DEF RoomsInv
      <4>2. L = {l}
        BY <2>1, <3>1, <4>1 DEF RoomsInv
      <4> QED  BY <3>2, <4>2, FS_Singleton
    <3>3. CASE ~does_room_exist(r)
      <4>1. L = {}
        BY <2>1, <3>1, <3>3 DEF RoomsInv, does_room_exist
      <4> QED  BY <3>3, <4>1, FS_EmptySet
    <3> QED  BY <3>2, <3>3
  <2> QED  BY <2>1, <2>2 DEF TablesAgree, RoomsInv
<1> QED  BY <1>1, ChatInvariantHolds, PTL

(***************************************************************************)
(* A slot holds an open descriptor that no other slot and no queue holds,  *)
(* through every reuse of slots and descriptors (crsd.cpp:174-178,         *)
(* 257-258, 307-309).                                                      *)
(***************************************************************************)
THEOREM SlotsStayOpen == ChatSpec => []SlotsAreOpen
<1>1. ChatInvariant => SlotsAreOpen
  <2> SUFFICES ASSUME ChatInvariant,
                      NEW i \in Slots, client_socket[i] # NoConn
               PROVE  /\ conn[client_socket[i]].here = "open"
                      /\ \A j \in Slots \ {i} : client_socket[j] # client_socket[i]
                      /\ \A l \in DOMAIN backlog : client_socket[i] \notin Range(backlog[l])
    BY DEF SlotsAreOpen
  <2>1. ASSUME NEW l \in DOMAIN backlog PROVE client_socket[i] \notin Range(backlog[l])
    <3>1. l \in Queues /\ backlog[l] \in Seq(Conns)
      BY DEF ChatInvariant, TypesInv, NetTypeOK
    <3>2. \A k \in 1..Len(backlog[l]) : client_socket[i] # backlog[l][k]
      BY <3>1 DEF ChatInvariant, QueuesInv
    <3> QED  BY <3>1, <3>2 DEF Range
  <2> QED  BY <2>1 DEF ChatInvariant, SlotsInv
<1> QED  BY <1>1, ChatInvariantHolds, PTL

(***************************************************************************)
(* No member outlives its room or is taken for a member of another one,    *)
(* whatever its slot was used for before (crsd.cpp:163, 301-311).          *)
(***************************************************************************)
THEOREM MembersHaveRooms == ChatSpec => []MembersOfLiveRooms
<1>1. ChatInvariant => MembersOfLiveRooms
  BY DEF ChatInvariant
<1> QED  BY <1>1, ChatInvariantHolds, PTL

(***************************************************************************)
(* The server never closes the connection of a client that waits for a     *)
(* reply without having sent one (crc.cpp:138-139, 185).                   *)
(***************************************************************************)
THEOREM RepliesComeFirst == ChatSpec => []NeverEmptyHanded
<1>1. ChatInvariant => NeverEmptyHanded
  BY DEF ChatInvariant, ClientInv, NeverEmptyHanded
<1> QED  BY <1>1, ChatInvariantHolds, PTL

(***************************************************************************)
(* Every text of a member reaches every other member of its room that is   *)
(* still there, and no member of another room (crsd.cpp:341-351).          *)
(***************************************************************************)
THEOREM TextsReachTheRoom == ChatSpec => TextReachesTheRoom
<1> DEFINE Reaches ==
      \A i \in Slots :
         Relay(i) /\ conn[client_socket[i]].to # Main =>
             LET r == fd_to_chat_room[conn[client_socket[i]].to].name
             IN  \A q \in Names : \A n \in Members(q) \ {client_socket[i]} :
                     conn[n].peer = "open" =>
                         Len(conn'[n].down) = Len(conn[n].down) + (IF q = r THEN 1 ELSE 0)
<1>1. ChatInvariant => Reaches
  <2> SUFFICES ASSUME ChatInvariant, NEW i \in Slots, Relay(i),
                      conn[client_socket[i]].to # Main,
                      NEW q \in Names, NEW n \in Members(q) \ {client_socket[i]},
                      conn[n].peer = "open"
               PROVE  Len(conn'[n].down) = Len(conn[n].down)
                        + (IF q = fd_to_chat_room[conn[client_socket[i]].to].name THEN 1 ELSE 0)
    OBVIOUS
  <2> DEFINE k == client_socket[i]
             T == Targets(i)
             r == fd_to_chat_room[conn[k].to].name
  <2>1. /\ Command(i, "TEXT")
        /\ conn' = [m \in Conns |-> CASE m = k -> Consume(conn[m])
                                      [] m \in T -> Deliver(conn[m], Notice("text"))
                                      [] OTHER -> conn[m]]
    BY DEF Relay
  <2>2. k \in Conns /\ k # NoConn /\ conn \in [Conns -> Connections]
    BY <2>1, CommandMessage, ServedSlot DEF ChatInvariant, TypesInv, NetTypeOK
  <2>3. client_room_name[i] = r /\ r \in Names /\ r # NoName
    <3>1. conn[k].to \in Listeners
      BY <2>2 DEF Connections, Queues
    <3> QED  BY <3>1, <2>2, NameAssumption DEF ChatInvariant, MembersOfLiveRooms, RoomsInv
  <2>4. PICK j \in Slots : client_socket[j] = n /\ n # NoConn
    BY DEF Members, Range, ChatInvariant, TypesInv, ServerTypeOK
  <2>5. j # i /\ n \in Conns /\ n # k
    BY <2>4 DEF ChatInvariant, TypesInv, ServerTypeOK
  <2>6. client_room_name[j] = q
    BY <2>4 DEF Members, ChatInvariant, MembersOfLiveRooms
  <2>7. n \in T <=> q = r
    <3>1. T = {client_socket[m] : m \in InRoom(r) \ {i}}
      BY <2>1, <2>3, RelayTargets
    <3>2. \A m \in Slots : client_socket[m] = n => m = j
      BY <2>4 DEF ChatInvariant, SlotsInv
    <3> HIDE DEF r, T
    <3> QED  BY <3>1, <3>2, <2>4, <2>5, <2>6 DEF InRoom
  <2> HIDE DEF T, r, k
  <2>8. CASE q = r
    <3>1. conn'[n] = Deliver(conn[n], Notice("text"))
      BY <2>1, <2>5, <2>7, <2>8
    <3>2. conn[n] \in Connections /\ Notice("text") \in Messages
      BY <2>2, <2>5, MessageTypes
    <3> QED  BY <3>1, <3>2, <2>8, DeliverEffect DEF r, k
  <2>9. CASE q # r
    <3>1. conn'[n] = conn[n]
      BY <2>1, <2>5, <2>7, <2>9
    <3>2. Len(conn[n].down) \in Nat
      BY <2>2, <2>5 DEF Connections
    <3> QED  BY <3>1, <3>2, <2>9 DEF r, k
  <2> QED  BY <2>8, <2>9
<1>2. ChatInvariant /\ [ChatNext]_chatVars => [Reaches]_chatVars
  BY <1>1
<1> HIDE DEF Reaches
<1>3. [](ChatInvariant) /\ [][ChatNext]_chatVars => [][Reaches]_chatVars
  BY <1>2, PTL
<1> QED  BY <1>3, ChatInvariantHolds, PTL DEF ChatSpec, TextReachesTheRoom, Reaches
=============================================================================
