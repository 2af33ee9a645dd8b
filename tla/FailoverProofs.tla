--------------------------- MODULE FailoverProofs ---------------------------
(***************************************************************************)
(* Proofs about Failover: type correctness, and from the inductive         *)
(* invariants of FailoverInv the freshness of the routing table, the       *)
(* property that comparisons of timestamps never deactivate a live server, *)
(* and which rows of the table are ACTIVE.                                 *)
(***************************************************************************)
EXTENDS FailoverInv, TLAPS, SequenceTheorems

\* The heartbeat stream of a server names that server and one of its starts.
LEMMA StreamFacts ==
    ASSUME NEW s \in Streams
    PROVE  /\ Sender(s) \in Servers
           /\ s[1] = Sender(s)
           /\ s[2] \in 1..MaxStarts
           /\ s = <<s[1], s[2]>>
BY DEF Streams, Sender

\* The row a thread checks belongs to a server of the sender's cluster.
LEMMA PeerFacts ==
    ASSUME NEW s \in Streams, NEW t \in ServerTypes
    PROVE  Peer(s, t) \in Servers
BY DEF Streams, Sender, Peer, Servers

\* The stream of a start is a stream of its server.
LEMMA CurrentFacts ==
    ASSUME NEW x \in Servers, NEW n \in 1..MaxStarts
    PROVE  /\ <<x, n>> \in Streams
           /\ <<x, n>>[1] = x
           /\ <<x, n>>[2] = n
           /\ Sender(<<x, n>>) = x
BY DEF Streams, Sender

\* A process that is not down has a stream of its own.
LEMMA CurrentStream ==
    ASSUME TypeOK, StreamsInv, NEW x \in Servers, process[x] # "down"
    PROVE  /\ Current(x) \in Streams
           /\ Sender(Current(x)) = x
<1>1. starts[x] \in 1..MaxStarts
  BY BoundAssumption, StartsAssumption DEF TypeOK, ServerTypeOK, StreamsInv
<1> QED
  BY <1>1, CurrentFacts DEF Current

-----------------------------------------------------------------------------
\* The initial state has the types of TypeOK.
LEMMA InitType == Init => TypeOK
BY BoundAssumption, StartsAssumption, FaultAssumption, PeriodAssumption
DEF Init, StreamInit, ServerInit, CoordInit, TypeOK, StreamTypeOK,
    ServerTypeOK, CoordTypeOK, Rows, NoRow, Epoch, PCs

\* What a server process does keeps the types.
LEMMA ServerType ==
    ASSUME TypeOK, NEW x \in Servers, ServerStep(x)
    PROVE  TypeOK'
<1> USE BoundAssumption, StartsAssumption, FaultAssumption, PeriodAssumption
    DEF TypeOK, StreamTypeOK, ServerTypeOK, CoordTypeOK, coordVars,
        streamVars, Fault, Current
<1>1. CASE StartServer(x)
  <2>1. starts[x] + 1 \in 1..MaxStarts
    BY <1>1 DEF StartServer
  <2>2. <<x, starts[x] + 1>> \in Streams
    BY <2>1, CurrentFacts
  <2>3. QED
    BY SMTT(30), <1>1, <2>1, <2>2 DEF StartServer, ServerStep
<1>2. CASE SendHeartbeat(x)
  <2>1. due' \in [Servers -> Nat]
    BY <1>2 DEF SendHeartbeat
  <2>2. wire' \in [Streams -> Seq(Nat)]
    <3>1. CASE link[Current(x)] = "open"
      <4>1. ASSUME NEW s \in Streams PROVE Append(wire[s], now) \in Seq(Nat)
        BY AppendProperties
      <4>2. wire' = [wire EXCEPT ![Current(x)] = Append(wire[Current(x)], now)]
        BY <1>2, <3>1 DEF SendHeartbeat
      <4>3. QED
        BY <4>1, <4>2
    <3>2. CASE link[Current(x)] # "open"
      BY <1>2, <3>2 DEF SendHeartbeat
    <3>3. QED
      BY <3>1, <3>2
  <2>3. QED
    BY <1>2, <2>1, <2>2 DEF SendHeartbeat, ServerStep
<1>3. CASE CrashServer(x)
  <2>1. link' \in [Streams -> {"unused", "open", "broken"}]
    BY <1>3 DEF CrashServer
  <2>2. QED
    BY <1>3, <2>1 DEF CrashServer, ServerStep
<1>4. CASE HangServer(x)
  BY <1>4 DEF HangServer, ServerStep
<1>5. CASE ResumeServer(x)
  BY <1>5 DEF ResumeServer, ServerStep
<1>6. CASE ResetConnection(x)
  <2>1. link' \in [Streams -> {"unused", "open", "broken"}]
    BY <1>6 DEF ResetConnection
  <2>2. QED
    BY <1>6, <2>1 DEF ResetConnection, ServerStep
<1>7. QED
  BY <1>1, <1>2, <1>3, <1>4, <1>5, <1>6 DEF ServerStep

\* What a thread of the coordinator does keeps the types.
LEMMA CoordType ==
    ASSUME TypeOK, NEW s \in Streams, CoordStep(s)
    PROVE  TypeOK'
<1> USE DEF TypeOK, StreamTypeOK, ServerTypeOK, CoordTypeOK, serverVars,
        streamVars, PCs, Goto, Rows, Epoch
<1>a. Sender(s) \in Servers
  BY StreamFacts
<1>b. \A t \in ServerTypes : Peer(s, t) \in Servers
  BY PeerFacts
<1>1. CASE ReadHeartbeat(s)
  <2>1. Head(wire[s]) \in Nat /\ Tail(wire[s]) \in Seq(Nat)
    BY <1>1, HeadTailProperties DEF ReadHeartbeat
  <2>2. table' \in [Servers -> Rows]
    BY <1>1, <1>a DEF ReadHeartbeat, DefaultRow, NoRow
  <2>3. QED
    BY <1>1, <2>1, <2>2 DEF ReadHeartbeat, CoordStep
<1>2. CASE AssignRow(s)
  BY <1>2, <1>a DEF AssignRow, CoordStep
<1>3. CASE CheckMaster(s)
  BY <1>3 DEF CheckMaster, CheckRow, CoordStep
<1>4. CASE MarkMaster(s)
  <2>1. UNCHANGED serverVars
    BY DEF CoordStep
  <2>2. Peer(s, "MASTER") \in Servers
    BY <1>b DEF ServerTypes
  <2> DEFINE y == Peer(s, "MASTER")
             r == [table[y] EXCEPT !.status = "INACTIVE"]
  <2>3. table' = [table EXCEPT ![y] = r]
    BY <1>4 DEF MarkMaster, MarkRow
  <2>4. table \in [Servers -> Rows] /\ r \in Rows
    BY <2>2
  <2>5. table' \in [Servers -> Rows]
    <3> HIDE DEF y, r
    <3> QED  BY <2>2, <2>3, <2>4
  <2>6. QED
    BY <1>4, <2>1, <2>5 DEF MarkMaster, MarkRow
<1>5. CASE CheckSlave(s)
  BY <1>5 DEF CheckSlave, CheckRow, CoordStep
<1>6. CASE MarkSlave(s)
  <2>1. UNCHANGED serverVars
    BY DEF CoordStep
  <2>2. Peer(s, "SLAVE") \in Servers
    BY <1>b DEF ServerTypes
  <2> DEFINE y == Peer(s, "SLAVE")
             r == [table[y] EXCEPT !.status = "INACTIVE"]
  <2>3. table' = [table EXCEPT ![y] = r]
    BY <1>6 DEF MarkSlave, MarkRow
  <2>4. table \in [Servers -> Rows] /\ r \in Rows
    BY <2>2
  <2>5. table' \in [Servers -> Rows]
    <3> HIDE DEF y, r
    <3> QED  BY <2>2, <2>3, <2>4
  <2>6. QED
    BY <1>6, <2>1, <2>5 DEF MarkSlave, MarkRow
<1>7. CASE EndOfStream(s)
  <2>1. \A x \in Servers : Deactivate(x) => table' \in [Servers -> Rows]
    BY DEF Deactivate
  <2>2. table' \in [Servers -> Rows]
    BY <1>7, <1>a, <2>1 DEF EndOfStream
  <2>3. wire' \in [Streams -> Seq(Nat)]
    BY <1>7 DEF EndOfStream
  <2>4. QED
    BY <1>7, <2>2, <2>3 DEF EndOfStream, CoordStep
<1>8. QED
  BY <1>1, <1>2, <1>3, <1>4, <1>5, <1>6, <1>7 DEF CoordStep, HandleHeartBeats

\* So does every step of the composition.
LEMMA TypeStep ==
    ASSUME TypeOK, [Next]_vars
    PROVE  TypeOK'
<1>1. ASSUME NEW x \in Servers, ServerStep(x) PROVE TypeOK'
  BY <1>1, ServerType
<1>2. ASSUME NEW s \in Streams, CoordStep(s) PROVE TypeOK'
  BY <1>2, CoordType
<1>3. CASE Tick
  BY <1>3 DEF Tick, TypeOK, StreamTypeOK, ServerTypeOK, CoordTypeOK,
     streamVars, serverVars, coordVars
<1>4. CASE UNCHANGED vars
  BY <1>4 DEF vars, TypeOK, StreamTypeOK, ServerTypeOK, CoordTypeOK,
     streamVars, serverVars, coordVars
<1>5. QED
  BY <1>1, <1>2, <1>3, <1>4 DEF Next, OutOfTime

\* Every variable of the composition keeps its type (TypeOK of Failover).
THEOREM TypeCorrect == Spec => []TypeOK
<1>1. TypeOK /\ [Next]_vars => TypeOK'
  BY TypeStep
<1>2. QED
  BY InitType, <1>1, PTL DEF Spec

-----------------------------------------------------------------------------
\* What a thread's step leaves alone: the other threads, the connections, and
\* every last_hb but the one AssignRow writes.  Rows are never removed.
LEMMA CoordEffects ==
    ASSUME TypeOK, NEW s \in Streams, CoordStep(s)
    PROVE  /\ UNCHANGED <<now, link, process, starts, since, due, faults>>
           /\ \A r \in Streams : r # s => /\ pc'[r] = pc[r]
                                          /\ hb_timestamp'[r] = hb_timestamp[r]
                                          /\ wire'[r] = wire[r]
           /\ \A x \in Servers : table[x].present =>
                /\ table'[x].present
                /\ \/ table'[x].last_hb = table[x].last_hb
                   \/ /\ AssignRow(s)
                      /\ x = Sender(s)
                      /\ table'[x].last_hb = hb_timestamp[s]
<1> USE DEF TypeOK, StreamTypeOK, ServerTypeOK, CoordTypeOK, serverVars,
        streamVars, Goto, Rows, CoordStep
<1>a. Sender(s) \in Servers
  BY StreamFacts
<1>b. \A t \in ServerTypes : Peer(s, t) \in Servers
  BY PeerFacts
<1>1. CASE ReadHeartbeat(s)
  BY <1>1, <1>a DEF ReadHeartbeat
<1>2. CASE AssignRow(s)
  BY <1>2, <1>a DEF AssignRow
<1>3. CASE CheckMaster(s)
  BY <1>3 DEF CheckMaster, CheckRow
<1>4. CASE MarkMaster(s)
  BY <1>4, <1>b DEF MarkMaster, MarkRow
<1>5. CASE CheckSlave(s)
  BY <1>5 DEF CheckSlave, CheckRow
<1>6. CASE MarkSlave(s)
  BY <1>6, <1>b DEF MarkSlave, MarkRow
<1>7. CASE EndOfStream(s)
  <2>1. \A x, y \in Servers : Deactivate(y) =>
          /\ table[x].present => table'[x].present
          /\ table'[x].last_hb = table[x].last_hb
    BY DEF Deactivate
  <2>2. (\E y \in Servers : Deactivate(y)) \/ UNCHANGED table
    BY <1>7, <1>a DEF EndOfStream
  <2>3. QED
    BY <1>7, <2>1, <2>2 DEF EndOfStream
<1>8. QED
  BY <1>1, <1>2, <1>3, <1>4, <1>5, <1>6, <1>7 DEF HandleHeartBeats

\* What a thread's step does to its own locals and to its stream.
LEMMA ThreadEffects ==
    ASSUME TypeOK, NEW s \in Streams, CoordStep(s)
    PROVE  \/ /\ pc[s] = "read" /\ pc'[s] = "assign"
              /\ wire[s] # <<>>
              /\ hb_timestamp'[s] = Head(wire[s])
              /\ wire'[s] = Tail(wire[s])
              /\ table'[Sender(s)].present
           \/ /\ pc[s] = "read" /\ pc'[s] = "ended"
              /\ link[s] = "broken"
              /\ hb_timestamp'[s] = hb_timestamp[s]
              /\ wire'[s] = <<>>
           \/ /\ pc[s] = "assign" /\ pc'[s] = "checkMaster"
              /\ AssignRow(s)
              /\ UNCHANGED <<wire, hb_timestamp>>
              /\ table'[Sender(s)].present
              /\ table'[Sender(s)].last_hb = hb_timestamp[s]
           \/ /\ pc[s] \in {"checkMaster", "markMaster", "checkSlave", "markSlave"}
              /\ pc'[s] \in {"read", "markMaster", "checkSlave", "markSlave"}
              /\ UNCHANGED <<wire, hb_timestamp>>
<1> USE DEF TypeOK, StreamTypeOK, CoordTypeOK, streamVars, Goto, CoordStep
<1>a. Sender(s) \in Servers
  BY StreamFacts
<1>1. CASE ReadHeartbeat(s)
  BY <1>1, <1>a DEF ReadHeartbeat, DefaultRow, NoRow
<1>2. CASE AssignRow(s)
  BY <1>2, <1>a DEF AssignRow
<1>3. CASE CheckMaster(s)
  BY <1>3 DEF CheckMaster, CheckRow
<1>4. CASE MarkMaster(s)
  BY <1>4 DEF MarkMaster, MarkRow
<1>5. CASE CheckSlave(s)
  BY <1>5 DEF CheckSlave, CheckRow
<1>6. CASE MarkSlave(s)
  BY <1>6 DEF MarkSlave, MarkRow
<1>7. CASE EndOfStream(s)
  BY <1>7 DEF EndOfStream
<1>8. QED
  BY <1>1, <1>2, <1>3, <1>4, <1>5, <1>6, <1>7 DEF HandleHeartBeats

\* What a server's step does: the four ways it can touch its stream, and the
\* clock readings it keeps.
LEMMA ServerEffects ==
    ASSUME TypeOK, StreamsInv, NEW x \in Servers, ServerStep(x)
    PROVE  /\ UNCHANGED <<now, table, pc, hb_timestamp>>
           /\ \A y \in Servers : y # x =>
                /\ process'[y] = process[y]
                /\ starts'[y] = starts[y]
                /\ since'[y] = since[y]
                /\ due'[y] = due[y]
           /\ \A s \in Streams : Sender(s) # x \/ s[2] # starts'[x] =>
                link'[s] = link[s] /\ wire'[s] = wire[s]
           /\ \/ /\ starts'[x] = starts[x] + 1
                 /\ process[x] = "down" /\ process'[x] = "up"
                 /\ since'[x] = now /\ due'[x] = now
                 /\ wire' = wire
              \/ /\ starts'[x] = starts[x] /\ process[x] # "down"
                 /\ \/ /\ process[x] = "up" /\ process'[x] = "up"
                       /\ link' = link
                       /\ since'[x] = since[x]
                       /\ due[x] <= now
                       /\ due'[x] = now + Period
                       /\ wire'[Current(x)] =
                            IF link[Current(x)] = "open"
                            THEN Append(wire[Current(x)], now)
                            ELSE wire[Current(x)]
                    \/ /\ process[x] = "up" /\ process'[x] = "hung"
                       /\ UNCHANGED <<link, wire>>
                       /\ since'[x] = since[x] /\ due'[x] = due[x]
                    \/ /\ process[x] = "hung" /\ process'[x] = "up"
                       /\ UNCHANGED <<link, wire>>
                       /\ since'[x] = now /\ due'[x] = due[x]
                    \/ /\ link'[Current(x)] = "broken"
                       /\ process'[x] \in {"down", process[x]}
                       /\ wire' = wire
                       /\ since'[x] = since[x] /\ due'[x] = due[x]
<1> USE DEF TypeOK, StreamTypeOK, ServerTypeOK, CoordTypeOK, coordVars,
        streamVars, ServerStep
<1>a. ASSUME process[x] # "down" PROVE Current(x) \in Streams
  BY <1>a, CurrentStream
<1>b. ASSUME NEW s \in Streams, Sender(s) # x \/ s[2] # starts[x]
      PROVE  s # Current(x)
  BY <1>b, StreamFacts DEF Current
<1>1. CASE StartServer(x)
  <2>1. starts[x] + 1 \in 1..MaxStarts
    BY <1>1, BoundAssumption, StartsAssumption DEF StartServer
  <2>2. ASSUME NEW s \in Streams, Sender(s) # x \/ s[2] # starts[x] + 1
        PROVE  s # <<x, starts[x] + 1>>
    BY <2>2, StreamFacts
  <2>3. QED
    BY <1>1, <2>1, <2>2 DEF StartServer
<1>2. CASE SendHeartbeat(x)
  BY <1>2, <1>a, <1>b DEF SendHeartbeat
<1>3. CASE CrashServer(x)
  BY <1>3, <1>a, <1>b DEF CrashServer
<1>4. CASE HangServer(x)
  BY <1>4 DEF HangServer
<1>5. CASE ResumeServer(x)
  BY <1>5 DEF ResumeServer
<1>6. CASE ResetConnection(x)
  BY <1>6, <1>a, <1>b DEF ResetConnection
<1>7. QED
  BY <1>1, <1>2, <1>3, <1>4, <1>5, <1>6

-----------------------------------------------------------------------------
\* The initial state satisfies every part of the invariant.
LEMMA InitTiming == Init => TimingInv
<1> SUFFICES ASSUME Init PROVE TimingInv
  OBVIOUS
<1> USE BoundAssumption, StartsAssumption, SlackAssumption
    DEF Init, StreamInit, ServerInit, CoordInit
<1>1. StreamsInv
  BY StreamFacts DEF StreamsInv
<1>2. ClockInv
  BY DEF ClockInv, Busy, Epoch
<1>3. RowInv
  BY DEF RowInv, Epoch
<1>4. ChainInv
  BY DEF ChainInv
<1>5. SenderInv
  BY DEF SenderInv
<1>6. MarkInv
  BY DEF MarkInv
<1>7. QED
  BY <1>1, <1>2, <1>3, <1>4, <1>5, <1>6 DEF TimingInv

\* The types of single values, in the form that arithmetic needs them.
ValueTypes ==
    /\ now \in Nat
    /\ \A x \in Servers : /\ since[x] \in Nat
                          /\ due[x] \in Nat
                          /\ starts[x] \in Nat
                          /\ table[x].last_hb \in Nat
    /\ \A s \in Streams : /\ hb_timestamp[s] \in Nat
                          /\ wire[s] \in Seq(Nat)
                          /\ \A i \in 1..Len(wire[s]) : wire[s][i] \in Nat

\* They follow from TypeOK, before a step and after it.
LEMMA ValueTypesHold ==
    ASSUME TypeOK, TypeOK'
    PROVE  ValueTypes /\ ValueTypes'
<1> USE DEF TypeOK, StreamTypeOK, ServerTypeOK, CoordTypeOK, Rows
<1>1. ValueTypes
  BY BoundAssumption, StartsAssumption DEF ValueTypes
<1>2. ValueTypes'
  BY BoundAssumption, StartsAssumption DEF ValueTypes
<1>3. QED
  BY <1>1, <1>2

\* Streams of starts to come stay untouched.
LEMMA StreamsStep ==
    ASSUME TypeOK, TypeOK', StreamsInv, [Next]_vars
    PROVE  StreamsInv'
<1>t. ValueTypes /\ ValueTypes'
  BY ValueTypesHold
<1>1. ASSUME NEW x \in Servers, ServerStep(x) PROVE StreamsInv'
  <2>1. \A y \in Servers : starts'[y] >= starts[y]
    BY <1>1, <1>t, ServerEffects DEF ValueTypes
  <2>2. \A y \in Servers : process'[y] # "down" => starts'[y] >= 1
    BY SMTT(30), <1>1, <1>t, <2>1, ServerEffects DEF StreamsInv, ValueTypes
  <2>3. ASSUME NEW s \in Streams, s[2] > starts'[s[1]]
        PROVE  /\ s[2] > starts[s[1]]
               /\ link'[s] = link[s] /\ wire'[s] = wire[s]
    <3>1. s[1] \in Servers /\ s[1] = Sender(s) /\ s[2] \in 1..MaxStarts
      BY StreamFacts
    <3>2. s[2] > starts[s[1]]
      BY <1>t, <2>1, <2>3, <3>1, BoundAssumption, StartsAssumption DEF ValueTypes
    <3>3. Sender(s) # x \/ s[2] # starts'[x]
      BY <1>t, <2>3, <3>1, BoundAssumption, StartsAssumption DEF ValueTypes
    <3>4. QED
      BY <1>1, <3>2, <3>3, ServerEffects
  <2>4. pc' = pc /\ hb_timestamp' = hb_timestamp
    BY <1>1, ServerEffects
  <2>5. QED
    BY <2>2, <2>3, <2>4 DEF StreamsInv
<1>2. ASSUME NEW r \in Streams, CoordStep(r) PROVE StreamsInv'
  <2>1. starts' = starts /\ process' = process /\ link' = link
    BY <1>2, CoordEffects
  <2>2. ASSUME NEW s \in Streams, s[2] > starts[s[1]] PROVE r # s
    BY <1>2, <2>2, ThreadEffects DEF StreamsInv
  <2>3. QED
    BY <1>2, <2>1, <2>2, CoordEffects DEF StreamsInv
<1>3. CASE Tick
  BY <1>3 DEF Tick, StreamsInv, streamVars, serverVars, coordVars
<1>4. CASE UNCHANGED vars
  BY <1>4 DEF vars, StreamsInv, streamVars, serverVars, coordVars
<1>5. QED
  BY <1>1, <1>2, <1>3, <1>4 DEF Next, OutOfTime

\* What a server's step does to one stream: nothing, or a heartbeat of now.
LEMMA WireStep ==
    ASSUME TypeOK, StreamsInv, NEW x \in Servers, ServerStep(x), NEW s \in Streams
    PROVE  wire'[s] = wire[s] \/ wire'[s] = Append(wire[s], now)
<1>1. CASE SendHeartbeat(x)
  <2>1. Current(x) \in Streams
    BY <1>1, CurrentStream DEF SendHeartbeat
  <2>2. QED
    BY <1>1, <2>1 DEF SendHeartbeat, TypeOK, StreamTypeOK
<1>2. CASE ~SendHeartbeat(x)
  BY <1>2 DEF ServerStep, StartServer, CrashServer, HangServer, ResumeServer,
     ResetConnection, streamVars
<1>3. QED
  BY <1>1, <1>2

\* The part of ClockInv about one stream.
Timely(s) ==
    /\ \A i \in 1..Len(wire[s]) :
         /\ StartTime <= wire[s][i]
         /\ wire[s][i] <= now
         /\ now <= wire[s][i] + MaxDelay
    /\ hb_timestamp[s] <= now
    /\ Busy(s) => hb_timestamp[s] # Epoch /\ now <= hb_timestamp[s] + MaxDelay

\* No clock reading in the system is in the future or overdue.
LEMMA ClockStep ==
    ASSUME TypeOK, TypeOK', StreamsInv, ClockInv, [Next]_vars
    PROVE  ClockInv'
<1> USE BoundAssumption, StartsAssumption, SlackAssumption
<1>t. ValueTypes /\ ValueTypes'
  BY ValueTypesHold
<1>a. /\ now >= StartTime
      /\ \A x \in Servers : since[x] <= now
      /\ \A s \in Streams : Timely(s)
  BY DEF ClockInv, Timely
<1>b. ASSUME now' >= StartTime, \A x \in Servers : since'[x] <= now',
             \A s \in Streams : Timely(s)'
      PROVE  ClockInv'
  BY <1>b DEF ClockInv, Timely
<1>1. ASSUME NEW x \in Servers, ServerStep(x) PROVE ClockInv'
  <2>1. now' = now /\ pc' = pc /\ hb_timestamp' = hb_timestamp
    BY <1>1, ServerEffects
  <2>2. ASSUME NEW y \in Servers PROVE since'[y] <= now
    <3>1. since'[y] = since[y] \/ since'[y] = now
      BY <1>1, ServerEffects
    <3>2. QED
      BY <1>a, <1>t, <3>1 DEF ValueTypes
  <2>3. ASSUME NEW s \in Streams PROVE Timely(s)'
    <3>1. CASE wire'[s] = wire[s]
      BY <1>a, <2>1, <3>1 DEF Timely, Busy
    <3>2. CASE wire'[s] = Append(wire[s], now)
      <4>1. ASSUME NEW i \in 1..Len(wire'[s])
            PROVE  \/ wire'[s][i] = now
                   \/ i \in 1..Len(wire[s]) /\ wire'[s][i] = wire[s][i]
        BY <1>t, <3>2 DEF ValueTypes
      <4>2. ASSUME NEW i \in 1..Len(wire'[s])
            PROVE  /\ StartTime <= wire'[s][i]
                   /\ wire'[s][i] <= now
                   /\ now <= wire'[s][i] + MaxDelay
        <5>1. CASE wire'[s][i] = now
          BY <1>a, <1>t, <5>1 DEF ValueTypes
        <5>2. CASE i \in 1..Len(wire[s]) /\ wire'[s][i] = wire[s][i]
          BY <1>a, <5>2 DEF Timely
        <5>3. QED
          BY <4>1, <5>1, <5>2
      <4>3. QED
        BY <1>a, <2>1, <4>2 DEF Timely, Busy
    <3>3. QED
      BY <1>1, <3>1, <3>2, WireStep
  <2>4. QED
    BY <1>a, <1>b, <2>1, <2>2, <2>3
<1>2. ASSUME NEW r \in Streams, CoordStep(r) PROVE ClockInv'
  <2>1. now' = now /\ since' = since
    BY <1>2, CoordEffects
  <2>2. ASSUME NEW s \in Streams PROVE Timely(s)'
    <3>1. CASE s # r
      BY <1>2, <1>a, <2>1, <3>1, CoordEffects DEF Timely, Busy
    <3>2. CASE s = r /\ pc[s] = "read" /\ pc'[s] = "assign"
      <4>1. /\ wire[s] # <<>> /\ wire'[s] = Tail(wire[s])
            /\ hb_timestamp'[s] = Head(wire[s])
        BY <1>2, <3>2, ThreadEffects
      <4>2. /\ Head(wire[s]) = wire[s][1] /\ 1 \in 1..Len(wire[s])
            /\ \A i \in 1..Len(Tail(wire[s])) :
                 i + 1 \in 1..Len(wire[s]) /\ Tail(wire[s])[i] = wire[s][i + 1]
        BY <1>t, <4>1 DEF ValueTypes
      <4>3. /\ hb_timestamp'[s] <= now
            /\ hb_timestamp'[s] # Epoch
            /\ now <= hb_timestamp'[s] + MaxDelay
        BY <1>a, <1>t, <4>1, <4>2 DEF Timely, Epoch, ValueTypes
      <4>4. QED
        BY <1>a, <2>1, <4>1, <4>2, <4>3 DEF Timely
    <3>3. CASE s = r /\ pc[s] = "read" /\ pc'[s] = "ended"
      <4>1. wire'[s] = <<>> /\ hb_timestamp'[s] = hb_timestamp[s]
        BY <1>2, <3>3, ThreadEffects
      <4>2. QED
        BY <1>a, <2>1, <3>3, <4>1 DEF Timely, Busy
    <3>4. CASE s = r /\ pc[s] # "read"
      <4>1. /\ wire' = wire /\ hb_timestamp' = hb_timestamp
            /\ Busy(s)' => Busy(s)
        BY <1>2, <3>4, ThreadEffects DEF Busy
      <4>2. QED
        BY <1>a, <2>1, <4>1 DEF Timely
    <3>5. QED
      BY <1>2, <3>1, <3>2, <3>3, <3>4, ThreadEffects
  <2>3. QED
    BY <1>a, <1>b, <2>1, <2>2
<1>3. CASE Tick
  <2>1. /\ wire' = wire /\ pc' = pc /\ hb_timestamp' = hb_timestamp
        /\ since' = since /\ now' = now + 1
    BY <1>3 DEF Tick, streamVars, serverVars, coordVars
  <2>2. ASSUME NEW s \in Streams PROVE Timely(s)'
    <3>1. /\ \A i \in 1..Len(wire[s]) : now < wire[s][i] + MaxDelay
          /\ Busy(s) => now < hb_timestamp[s] + MaxDelay
      BY <1>3 DEF Tick
    <3>2. ASSUME NEW i \in 1..Len(wire[s])
          PROVE  /\ StartTime <= wire[s][i]
                 /\ wire[s][i] <= now + 1
                 /\ now + 1 <= wire[s][i] + MaxDelay
      BY SMTT(30), <1>a, <1>t, <3>1 DEF Timely, ValueTypes
    <3>3. /\ hb_timestamp[s] <= now + 1
          /\ Busy(s) => /\ hb_timestamp[s] # Epoch
                        /\ now + 1 <= hb_timestamp[s] + MaxDelay
      BY <1>a, <1>t, <3>1 DEF Timely, ValueTypes
    <3>4. QED
      BY <2>1, <3>2, <3>3 DEF Timely, Busy
  <2>3. QED
    BY <1>a, <1>b, <1>t, <2>1, <2>2 DEF ValueTypes
<1>4. CASE UNCHANGED vars
  BY <1>4 DEF vars, ClockInv, Busy, streamVars, serverVars, coordVars
<1>5. QED
  BY <1>1, <1>2, <1>3, <1>4 DEF Next, OutOfTime

\* A row is at most MaxDelay older than what any thread stored in it.
LEMMA RowStep ==
    ASSUME TypeOK, TypeOK', StreamsInv, ClockInv, RowInv, [Next]_vars
    PROVE  RowInv'
<1> USE SlackAssumption
<1>t. ValueTypes /\ ValueTypes'
  BY ValueTypesHold
<1>1. ASSUME NEW x \in Servers, ServerStep(x) PROVE RowInv'
  BY <1>1, ServerEffects DEF RowInv
<1>2. ASSUME NEW r \in Streams, CoordStep(r) PROVE RowInv'
  <2> SUFFICES ASSUME NEW s \in Streams, hb_timestamp'[s] # Epoch
               PROVE  /\ table'[Sender(s)].present
                      /\ pc'[s] # "assign" =>
                           table'[Sender(s)].last_hb + MaxDelay >= hb_timestamp'[s]
    BY DEF RowInv
  <2>a. Sender(s) \in Servers
    BY StreamFacts
  <2>1. CASE s # r
    <3>1. pc'[s] = pc[s] /\ hb_timestamp'[s] = hb_timestamp[s]
      BY <1>2, <2>1, CoordEffects
    <3>2. table[Sender(s)].present
      BY <3>1 DEF RowInv
    <3>3. CASE table'[Sender(s)].last_hb = table[Sender(s)].last_hb
      BY <1>2, <2>a, <3>1, <3>2, <3>3, CoordEffects DEF RowInv
    <3>4. CASE AssignRow(r) /\ table'[Sender(s)].last_hb = hb_timestamp[r]
      <4>1. now <= hb_timestamp[r] + MaxDelay
        BY <3>4 DEF AssignRow, Busy, ClockInv
      <4>2. hb_timestamp[s] <= now
        BY DEF ClockInv
      <4>3. QED
        BY <1>2, <1>t, <2>a, <3>1, <3>2, <3>4, <4>1, <4>2, CoordEffects DEF ValueTypes
    <3>5. QED
      BY <1>2, <2>a, <3>2, <3>3, <3>4, CoordEffects
  <2>2. CASE s = r /\ pc[s] = "read" /\ pc'[s] = "assign"
    BY <1>2, <2>2, ThreadEffects
  <2>3. CASE s = r /\ pc[s] = "assign"
    BY <1>2, <1>t, <2>3, ThreadEffects DEF ValueTypes
  <2>4. CASE s = r /\ pc[s] # "assign" /\ pc'[s] # "assign"
    <3>1. hb_timestamp'[s] = hb_timestamp[s] /\ ~AssignRow(r)
      BY <1>2, <2>4, ThreadEffects DEF AssignRow
    <3>2. QED
      BY <1>2, <2>a, <2>4, <3>1, CoordEffects DEF RowInv
  <2>5. QED
    BY <1>2, <2>1, <2>2, <2>3, <2>4, ThreadEffects
<1>3. CASE Tick
  BY <1>3 DEF Tick, RowInv, streamVars, serverVars, coordVars
<1>4. CASE UNCHANGED vars
  BY <1>4 DEF vars, RowInv, streamVars, serverVars, coordVars
<1>5. QED
  BY <1>1, <1>2, <1>3, <1>4 DEF Next, OutOfTime

\* The deadline of a sender is no earlier than either of its two origins, and
\* is one of them.
LEMMA DeadlineFacts ==
    ASSUME ValueTypes, NEW x \in Servers
    PROVE  /\ SendDeadline(x) >= since[x] + Slack
           /\ SendDeadline(x) >= due[x] + Slack
           /\ \/ since[x] >= due[x] /\ SendDeadline(x) = since[x] + Slack
              \/ due[x] > since[x] /\ SendDeadline(x) = due[x] + Slack
BY SlackAssumption DEF ValueTypes, SendDeadline

\* No live sender oversleeps by more than Slack.
LEMMA SenderStep ==
    ASSUME TypeOK, TypeOK', StreamsInv, ClockInv, SenderInv, [Next]_vars
    PROVE  SenderInv'
<1> USE SlackAssumption, PeriodAssumption
<1>t. ValueTypes /\ ValueTypes'
  BY ValueTypesHold
<1>1. ASSUME NEW x \in Servers, ServerStep(x) PROVE SenderInv'
  <2> SUFFICES ASSUME NEW y \in Servers, process'[y] = "up"
               PROVE  now' <= SendDeadline(y)'
    BY DEF SenderInv
  <2>1. now' = now
    BY <1>1, ServerEffects
  <2>2. CASE process[y] = "up" /\ since'[y] = since[y] /\ due'[y] = due[y]
    BY <2>1, <2>2 DEF SenderInv, SendDeadline
  <2>3. CASE since'[y] = now \/ due'[y] = now + Period
    BY <1>t, <2>1, <2>3 DEF SendDeadline, ValueTypes
  <2>4. QED
    BY <1>1, <2>2, <2>3, ServerEffects
<1>2. ASSUME NEW r \in Streams, CoordStep(r) PROVE SenderInv'
  BY <1>2, CoordEffects DEF SenderInv, SendDeadline
<1>3. CASE Tick
  <2>1. /\ process' = process /\ since' = since /\ due' = due /\ now' = now + 1
        /\ \A x \in Servers : process[x] = "up" => now < SendDeadline(x)
    BY <1>3 DEF Tick, serverVars
  <2>2. \A x \in Servers : SendDeadline(x) \in Nat
    BY <1>t DEF SendDeadline, ValueTypes
  <2>3. QED
    BY <1>t, <2>1, <2>2 DEF SenderInv, SendDeadline, ValueTypes
<1>4. CASE UNCHANGED vars
  BY <1>4 DEF vars, SenderInv, SendDeadline, serverVars
<1>5. QED
  BY <1>1, <1>2, <1>3, <1>4 DEF Next, OutOfTime

\* A step that leaves a stream, its thread and the stored heartbeat alone keeps
\* the chain: being started or resumed later only gives more time.
LEMMA SameChain ==
    ASSUME ValueTypes, ValueTypes', NEW x \in Servers, NEW s \in Streams,
           Chain(x, s),
           wire'[s] = wire[s], hb_timestamp'[s] = hb_timestamp[s],
           pc'[s] = "assign" => /\ pc[s] = "assign"
                                /\ table'[x].last_hb = table[x].last_hb,
           since'[x] >= since[x], due'[x] = due[x]
    PROVE  Chain(x, s)'
<1> USE SlackAssumption
<1>1. ASSUME NEW a \in Nat, NEW b \in Nat, InTime(x, a, b)
      PROVE  (a # Epoch /\ b <= a + Gap) \/ b <= since'[x] + Slack
  BY <1>1 DEF InTime, ValueTypes
<1>2. pc'[s] = "assign" =>
        InTime(x, table[x].last_hb + MaxDelay, hb_timestamp[s])'
  BY SMTT(30), <1>1 DEF Chain, InTime, ValueTypes
<1>3. wire'[s] # <<>> => InTime(x, hb_timestamp[s], wire[s][1])'
  <2>1. wire[s] # <<>> => wire[s][1] \in Nat
    BY DEF ValueTypes
  <2>2. QED
    BY <1>1, <2>1 DEF Chain, InTime, ValueTypes
<1>4. \A i \in 1..(Len(wire'[s]) - 1) : InTime(x, wire[s][i], wire[s][i + 1])'
  <2> SUFFICES ASSUME NEW i \in 1..(Len(wire[s]) - 1)
               PROVE  InTime(x, wire[s][i], wire[s][i + 1])'
    OBVIOUS
  <2>1. wire[s][i] \in Nat /\ wire[s][i + 1] \in Nat
    BY DEF ValueTypes
  <2>2. QED
    BY <1>1, <2>1 DEF Chain, InTime
<1>5. \/ LastWritten(s)' # Epoch /\ due'[x] <= LastWritten(s)' + Period
      \/ due'[x] <= since'[x]
  BY DEF Chain, LastWritten, ValueTypes
<1>6. QED
  BY <1>2, <1>3, <1>4, <1>5 DEF Chain

\* A sender that is not late writes in time after the heartbeat before.
LEMMA NextInTime ==
    ASSUME TypeOK, ValueTypes, StreamsInv, SenderInv, NEW x \in Servers, process[x] = "up",
           Chain(x, Current(x))
    PROVE  InTime(x, LastWritten(Current(x)), now)
<1>0. Current(x) \in Streams
  BY CurrentStream
<1>1. LastWritten(Current(x)) \in Nat
  BY <1>0 DEF LastWritten, ValueTypes
<1>2. now <= SendDeadline(x)
  BY DEF SenderInv
<1>3. \/ now <= since[x] + Slack
      \/ due[x] > since[x] /\ now <= due[x] + Slack
  BY <1>2, DeadlineFacts, SlackAssumption DEF ValueTypes
<1>4. QED
  BY <1>1, <1>3, SlackAssumption, PeriodAssumption
  DEF Chain, InTime, Gap, ValueTypes

\* What Append does to the elements of a sequence of naturals.
LEMMA AppendFacts ==
    ASSUME NEW q \in Seq(Nat), NEW n \in Nat
    PROVE  /\ Len(q) \in Nat
           /\ Len(Append(q, n)) = Len(q) + 1
           /\ Append(q, n) # <<>>
           /\ Append(q, n)[Len(q) + 1] = n
           /\ \A i \in 1..Len(q) : Append(q, n)[i] = q[i]
           /\ q = <<>> => Append(q, n)[1] = n
           /\ q # <<>> => Len(q) >= 1
BY AppendProperties

\* What Head and Tail do to them.
LEMMA TailFacts ==
    ASSUME NEW q \in Seq(Nat), q # <<>>
    PROVE  /\ Len(q) \in Nat /\ Len(q) >= 1
           /\ Head(q) = q[1]
           /\ Len(Tail(q)) = Len(q) - 1
           /\ \A i \in 1..(Len(q) - 1) : Tail(q)[i] = q[i + 1]
           /\ Tail(q) = <<>> <=> Len(q) = 1
<1>1. Len(q) \in Nat /\ Len(q) >= 1 /\ Head(q) = q[1]
  BY EmptySeq
<1>2. /\ Tail(q) \in Seq(Nat)
      /\ Len(Tail(q)) = Len(q) - 1
      /\ \A i \in 1..(Len(q) - 1) : Tail(q)[i] = q[i + 1]
  BY <1>1
<1>3. Tail(q) = <<>> <=> Len(Tail(q)) = 0
  <2>1. Tail(q) # <<>> => Len(Tail(q)) # 0
    BY <1>2, EmptySeq
  <2>2. Len(<<>>) = 0
    BY EmptySeq
  <2>3. CASE Tail(q) = <<>>
    BY <2>2, <2>3
  <2>4. CASE Tail(q) # <<>>
    BY <2>1, <2>4
  <2>5. QED
    BY <2>3, <2>4
<1>4. Len(Tail(q)) = 0 <=> Len(q) = 1
  BY <1>1, <1>2
<1>5. QED
  BY <1>1, <1>2, <1>3, <1>4

\* A heartbeat that is sent keeps the chain of the sender's stream.
LEMMA SendKeepsChain ==
    ASSUME ValueTypes, ValueTypes', NEW x \in Servers, NEW s \in Streams,
           Chain(x, s), InTime(x, LastWritten(s), now),
           wire'[s] = Append(wire[s], now), due'[x] = now + Period,
           since'[x] = since[x], now # Epoch,
           UNCHANGED <<table, pc, hb_timestamp>>
    PROVE  Chain(x, s)'
<1>t. wire[s] \in Seq(Nat) /\ now \in Nat
  BY DEF ValueTypes
<1>1. /\ Len(wire[s]) \in Nat
      /\ Len(wire'[s]) = Len(wire[s]) + 1
      /\ wire'[s] # <<>>
      /\ wire'[s][Len(wire[s]) + 1] = now
      /\ \A i \in 1..Len(wire[s]) : wire'[s][i] = wire[s][i]
      /\ wire[s] = <<>> => wire'[s][1] = now
      /\ wire[s] # <<>> => Len(wire[s]) >= 1
  <2> DEFINE q == wire[s]
  <2> HIDE DEF q
  <2>1. q \in Seq(Nat) /\ wire'[s] = Append(q, now)
    BY <1>t DEF q
  <2>2. /\ Len(q) \in Nat
        /\ Len(Append(q, now)) = Len(q) + 1
        /\ Append(q, now) # <<>>
        /\ Append(q, now)[Len(q) + 1] = now
        /\ \A i \in 1..Len(q) : Append(q, now)[i] = q[i]
        /\ q = <<>> => Append(q, now)[1] = now
        /\ q # <<>> => Len(q) >= 1
    BY <1>t, <2>1, AppendFacts
  <2>3. QED
    BY <2>1, <2>2, Zenon DEF q
<1>2. InTime(x, hb_timestamp[s], wire'[s][1])
  BY <1>1 DEF Chain, LastWritten
<1>3. ASSUME NEW i \in 1..(Len(wire'[s]) - 1)
      PROVE  InTime(x, wire'[s][i], wire'[s][i + 1])
  <2>1. CASE i = Len(wire[s])
    <3>1. wire[s] # <<>>
      BY <1>1, <2>1
    <3>2. LastWritten(s) = wire'[s][i] /\ now = wire'[s][i + 1]
      BY <1>1, <2>1, <3>1 DEF LastWritten
    <3>3. QED
      BY <3>2
  <2>2. CASE i # Len(wire[s])
    <3>1. i \in 1..(Len(wire[s]) - 1)
      BY <1>1, <2>2
    <3>2. wire'[s][i] = wire[s][i] /\ wire'[s][i + 1] = wire[s][i + 1]
      BY <1>1, <3>1
    <3>3. QED
      BY <3>1, <3>2 DEF Chain
  <2>3. QED
    BY <2>1, <2>2
<1>4. LastWritten(s)' = now
  BY <1>1 DEF LastWritten
<1>5. pc'[s] = "assign" => InTime(x, table[x].last_hb + MaxDelay, hb_timestamp[s])'
  BY DEF Chain, InTime
<1>6. QED
  <2>1. /\ wire'[s] # <<>> => InTime(x, hb_timestamp[s], wire[s][1])'
        /\ \A i \in 1..(Len(wire'[s]) - 1) : InTime(x, wire[s][i], wire[s][i + 1])'
    BY <1>2, <1>3 DEF InTime
  <2>2. LastWritten(s)' # Epoch /\ due'[x] <= LastWritten(s)' + Period
    BY <1>t, <1>4, PeriodAssumption
  <2>3. QED
    BY <1>5, <2>1, <2>2 DEF Chain

\* A heartbeat that is read keeps the chain: it was in time after the one the
\* thread stored, and the row is at most MaxDelay older than that one.
LEMMA ReadKeepsChain ==
    ASSUME ValueTypes, ValueTypes', RowInv, NEW x \in Servers, NEW s \in Streams,
           Sender(s) = x, Chain(x, s), pc[s] # "assign", wire[s] # <<>>,
           hb_timestamp'[s] = Head(wire[s]), wire'[s] = Tail(wire[s]),
           table[x].present => table'[x].last_hb = table[x].last_hb,
           since' = since, due' = due
    PROVE  Chain(x, s)'
<1>t. wire[s] \in Seq(Nat)
  BY DEF ValueTypes
<1>1. /\ Len(wire[s]) \in Nat /\ Len(wire[s]) >= 1
      /\ hb_timestamp'[s] = wire[s][1]
      /\ Len(wire'[s]) = Len(wire[s]) - 1
      /\ \A i \in 1..(Len(wire[s]) - 1) : wire'[s][i] = wire[s][i + 1]
      /\ wire'[s] = <<>> <=> Len(wire[s]) = 1
  BY <1>t, TailFacts
<1>2. InTime(x, table[x].last_hb + MaxDelay, hb_timestamp[s])'
  <2>1. InTime(x, hb_timestamp[s], wire[s][1])
    BY DEF Chain
  <2>2. CASE wire[s][1] <= since[x] + Slack
    BY <1>1, <2>2 DEF InTime
  <2>3. CASE hb_timestamp[s] # Epoch /\ wire[s][1] <= hb_timestamp[s] + Gap
    <3>1. /\ table'[x].last_hb + MaxDelay >= hb_timestamp[s]
          /\ table'[x].last_hb + MaxDelay # Epoch
      BY SMTT(30), <2>3, SlackAssumption DEF RowInv, ValueTypes, Epoch
    <3>2. /\ wire[s][1] \in Nat /\ hb_timestamp[s] \in Nat
          /\ table'[x].last_hb \in Nat /\ Gap \in Nat
      BY <1>1, SlackAssumption, PeriodAssumption DEF ValueTypes, Gap
    <3>3. wire[s][1] <= table'[x].last_hb + MaxDelay + Gap
      BY <2>3, <3>1, <3>2, SlackAssumption
    <3>4. QED
      BY <1>1, <3>1, <3>3 DEF InTime
  <2>4. QED
    BY <2>1, <2>2, <2>3 DEF InTime
<1>3. wire'[s] # <<>> => InTime(x, hb_timestamp[s], wire[s][1])'
  <2>1. wire'[s] # <<>> => /\ 1 \in 1..(Len(wire[s]) - 1)
                           /\ wire'[s][1] = wire[s][2]
    BY <1>1
  <2>2. QED
    BY <1>1, <2>1 DEF Chain, InTime
<1>4. ASSUME NEW i \in 1..(Len(wire'[s]) - 1)
      PROVE  InTime(x, wire[s][i], wire[s][i + 1])'
  <2>1. /\ i + 1 \in 1..(Len(wire[s]) - 1)
        /\ wire'[s][i] = wire[s][i + 1]
        /\ wire'[s][i + 1] = wire[s][(i + 1) + 1]
    BY SMTT(30), <1>1
  <2>2. QED
    BY <2>1 DEF Chain, InTime
<1>5. LastWritten(s)' = LastWritten(s)
  <2>1. CASE Len(wire[s]) = 1
    BY <1>1, <2>1 DEF LastWritten
  <2>2. CASE Len(wire[s]) # 1
    BY SMTT(30), <1>1, <2>2 DEF LastWritten
  <2>3. QED
    BY <2>1, <2>2
<1>6. QED
  BY <1>2, <1>3, <1>4, <1>5 DEF Chain

\* From a heartbeat stored to the one to come, all stay in time.
LEMMA ChainStep ==
    ASSUME TypeOK, TypeOK', TimingInv, [Next]_vars
    PROVE  ChainInv'
<1>t. ValueTypes /\ ValueTypes'
  BY ValueTypesHold
<1>i. StreamsInv /\ ClockInv /\ RowInv /\ ChainInv /\ SenderInv
  BY DEF TimingInv
<1>1. ASSUME NEW y \in Servers, ServerStep(y) PROVE ChainInv'
  <2> SUFFICES ASSUME NEW x \in Servers, NEW s, s = Current(x)',
                      process'[x] # "down", link'[s] = "open"
               PROVE  Chain(x, s)'
    BY DEF ChainInv
  <2>1. now' = now /\ table' = table /\ pc' = pc /\ hb_timestamp' = hb_timestamp
    BY <1>1, <1>i, ServerEffects
  <2>2. /\ now # Epoch
        /\ \A z \in Servers : since[z] <= now
    BY <1>i, <1>t, BoundAssumption, StartsAssumption DEF ClockInv, Epoch, ValueTypes
  <2>3. ASSUME s = Current(x), process[x] # "down", link[s] = "open"
        PROVE  s \in Streams /\ Chain(x, s)
    BY <1>i, <2>3, CurrentStream DEF ChainInv
  <2>4. CASE x # y
    <3>1. /\ starts'[x] = starts[x] /\ process'[x] = process[x]
          /\ since'[x] = since[x] /\ due'[x] = due[x]
      BY <1>1, <1>i, <2>4, ServerEffects
    <3>2. s = Current(x) /\ s \in Streams /\ Sender(s) = x
      BY <1>i, <3>1, CurrentStream DEF Current
    <3>3. link'[s] = link[s] /\ wire'[s] = wire[s]
      BY <1>1, <1>i, <2>4, <3>2, ServerEffects
    <3>4. QED
      BY <1>t, <2>1, <2>3, <3>1, <3>2, <3>3, SameChain DEF ValueTypes
  <2>5. CASE x = y /\ starts'[x] = starts[x] + 1
    <3>1. s \in Streams /\ s[1] = x /\ s[2] = starts[x] + 1
      <4>1. starts[x] + 1 \in 1..MaxStarts
        BY <1>t, <2>5 DEF TypeOK, ServerTypeOK, ValueTypes
      <4>2. QED
        BY <2>5, <4>1, CurrentFacts DEF Current
    <3>2. /\ wire[s] = <<>> /\ pc[s] = "read" /\ hb_timestamp[s] = Epoch
      BY <1>i, <1>t, <3>1 DEF StreamsInv, ValueTypes
    <3>3. wire' = wire /\ since'[x] = now /\ due'[x] = now
      BY <1>1, <1>i, <1>t, <2>5, ServerEffects DEF ValueTypes
    <3>4. wire'[s] = <<>> /\ Len(wire'[s]) = 0 /\ pc'[s] # "assign"
      BY <2>1, <3>2, <3>3
    <3>5. due'[x] <= since'[x]
      BY <1>t, <3>3 DEF ValueTypes
    <3>6. QED
      BY <3>4, <3>5 DEF Chain
  <2>6. CASE x = y /\ starts'[x] = starts[x] /\ process[x] # "down"
    <3>1. s = Current(x)
      BY <2>6 DEF Current
    <3>2. s \in Streams /\ link'[s] = link[s]
      BY <1>1, <1>i, <2>6, <3>1, CurrentStream, ServerEffects
    <3>3. Chain(x, s)
      BY <2>3, <2>6, <3>1, <3>2
    <3>4. CASE wire'[s] = wire[s] /\ due'[x] = due[x] /\ since'[x] \in {since[x], now}
      BY SMTT(30), <1>t, <2>1, <2>2, <3>2, <3>3, <3>4, SameChain DEF ValueTypes
    <3>5. CASE /\ process[x] = "up" /\ since'[x] = since[x]
               /\ due'[x] = now + Period /\ wire'[s] = Append(wire[s], now)
      <4>1. InTime(x, LastWritten(s), now)
        BY <1>i, <1>t, <3>1, <3>3, <3>5, NextInTime
      <4>2. QED
        BY <1>t, <2>1, <2>2, <3>2, <3>3, <3>5, <4>1, SendKeepsChain
    <3>6. CASE SendHeartbeat(x)
      <4>1. /\ process[x] = "up" /\ since' = since
            /\ due' = [due EXCEPT ![x] = now + Period]
            /\ wire' = [wire EXCEPT ![s] = Append(wire[s], now)]
        BY <2>6, <3>1, <3>2, <3>6 DEF SendHeartbeat
      <4>2. QED
        BY <3>2, <3>5, <4>1 DEF TypeOK, StreamTypeOK, ServerTypeOK
    <3>7. CASE HangServer(x) \/ ResumeServer(x)
      BY <3>4, <3>7 DEF HangServer, ResumeServer, streamVars, TypeOK, ServerTypeOK
    <3>8. CASE CrashServer(x) \/ ResetConnection(x)
      BY <3>1, <3>2, <3>8 DEF CrashServer, ResetConnection, TypeOK, StreamTypeOK
    <3>9. CASE StartServer(x)
      BY <1>t, <2>6, <3>9 DEF StartServer
    <3>10. QED
      BY <1>1, <2>6, <3>6, <3>7, <3>8, <3>9 DEF ServerStep
  <2>7. QED
    BY <1>1, <1>i, <2>4, <2>5, <2>6, ServerEffects
<1>2. ASSUME NEW r \in Streams, CoordStep(r) PROVE ChainInv'
  <2>1. UNCHANGED <<now, link, process, starts, since, due>>
    BY <1>2, CoordEffects
  <2> SUFFICES ASSUME NEW x \in Servers, NEW s, s = Current(x),
                      process[x] # "down", link[s] = "open"
               PROVE  Chain(x, s)'
    BY <2>1 DEF ChainInv, Current
  <2>2. s \in Streams /\ Sender(s) = x
    BY <1>i, CurrentStream
  <2>3. Chain(x, s)
    BY <1>i DEF ChainInv
  <2>4. CASE s # r
    <3>1. /\ pc'[s] = pc[s] /\ hb_timestamp'[s] = hb_timestamp[s]
          /\ wire'[s] = wire[s]
      BY <1>2, <2>2, <2>4, CoordEffects
    <3>2. CASE pc[s] = "assign" => table'[x].last_hb = table[x].last_hb
      BY <1>t, <2>1, <2>2, <2>3, <3>1, <3>2, SameChain DEF ValueTypes
    <3>3. CASE pc[s] = "assign" /\ table'[x].last_hb # table[x].last_hb
      <4>1. hb_timestamp[s] # Epoch /\ hb_timestamp[s] <= now
        BY <1>i, <2>2, <3>3 DEF ClockInv, Busy
      <4>2. table[x].present
        BY <1>i, <2>2, <4>1 DEF RowInv
      <4>3. AssignRow(r) /\ table'[x].last_hb = hb_timestamp[r]
        BY <1>2, <3>3, <4>2, CoordEffects
      <4>4. hb_timestamp[r] # Epoch /\ now <= hb_timestamp[r] + MaxDelay
        BY <1>i, <4>3 DEF ClockInv, Busy, AssignRow
      <4>5. InTime(x, table[x].last_hb + MaxDelay, hb_timestamp[s])'
        <5>1. /\ hb_timestamp[r] \in Nat /\ hb_timestamp[s] \in Nat
              /\ now \in Nat /\ Gap \in Nat
          BY <1>t, <2>2, SlackAssumption, PeriodAssumption DEF ValueTypes, Gap
        <5>2. /\ hb_timestamp[r] + MaxDelay # Epoch
              /\ hb_timestamp[s] <= hb_timestamp[r] + MaxDelay + Gap
          BY <4>1, <4>4, <5>1, SlackAssumption DEF Epoch
        <5>3. QED
          BY <3>1, <4>3, <5>2 DEF InTime
      <4>6. QED
        BY <2>1, <2>3, <3>1, <4>5 DEF Chain, InTime, LastWritten
    <3>4. QED
      BY <3>2, <3>3
  <2>5. CASE s = r /\ pc[s] = "read" /\ pc'[s] = "assign"
    <3>1. /\ wire[s] # <<>> /\ hb_timestamp'[s] = Head(wire[s])
          /\ wire'[s] = Tail(wire[s])
      BY <1>2, <2>5, ThreadEffects
    <3>2. table[x].present => table'[x].last_hb = table[x].last_hb
      BY <1>2, <2>5, CoordEffects DEF AssignRow
    <3>3. QED
      BY <1>i, <1>t, <2>1, <2>2, <2>3, <2>5, <3>1, <3>2, ReadKeepsChain
  <2>6. CASE s = r /\ pc[s] # "read"
    <3>1. wire' = wire /\ hb_timestamp' = hb_timestamp /\ pc'[s] # "assign"
      BY <1>2, <2>6, ThreadEffects
    <3>2. QED
      BY <1>t, <2>1, <2>2, <2>3, <3>1, SameChain DEF ValueTypes
  <2>7. QED
    BY <1>2, <2>4, <2>5, <2>6, ThreadEffects
<1>3. ASSUME UNCHANGED <<wire, link, process, starts, since, due, table, pc, hb_timestamp>>
      PROVE  ChainInv'
  BY <1>3, <1>i DEF ChainInv, Chain, InTime, LastWritten, Current
<1>4. CASE Tick
  BY <1>3, <1>4 DEF Tick, streamVars, serverVars, coordVars
<1>5. CASE UNCHANGED vars
  BY <1>3, <1>5 DEF vars, streamVars, serverVars, coordVars
<1>6. QED
  BY <1>1, <1>2, <1>4, <1>5 DEF Next, OutOfTime

\* A settled server has been heard, and what was read last is not long ago: the
\* heartbeat that is overdue at the latest is at most Gap after it.
LEMMA SettledIsHeard ==
    ASSUME TypeOK, ValueTypes, TimingInv, NEW x \in Servers, Settled(x, 0)
    PROVE  /\ Current(x) \in Streams /\ Sender(Current(x)) = x
           /\ hb_timestamp[Current(x)] # Epoch
           /\ now <= hb_timestamp[Current(x)] + Gap + MaxDelay
<1> USE SlackAssumption, PeriodAssumption
<1> DEFINE s == Current(x)
           hb == hb_timestamp[s]
           settling == since[x] + Slack + MaxDelay
<1>i. ClockInv /\ StreamsInv
  BY DEF TimingInv
<1>0. s \in Streams /\ Sender(s) = x
  BY <1>i, CurrentStream DEF Settled, Connected
<1>1. Chain(x, s)
  BY DEF TimingInv, ChainInv, Settled, Connected
<1>2. /\ now \in Nat /\ hb \in Nat /\ Gap \in Nat
      /\ due[x] \in Nat /\ since[x] \in Nat
  BY <1>0 DEF ValueTypes, Gap
<1>3. now > settling
  BY <1>2 DEF Settled
<1> HIDE DEF s
<1>4. LastWritten(s) # Epoch /\ LastWritten(s) \in Nat /\ now <= LastWritten(s) + Gap
  <2>1. now <= SendDeadline(x)
    BY DEF TimingInv, SenderInv, Settled, Connected
  <2>2. due[x] > since[x] /\ now <= due[x] + Slack
    BY <1>2, <1>3, <2>1, DeadlineFacts
  <2>3. LastWritten(s) # Epoch /\ due[x] <= LastWritten(s) + Period
    BY <1>1, <1>2, <2>2 DEF Chain
  <2>4. LastWritten(s) \in Nat
    BY <1>0 DEF LastWritten, ValueTypes
  <2>5. QED
    BY <1>2, <2>2, <2>3, <2>4 DEF Gap
\* Whatever is still to be handled is less than MaxDelay old.
<1>5. CASE wire[s] = <<>>
  BY <1>0, <1>2, <1>4, <1>5 DEF LastWritten, s
<1>6. CASE wire[s] # <<>>
  <2>1. 1 \in 1..Len(wire[s]) /\ wire[s][1] \in Nat
    BY <1>0, <1>6 DEF ValueTypes
  <2>2. now <= wire[s][1] + MaxDelay
    BY <1>i, <1>0, <2>1 DEF ClockInv
  <2>3. InTime(x, hb, wire[s][1])
    BY <1>1, <1>6 DEF Chain
  <2>4. ~(wire[s][1] <= since[x] + Slack)
    BY <1>2, <1>3, <2>1, <2>2
  <2>5. hb # Epoch /\ wire[s][1] <= hb + Gap
    BY <2>3, <2>4 DEF InTime
  <2>6. QED
    BY <1>0, <1>2, <2>1, <2>2, <2>5 DEF s
<1>7. QED
  BY <1>5, <1>6

\* The row of a settled server is fresh: what was read last has been stored, or
\* it is being stored over what came before.
LEMMA TimingGivesFresh ==
    ASSUME TypeOK, ValueTypes, TimingInv
    PROVE  FreshRows
<1> SUFFICES ASSUME NEW x \in Servers, Settled(x, 0)
             PROVE  /\ table[x].present
                    /\ now - table[x].last_hb <= Gap + 2 * MaxDelay
  BY DEF FreshRows
<1> USE SlackAssumption, PeriodAssumption
<1> DEFINE s == Current(x)
           hb == hb_timestamp[s]
           last == table[x].last_hb
<1>i. ClockInv /\ RowInv
  BY DEF TimingInv
<1>0. /\ s \in Streams /\ Sender(s) = x
      /\ hb # Epoch /\ now <= hb + Gap + MaxDelay
  BY SettledIsHeard
<1>1. Chain(x, s)
  BY DEF TimingInv, ChainInv, Settled, Connected
<1>2. /\ now \in Nat /\ hb \in Nat /\ last \in Nat /\ Gap \in Nat
      /\ since[x] \in Nat
  BY <1>0 DEF ValueTypes, Gap
<1>3. now > since[x] + Slack + MaxDelay
  BY <1>2 DEF Settled
<1>4. table[x].present
  BY <1>i, <1>0 DEF RowInv
<1> HIDE DEF s
<1>5. CASE pc[s] # "assign"
  <2>1. last + MaxDelay >= hb
    BY <1>i, <1>0, <1>5 DEF RowInv
  <2>2. QED
    BY <1>0, <1>2, <1>4, <2>1
<1>6. CASE pc[s] = "assign"
  <2>1. now <= hb + MaxDelay
    BY <1>i, <1>0, <1>6 DEF ClockInv, Busy
  <2>2. InTime(x, last + MaxDelay, hb)
    BY <1>1, <1>6 DEF Chain
  <2>3. QED
    BY <1>2, <1>3, <1>4, <2>1, <2>2 DEF InTime
<1>7. QED
  BY <1>5, <1>6

\* A thread decides against a connected server only while it is not settled.
LEMMA MarkStep ==
    ASSUME TypeOK, TypeOK', TimingInv, [Next]_vars
    PROVE  MarkInv'
<1> USE SlackAssumption
<1>t. ValueTypes /\ ValueTypes'
  BY ValueTypesHold
<1>i. StreamsInv /\ ClockInv /\ MarkInv
  BY DEF TimingInv
<1> SUFFICES ASSUME NEW s \in Streams, NEW t \in ServerTypes, NEW x, x = Peer(s, t),
                    pc'[s] = (IF t = "MASTER" THEN "markMaster" ELSE "markSlave"),
                    Connected(x)'
             PROVE  hb_timestamp'[s] <= since'[x] + Slack + MaxDelay
  BY DEF MarkInv, Peer
<1>p. x \in Servers
  BY PeerFacts
<1>0. hb_timestamp[s] <= now
  BY <1>i DEF ClockInv
<1>1. ASSUME NEW y \in Servers, ServerStep(y)
      PROVE  hb_timestamp'[s] <= since'[x] + Slack + MaxDelay
  <2>1. pc' = pc /\ hb_timestamp' = hb_timestamp /\ now' = now
    BY <1>1, <1>i, ServerEffects
  <2>2. CASE since'[x] = now
    BY <1>t, <1>p, <1>0, <2>1, <2>2 DEF ValueTypes
  <2>3. CASE Connected(x) /\ since'[x] = since[x]
    BY <1>i, <2>1, <2>3 DEF MarkInv
  <2>4. CASE x # y
    <3>1. /\ process'[x] = process[x] /\ starts'[x] = starts[x]
          /\ since'[x] = since[x]
      BY <1>1, <1>i, <1>p, <2>4, ServerEffects
    <3>2. Current(x)' = Current(x) /\ process[x] = "up"
      BY <3>1 DEF Current, Connected
    <3>3. link'[Current(x)] = link[Current(x)]
      BY <1>1, <1>i, <1>p, <2>4, <3>2, CurrentStream, ServerEffects
    <3>4. QED
      BY <2>3, <3>1, <3>2, <3>3 DEF Connected
  <2>5. CASE x = y
    <3>1. CASE StartServer(x) \/ ResumeServer(x)
      BY <1>p, <2>2, <3>1 DEF StartServer, ResumeServer, TypeOK, ServerTypeOK
    <3>2. CASE SendHeartbeat(x) \/ HangServer(x)
      BY <2>3, <3>2 DEF SendHeartbeat, HangServer, Connected, Current, streamVars
    <3>3. CASE CrashServer(x) \/ ResetConnection(x)
      <4>1. /\ starts' = starts /\ process[x] # "down"
            /\ link' = [link EXCEPT ![Current(x)] = "broken"]
        BY <3>3 DEF CrashServer, ResetConnection
      <4>2. Current(x) \in Streams
        BY <1>i, <1>p, <4>1, CurrentStream
      <4>3. QED
        BY <4>1, <4>2 DEF Connected, Current, TypeOK, StreamTypeOK
    <3>4. QED
      BY <1>1, <2>5, <3>1, <3>2, <3>3 DEF ServerStep
  <2>6. QED
    BY <2>4, <2>5
<1>2. ASSUME NEW r \in Streams, CoordStep(r)
      PROVE  hb_timestamp'[s] <= since'[x] + Slack + MaxDelay
  <2>1. UNCHANGED <<now, link, process, starts, since, due>>
    BY <1>2, CoordEffects
  <2>2. Connected(x)
    BY <2>1 DEF Connected, Current
  <2>3. CASE pc'[s] = pc[s] /\ hb_timestamp'[s] = hb_timestamp[s]
    BY <1>i, <2>1, <2>2, <2>3 DEF MarkInv
  <2>4. CASE s = r /\ (CheckMaster(s) \/ CheckSlave(s))
    <3>1. hb_timestamp' = hb_timestamp /\ Expired(table[x], hb_timestamp[s])
      BY <2>4 DEF CheckMaster, CheckSlave, CheckRow, Goto, ServerTypes, TypeOK,
         CoordTypeOK, PCs
    <3>2. ~Settled(x, 0)
      <4>1. FreshRows
        BY <1>t, TimingGivesFresh
      <4>2. hb_timestamp[s] - table[x].last_hb > Timeout
        BY <3>1 DEF Expired
      <4>3. /\ hb_timestamp[s] \in Nat /\ now \in Nat /\ Gap \in Nat
            /\ table[x].last_hb \in Nat /\ Timeout \in Nat
        BY <1>t, <1>p, PeriodAssumption, TimeoutAssumption DEF ValueTypes, Gap
      <4>4. QED
        BY <1>p, <1>0, <4>1, <4>2, <4>3, DelayAssumption DEF FreshRows
    <3>3. QED
      BY <1>t, <1>p, <1>0, <2>1, <2>2, <3>1, <3>2 DEF Settled, ValueTypes
  <2>5. CASE s = r /\ ~(CheckMaster(s) \/ CheckSlave(s))
    BY <1>2, <2>5 DEF CoordStep, HandleHeartBeats, ReadHeartbeat, AssignRow,
       MarkMaster, MarkSlave, MarkRow, EndOfStream, Goto, TypeOK, CoordTypeOK
  <2>6. QED
    BY <1>2, <2>3, <2>4, <2>5, CoordEffects
<1>3. CASE Tick \/ UNCHANGED vars
  <2>1. UNCHANGED <<link, process, starts, since, pc, hb_timestamp>>
    BY <1>3 DEF Tick, vars, streamVars, serverVars, coordVars
  <2>2. QED
    BY <1>i, <2>1 DEF MarkInv, Connected, Current
<1>4. QED
  BY <1>1, <1>2, <1>3 DEF Next, OutOfTime

-----------------------------------------------------------------------------
\* The inductive invariant of FailoverInv holds in every reachable state.
THEOREM TimingCorrect == Spec => []TimingInv
<1>1. TypeOK /\ TypeOK' /\ TimingInv /\ [Next]_vars => TimingInv'
  <2> SUFFICES ASSUME TypeOK, TypeOK', TimingInv, [Next]_vars PROVE TimingInv'
    OBVIOUS
  <2>1. StreamsInv /\ ClockInv /\ RowInv /\ SenderInv
    BY DEF TimingInv
  <2>2. StreamsInv' /\ ClockInv' /\ RowInv' /\ SenderInv'
    BY <2>1, StreamsStep, ClockStep, RowStep, SenderStep
  <2>3. QED
    BY <2>2, ChainStep, MarkStep DEF TimingInv
<1>2. QED
  BY InitTiming, TypeCorrect, <1>1, PTL DEF Spec

\* The routing row of a server that runs and is connected carries a heartbeat
\* too recent for any thread's comparison to expire it (FreshRows of Failover).
THEOREM RowsFresh == Spec => []FreshRows
<1>1. TypeOK => ValueTypes
  BY BoundAssumption, StartsAssumption
  DEF TypeOK, StreamTypeOK, ServerTypeOK, CoordTypeOK, Rows, ValueTypes
<1>2. TypeOK /\ TimingInv => FreshRows
  BY <1>1, TimingGivesFresh
<1>3. QED
  BY <1>2, TypeCorrect, TimingCorrect, PTL

\* Of the ways the coordinator has to deactivate a row, only the end of a
\* stream reaches a server that runs and is connected.
THEOREM StreamEndOnly == Spec => OnlyStreamEndDeactivates
<1> DEFINE P == \A x \in Servers :
                  Settled(x, MaxDelay) /\ Active(x) /\ ~Active(x)'
                    => \E s \in Streams : pc[s] = "read" /\ pc'[s] = "ended"
<1>1. TypeOK /\ TypeOK' /\ TimingInv /\ [Next]_vars => P
  <2> SUFFICES ASSUME TypeOK, TypeOK', TimingInv, [Next]_vars, NEW x \in Servers,
                      Settled(x, MaxDelay), Active(x), ~Active(x)'
               PROVE  \E s \in Streams : pc[s] = "read" /\ pc'[s] = "ended"
    OBVIOUS
  <2>t. ValueTypes /\ ClockInv /\ MarkInv /\ StreamsInv
    BY ValueTypesHold DEF TimingInv
  <2>1. ASSUME NEW y \in Servers, ServerStep(y) PROVE FALSE
    BY <2>1, <2>t, ServerEffects DEF Active
  <2>2. ASSUME NEW s \in Streams, CoordStep(s)
        PROVE  pc[s] = "read" /\ pc'[s] = "ended"
    <3> USE DEF TypeOK, CoordTypeOK, Rows, Goto, streamVars
    <3>1. ASSUME NEW t \in ServerTypes, x = Peer(s, t),
                 pc[s] = (IF t = "MASTER" THEN "markMaster" ELSE "markSlave")
          PROVE  FALSE
      <4>1. hb_timestamp[s] <= since[x] + Slack + MaxDelay
        BY <2>t, <3>1 DEF MarkInv, Settled
      <4>2. now <= hb_timestamp[s] + MaxDelay
        BY <2>t, <3>1 DEF ClockInv, Busy
      <4>3. QED
        BY <2>t, <4>1, <4>2, SlackAssumption DEF Settled, ValueTypes
    <3>2. CASE MarkMaster(s) \/ MarkSlave(s)
      BY <3>1, <3>2, PeerFacts DEF MarkMaster, MarkSlave, MarkRow, Active, ServerTypes
    <3>3. CASE ReadHeartbeat(s) \/ AssignRow(s)
      BY <3>3, StreamFacts DEF ReadHeartbeat, AssignRow, Active
    <3>4. CASE CheckMaster(s) \/ CheckSlave(s)
      BY <3>4 DEF CheckMaster, CheckSlave, CheckRow, Active
    <3>5. CASE EndOfStream(s)
      BY <3>5 DEF EndOfStream
    <3>6. QED
      BY <2>2, <3>2, <3>3, <3>4, <3>5 DEF CoordStep, HandleHeartBeats
  <2>3. CASE Tick \/ UNCHANGED vars
    BY <2>3 DEF Tick, vars, coordVars, Active
  <2>4. QED
    BY <2>1, <2>2, <2>3 DEF Next, OutOfTime
<1>2. [][P]_vars => OnlyStreamEndDeactivates
  BY DEF OnlyStreamEndDeactivates
<1> HIDE DEF P
<1>3. QED
  BY <1>1, <1>2, TypeCorrect, TimingCorrect, PTL DEF Spec

-----------------------------------------------------------------------------
(***************************************************************************)
(* The routing: no row stays ACTIVE for long after its server has fallen   *)
(* silent, and no connected server stays out of the routing without the    *)
(* end of a stream to blame.                                               *)
(***************************************************************************)

\* A row that is ACTIVE after a thread's step was so before, with the same
\* heartbeat, unless the step stored one.
LEMMA ActiveBefore ==
    ASSUME TypeOK, NEW r \in Streams, CoordStep(r), NEW x \in Servers, Active(x)'
    PROVE  \/ Active(x) /\ table'[x].last_hb = table[x].last_hb
           \/ AssignRow(r) /\ x = Sender(r) /\ table'[x].last_hb = hb_timestamp[r]
<1> USE DEF TypeOK, CoordTypeOK, Rows, CoordStep, streamVars, Active
<1>a. Sender(r) \in Servers /\ \A t \in ServerTypes : Peer(r, t) \in Servers
  BY StreamFacts, PeerFacts
<1>1. CASE ReadHeartbeat(r)
  BY <1>1, <1>a DEF ReadHeartbeat, DefaultRow, NoRow
<1>2. CASE AssignRow(r)
  BY <1>2, <1>a DEF AssignRow
<1>3. CASE CheckMaster(r) \/ CheckSlave(r)
  BY <1>3 DEF CheckMaster, CheckSlave, CheckRow
<1>4. CASE MarkMaster(r) \/ MarkSlave(r)
  BY <1>4, <1>a DEF MarkMaster, MarkSlave, MarkRow, ServerTypes
<1>5. CASE EndOfStream(r)
  <2>1. \A y \in Servers : Deactivate(y) =>
          Active(x) /\ table'[x].last_hb = table[x].last_hb
    BY DEF Deactivate
  <2>2. (\E y \in Servers : Deactivate(y)) \/ UNCHANGED table
    BY <1>5, <1>a DEF EndOfStream
  <2>3. QED
    BY <2>1, <2>2
<1>6. QED
  BY <1>1, <1>2, <1>3, <1>4, <1>5 DEF HandleHeartBeats

\* A row that a thread's step deactivates is one it has decided against or, at the
\* end of its stream, its own or any.
LEMMA Deactivation ==
    ASSUME TypeOK, NEW r \in Streams, CoordStep(r), NEW x \in Servers,
           Active(x), ~Active(x)'
    PROVE  \/ \E t \in ServerTypes :
                /\ x = Peer(r, t)
                /\ pc[r] = (IF t = "MASTER" THEN "markMaster" ELSE "markSlave")
           \/ pc'[r] = "ended" /\ (Sender(r) = x \/ hb_timestamp'[r] = Epoch)
<1> USE DEF TypeOK, CoordTypeOK, Rows, CoordStep, streamVars, Active, Goto
<1>a. Sender(r) \in Servers /\ \A t \in ServerTypes : Peer(r, t) \in Servers
  BY StreamFacts, PeerFacts
<1>1. CASE ReadHeartbeat(r)
  BY <1>1, <1>a DEF ReadHeartbeat
<1>2. CASE AssignRow(r)
  BY <1>2, <1>a DEF AssignRow
<1>3. CASE CheckMaster(r) \/ CheckSlave(r)
  BY <1>3 DEF CheckMaster, CheckSlave, CheckRow
<1>4. CASE MarkMaster(r) \/ MarkSlave(r)
  BY <1>4, <1>a DEF MarkMaster, MarkSlave, MarkRow, ServerTypes
<1>5. CASE EndOfStream(r)
  BY <1>5, <1>a DEF EndOfStream, Deactivate
<1>6. QED
  BY <1>1, <1>2, <1>3, <1>4, <1>5 DEF HandleHeartBeats

\* What a heartbeat that is read may be late by: the chain.
LEMMA ReadInTime ==
    ASSUME TypeOK, TimingInv, NEW s \in Streams, Sending(s), ReadHeartbeat(s)
    PROVE  /\ hb_timestamp'[s] \in Nat
           /\ \/ hb_timestamp[s] # Epoch /\ hb_timestamp'[s] <= hb_timestamp[s] + Gap
              \/ hb_timestamp'[s] <= since[Sender(s)] + Slack
<1> USE DEF TypeOK, StreamTypeOK, CoordTypeOK, Sending
<1>1. wire[s] \in Seq(Nat) /\ wire[s] # <<>> /\ hb_timestamp'[s] = wire[s][1]
  BY TailFacts DEF ReadHeartbeat
<1>2. wire[s][1] \in Nat
  <2>1. 1 \in 1..Len(wire[s])
    BY <1>1, TailFacts
  <2>2. QED
    BY <1>1, <2>1
<1>3. InTime(Sender(s), hb_timestamp[s], wire[s][1])
  BY <1>1, StreamFacts DEF TimingInv, ChainInv, Chain
<1>4. QED
  BY <1>1, <1>2, <1>3 DEF InTime

\* A server's step leaves a stream that is sending afterwards as it was.
LEMMA SendingBefore ==
    ASSUME TypeOK, TypeOK', TimingInv, NEW y \in Servers, ServerStep(y),
           NEW s \in Streams, Sending(s)', hb_timestamp[s] # Epoch
    PROVE  Sending(s) /\ since'[Sender(s)] >= since[Sender(s)]
<1>t. ValueTypes /\ ValueTypes'
  BY ValueTypesHold
<1>i. StreamsInv /\ ClockInv
  BY DEF TimingInv
<1>s. Sender(s) \in Servers /\ s[1] = Sender(s) /\ s[2] \in 1..MaxStarts
  BY StreamFacts
<1>1. s[2] <= starts[Sender(s)]
  BY <1>i, <1>s, <1>t, StartsAssumption DEF StreamsInv, ValueTypes
<1>2. s[2] = starts'[Sender(s)]
  BY <1>s DEF Sending, Current
<1>3. CASE y # Sender(s)
  <2>1. /\ process'[Sender(s)] = process[Sender(s)] /\ starts'[Sender(s)] = starts[Sender(s)]
        /\ since'[Sender(s)] = since[Sender(s)] /\ link'[s] = link[s]
    BY <1>3, <1>i, <1>s, ServerEffects
  <2>2. QED
    BY <1>t, <1>s, <2>1 DEF Sending, Current, ValueTypes
<1>4. CASE y = Sender(s)
  <2>1. starts'[y] # starts[y] + 1
    BY <1>1, <1>2, <1>4, <1>t, <1>s, StartsAssumption DEF ValueTypes
  <2>2. starts'[y] = starts[y] /\ process[y] # "down"
    BY <2>1, <1>i, ServerEffects
  <2>3. s = Current(y) /\ s = Current(y)'
    BY <2>2, <1>4 DEF Sending, Current
  <2>4. link[s] = "open"
    BY <2>1, <2>2, <2>3, <1>i, <1>4, ServerEffects DEF Sending
  <2>5. since'[y] >= since[y]
    BY <1>i, <1>t, ServerEffects DEF ClockInv, ValueTypes
  <2>6. QED
    BY <1>4, <2>2, <2>3, <2>4, <2>5 DEF Sending
<1>5. QED
  BY <1>3, <1>4

-----------------------------------------------------------------------------
\* No row outlives a look at it by more than Timeout and one heartbeat.
LEMMA RecentStep ==
    ASSUME TypeOK, TypeOK', TimingInv, RecentInv, [Next]_vars
    PROVE  RecentInv'
<1> USE SlackAssumption, PeriodAssumption, TimeoutAssumption DEF Gap
<1>t. ValueTypes /\ ValueTypes'
  BY ValueTypesHold
<1>i. ClockInv
  BY DEF TimingInv
<1> SUFFICES ASSUME NEW s \in Streams, NEW t \in ServerTypes, NEW x, x = Peer(s, t),
                    Sending(s)', hb_timestamp'[s] # Epoch, Active(x)'
             PROVE  \/ hb_timestamp'[s] <= table'[x].last_hb + Timeout
                    \/ /\ ~Looked(s, t)'
                       /\ \/ hb_timestamp'[s] <= table'[x].last_hb + Timeout + Gap
                          \/ hb_timestamp'[s] <= since'[Sender(s)] + Slack
  BY DEF RecentInv, Peer, Sender
<1>s. x \in Servers /\ Sender(s) \in Servers
  BY PeerFacts, StreamFacts
<1>n. /\ hb_timestamp[s] \in Nat /\ table[x].last_hb \in Nat /\ table'[x].last_hb \in Nat
      /\ since[Sender(s)] \in Nat /\ since'[Sender(s)] \in Nat /\ now \in Nat
  BY <1>t, <1>s DEF ValueTypes
<1> DEFINE Before == \/ hb_timestamp[s] <= table[x].last_hb + Timeout
                     \/ /\ ~Looked(s, t)
                        /\ \/ hb_timestamp[s] <= table[x].last_hb + Timeout + Gap
                           \/ hb_timestamp[s] <= since[Sender(s)] + Slack
<1>b. Sending(s) /\ hb_timestamp[s] # Epoch /\ Active(x) => Before
  BY DEF RecentInv
<1>1. ASSUME NEW y \in Servers, ServerStep(y)
      PROVE  \/ hb_timestamp'[s] <= table'[x].last_hb + Timeout
             \/ /\ ~Looked(s, t)'
                /\ \/ hb_timestamp'[s] <= table'[x].last_hb + Timeout + Gap
                   \/ hb_timestamp'[s] <= since'[Sender(s)] + Slack
  <2>1. pc' = pc /\ table' = table /\ hb_timestamp' = hb_timestamp
    BY <1>1 DEF ServerStep, coordVars
  <2>2. Sending(s) /\ since'[Sender(s)] >= since[Sender(s)]
    BY <1>1, <2>1, SendingBefore
  <2>3. QED
    BY <1>b, <1>n, <2>1, <2>2 DEF Active, Looked
<1>2. ASSUME NEW r \in Streams, CoordStep(r)
      PROVE  \/ hb_timestamp'[s] <= table'[x].last_hb + Timeout
             \/ /\ ~Looked(s, t)'
                /\ \/ hb_timestamp'[s] <= table'[x].last_hb + Timeout + Gap
                   \/ hb_timestamp'[s] <= since'[Sender(s)] + Slack
  <2>1. UNCHANGED <<now, link, process, starts, since>> /\ Sending(s)
    BY <1>2, CoordEffects DEF Sending, Current
  <2>2. CASE AssignRow(r) /\ x = Sender(r)
    <3>1. table'[x].last_hb = hb_timestamp[r] /\ hb_timestamp' = hb_timestamp
      BY <1>s, <2>2 DEF AssignRow, TypeOK, CoordTypeOK
    <3>2. now <= hb_timestamp[r] + MaxDelay /\ hb_timestamp[s] <= now
      BY <1>i, <2>2 DEF ClockInv, Busy, AssignRow
    <3>3. QED
      BY <1>n, <3>1, <3>2, DelayAssumption
  <2>3. CASE ~(AssignRow(r) /\ x = Sender(r))
    <3>1. Active(x) /\ table'[x].last_hb = table[x].last_hb
      BY <1>2, <1>s, <2>3, ActiveBefore
    <3>2. CASE s # r
      <4>1. pc'[s] = pc[s] /\ hb_timestamp'[s] = hb_timestamp[s]
        BY <1>2, <3>2, CoordEffects
      <4>2. QED
        BY <1>b, <2>1, <3>1, <4>1 DEF Looked
    <3>3. CASE s = r /\ ReadHeartbeat(s)
      <4>1. pc[s] = "read" /\ pc'[s] = "assign"
        BY <3>3 DEF ReadHeartbeat, Goto, TypeOK, CoordTypeOK
      <4>2. hb_timestamp[s] # Epoch => hb_timestamp[s] <= table[x].last_hb + Timeout
        BY <1>b, <2>1, <3>1, <4>1 DEF Looked
      <4>3. /\ hb_timestamp'[s] \in Nat
            /\ \/ hb_timestamp[s] # Epoch /\ hb_timestamp'[s] <= hb_timestamp[s] + Gap
               \/ hb_timestamp'[s] <= since[Sender(s)] + Slack
        BY <2>1, <3>3, ReadInTime
      <4>4. QED
        BY <1>n, <2>1, <3>1, <4>1, <4>2, <4>3 DEF Looked
    <3>4. CASE s = r /\ AssignRow(s)
      <4>1. pc[s] = "assign" /\ pc'[s] = "checkMaster" /\ hb_timestamp' = hb_timestamp
        BY <3>4 DEF AssignRow, Goto, TypeOK, CoordTypeOK
      <4>2. QED
        BY <1>b, <2>1, <3>1, <4>1 DEF Looked
    <3>5. CASE s = r /\ (CheckMaster(s) \/ CheckSlave(s))
      <4>1. hb_timestamp' = hb_timestamp /\ table' = table
        BY <3>5 DEF CheckMaster, CheckSlave, CheckRow
      <4>2. CASE ~Looked(s, t)'
        BY <1>b, <2>1, <3>1, <4>1, <4>2
      <4>3. CASE Looked(s, t) /\ Looked(s, t)'
        BY <1>b, <2>1, <3>1, <4>1, <4>3
      <4>4. CASE ~Looked(s, t) /\ Looked(s, t)'
        <5>1. ~Expired(table[x], hb_timestamp[s])
          BY <3>5, <4>4 DEF CheckMaster, CheckSlave, CheckRow, Goto, Looked, ServerTypes,
             TypeOK, CoordTypeOK
        <5>2. QED
          BY <1>n, <3>1, <4>1, <5>1 DEF Expired, Active
      <4>5. QED
        BY <4>2, <4>3, <4>4
    <3>6. CASE s = r /\ (MarkMaster(s) \/ MarkSlave(s))
      <4>1. hb_timestamp' = hb_timestamp
        BY <3>6 DEF MarkMaster, MarkSlave, MarkRow
      <4>2. pc[s] # (IF t = "MASTER" THEN "markMaster" ELSE "markSlave")
        <5>1. CASE t = "MASTER"
          BY <3>6, <1>s, <5>1 DEF MarkMaster, MarkSlave, MarkRow, Active, TypeOK,
             CoordTypeOK, Rows
        <5>2. CASE t = "SLAVE"
          BY <3>6, <1>s, <5>2 DEF MarkMaster, MarkSlave, MarkRow, Active, TypeOK,
             CoordTypeOK, Rows
        <5>3. QED
          BY <5>1, <5>2 DEF ServerTypes
      <4>3. Looked(s, t)' => Looked(s, t)
        BY <3>6, <4>2 DEF MarkMaster, MarkSlave, MarkRow, Goto, Looked, ServerTypes,
           TypeOK, CoordTypeOK
      <4>4. QED
        BY <1>b, <2>1, <3>1, <4>1, <4>3
    <3>7. CASE s = r /\ EndOfStream(s)
      BY <2>1, <3>7 DEF EndOfStream, Sending
    <3>8. QED
      BY <1>2, <3>2, <3>3, <3>4, <3>5, <3>6, <3>7 DEF CoordStep, HandleHeartBeats
  <2>4. QED
    BY <2>2, <2>3
<1>3. CASE Tick \/ UNCHANGED vars
  <2>1. UNCHANGED <<link, process, starts, since, table, pc, hb_timestamp>>
    BY <1>3 DEF Tick, vars, streamVars, serverVars, coordVars
  <2>2. QED
    BY <1>b, <2>1 DEF Sending, Current, Active, Looked
<1>4. QED
  BY <1>1, <1>2, <1>3 DEF Next, OutOfTime

\* A settled server's partner is not ACTIVE on an old heartbeat.
LEMMA RecentGivesBound ==
    ASSUME TypeOK, TimingInv, RecentInv
    PROVE  ActiveRowsAreRecent
<1> USE SlackAssumption, PeriodAssumption, TimeoutAssumption DEF Gap
<1> SUFFICES ASSUME NEW x \in Servers, NEW p, p = Partner(x), Settled(p, 0), Active(x)
             PROVE  now - table[x].last_hb <= Timeout + Gap + MaxDelay
  BY DEF ActiveRowsAreRecent
<1> DEFINE s == Current(p)
           hb == hb_timestamp[s]
           last == table[x].last_hb
<1>t. ValueTypes
  BY SMTT(30), BoundAssumption, StartsAssumption
  DEF TypeOK, StreamTypeOK, ServerTypeOK, CoordTypeOK, Rows, ValueTypes
<1>p. p \in Servers /\ x[2] \in ServerTypes /\ <<p[1], x[2]>> = x
  BY DEF Partner, Servers, ServerTypes
<1>0. /\ s \in Streams /\ Sender(s) = p
      /\ hb # Epoch /\ now <= hb + Gap + MaxDelay
  BY <1>t, <1>p, SettledIsHeard
<1>1. Peer(s, x[2]) = x /\ Sending(s)
  BY <1>p, <1>0 DEF Peer, Sending, Settled, Connected
<1>n. now \in Nat /\ hb \in Nat /\ last \in Nat /\ since[p] \in Nat
  BY <1>t, <1>p, <1>0 DEF ValueTypes
<1> HIDE DEF s
<1>2. \/ hb <= last + Timeout
      \/ ~Looked(s, x[2]) /\ (hb <= last + Timeout + Gap \/ hb <= since[p] + Slack)
  BY <1>p, <1>0, <1>1 DEF RecentInv
<1>3. CASE hb <= last + Timeout
  BY <1>n, <1>0, <1>3
<1>4. CASE ~Looked(s, x[2]) /\ (hb <= last + Timeout + Gap \/ hb <= since[p] + Slack)
  <2>1. now <= hb + MaxDelay
    BY <1>0, <1>4 DEF TimingInv, ClockInv, Busy, Looked
  <2>2. now > since[p] + Slack + MaxDelay
    BY <1>n DEF Settled
  <2>3. QED
    BY <1>n, <1>4, <2>1, <2>2
<1>5. QED
  BY <1>2, <1>3, <1>4

-----------------------------------------------------------------------------
\* An excuse stays one.
LEMMA ExcuseStays ==
    ASSUME TypeOK, NEW x, Excused(x), NEW r \in Streams, CoordStep(r)
    PROVE  Excused(x)'
<1>1. PICK s \in Streams : pc[s] = "ended" /\ (Sender(s) = x \/ hb_timestamp[s] = Epoch)
  BY DEF Excused
<1>2. s # r
  BY <1>1, ThreadEffects
<1>3. pc'[s] = "ended" /\ hb_timestamp'[s] = hb_timestamp[s]
  BY <1>1, <1>2, CoordEffects
<1>4. QED
  BY <1>1, <1>3 DEF Excused

\* A connected server that no stream's end excuses is out of the routing only until
\* its next heartbeat is handled, once the old decisions have been carried out.
LEMMA TrustStep ==
    ASSUME TypeOK, TypeOK', TimingInv, TrustInv, [Next]_vars
    PROVE  TrustInv'
<1> USE SlackAssumption, PeriodAssumption DEF Gap
<1>t. ValueTypes /\ ValueTypes'
  BY ValueTypesHold
<1>i. ClockInv /\ StreamsInv /\ MarkInv
  BY DEF TimingInv
<1> DEFINE Extra(s) == IF pc[s] = "assign" THEN Gap ELSE 0
<1> SUFFICES ASSUME NEW x \in Servers, NEW s, s = Current(x)', Connected(x)',
                    ~Active(x)', ~Excused(x)', hb_timestamp'[s] # Epoch
             PROVE  hb_timestamp'[s] <= since'[x] + Slack + 2 * MaxDelay + Extra(s)'
  BY DEF TrustInv
<1>b. Connected(x) /\ s = Current(x) /\ ~Active(x) /\ ~Excused(x)
        /\ hb_timestamp[s] # Epoch
        => hb_timestamp[s] <= since[x] + Slack + 2 * MaxDelay + Extra(s)
  BY DEF TrustInv
<1>1. ASSUME NEW y \in Servers, ServerStep(y)
      PROVE  hb_timestamp'[s] <= since'[x] + Slack + 2 * MaxDelay + Extra(s)'
  <2>1. pc' = pc /\ table' = table /\ hb_timestamp' = hb_timestamp /\ now' = now
    BY <1>1, <1>i, ServerEffects
  <2>s. s \in Streams /\ Sender(s) = x
    <3>1. starts'[x] \in 0..MaxStarts /\ s = <<x, starts'[x]>>
      BY DEF TypeOK, ServerTypeOK, Current
    <3>2. process'[x] # "down" => starts'[x] >= 1
      BY <1>1, <1>i, <1>t, ServerEffects DEF StreamsInv, ValueTypes
    <3>3. QED
      BY <3>1, <3>2, CurrentFacts, StartsAssumption DEF Connected
  <2>n. hb_timestamp[s] \in Nat /\ since[x] \in Nat /\ hb_timestamp[s] <= now /\ now \in Nat
    BY <1>t, <1>i, <2>s DEF ValueTypes, ClockInv
  <2>2. CASE since'[x] = now
    BY <2>1, <2>n, <2>2
  <2>3. CASE since'[x] # now
    <3>1. Sending(s)'
      BY <2>s DEF Sending, Connected
    <3>2. Sending(s)
      BY <1>1, <2>1, <2>s, <3>1, SendingBefore
    <3>3. process[x] = "up"
      <4>1. CASE x # y
        BY <1>1, <1>i, <4>1, ServerEffects DEF Connected
      <4>2. CASE x = y /\ ResumeServer(x)
        BY <2>3, <4>2 DEF ResumeServer, TypeOK, ServerTypeOK
      <4>3. CASE x = y /\ ~ResumeServer(x)
        BY <1>1, <2>s, <3>2, <4>3
        DEF ServerStep, Connected, Sending, StartServer, SendHeartbeat, CrashServer,
            HangServer, ResetConnection, TypeOK, ServerTypeOK
      <4>4. QED
        BY <4>1, <4>2, <4>3
    <3>4. Connected(x) /\ s = Current(x)
      BY <2>s, <3>2, <3>3 DEF Sending, Connected
    <3>5. since'[x] >= since[x]
      BY <1>1, <2>1, <2>s, <3>1, SendingBefore
    <3>6. since'[x] \in Nat
      BY <1>t DEF ValueTypes
    <3>7. QED
      BY <1>b, <2>1, <2>n, <3>4, <3>5, <3>6 DEF Active, Excused
  <2>4. QED
    BY <2>2, <2>3
<1>2. ASSUME NEW r \in Streams, CoordStep(r)
      PROVE  hb_timestamp'[s] <= since'[x] + Slack + 2 * MaxDelay + Extra(s)'
  <2>1. UNCHANGED <<now, link, process, starts, since>>
    BY <1>2, CoordEffects
  <2>2. Connected(x) /\ s = Current(x) /\ ~Excused(x)
    BY <1>2, <2>1, ExcuseStays DEF Connected, Current
  <2>s. s \in Streams /\ Sender(s) = x
    BY <1>i, <2>2, CurrentStream DEF Connected
  <2>n. /\ hb_timestamp[s] \in Nat /\ hb_timestamp'[s] \in Nat
        /\ since[x] \in Nat /\ now \in Nat
    BY <1>t, <2>s DEF ValueTypes
  <2>3. CASE Active(x)
    <3>1. PICK t \in ServerTypes :
            /\ x = Peer(r, t)
            /\ pc[r] = (IF t = "MASTER" THEN "markMaster" ELSE "markSlave")
      BY <1>2, <2>3, Deactivation DEF Excused
    <3>2. hb_timestamp[r] <= since[x] + Slack + MaxDelay
      BY <1>i, <2>2, <3>1 DEF MarkInv
    <3>3. now <= hb_timestamp[r] + MaxDelay
      BY <1>i, <3>1 DEF ClockInv, Busy
    <3>4. hb_timestamp'[s] = hb_timestamp[s] /\ hb_timestamp[s] <= now
      BY <1>2, <1>i, <2>s, <3>1, ThreadEffects, CoordEffects DEF ClockInv
    <3>5. hb_timestamp[r] \in Nat
      BY <1>t DEF ValueTypes
    <3>6. QED
      BY <2>1, <2>n, <3>2, <3>3, <3>4, <3>5
  <2>4. CASE ~Active(x) /\ s # r
    <3>1. pc'[s] = pc[s] /\ hb_timestamp'[s] = hb_timestamp[s]
      BY <1>2, <2>s, <2>4, CoordEffects
    <3>2. QED
      BY <1>b, <2>1, <2>2, <2>4, <3>1
  <2>5. CASE ~Active(x) /\ s = r /\ pc[s] = "read" /\ pc'[s] = "assign"
    <3>1. ReadHeartbeat(s)
      BY <1>2, <2>5 DEF CoordStep, HandleHeartBeats, AssignRow, CheckMaster, CheckSlave,
         CheckRow, MarkMaster, MarkSlave, MarkRow, EndOfStream, Goto, TypeOK, CoordTypeOK
    <3>2. \/ hb_timestamp[s] # Epoch /\ hb_timestamp'[s] <= hb_timestamp[s] + Gap
          \/ hb_timestamp'[s] <= since[x] + Slack
      BY <2>2, <2>s, <3>1, ReadInTime DEF Sending, Connected
    <3>3. QED
      BY <1>b, <2>1, <2>2, <2>5, <2>n, <3>2
  <2>6. CASE ~Active(x) /\ s = r /\ pc[s] = "assign"
    <3>1. AssignRow(s)
      BY <1>2, <2>6, ThreadEffects
    <3>2. Active(x)'
      BY <2>s, <3>1 DEF AssignRow, Active, TypeOK, CoordTypeOK
    <3>3. QED
      BY <3>2
  <2>7. CASE ~Active(x) /\ s = r /\ pc'[s] = "ended"
    BY <1>2, <2>s, <2>7 DEF Excused
  <2>8. CASE /\ ~Active(x) /\ s = r /\ hb_timestamp'[s] = hb_timestamp[s]
             /\ pc[s] # "assign" /\ pc'[s] # "assign"
    BY <1>b, <2>1, <2>2, <2>8
  <2>9. QED
    BY <1>2, <2>3, <2>4, <2>5, <2>6, <2>7, <2>8, ThreadEffects
<1>3. CASE Tick \/ UNCHANGED vars
  <2>1. UNCHANGED <<link, process, starts, since, table, pc, hb_timestamp>>
    BY <1>3 DEF Tick, vars, streamVars, serverVars, coordVars
  <2>2. QED
    BY <1>b, <2>1 DEF Connected, Current, Active, Excused
<1>4. QED
  BY <1>1, <1>2, <1>3 DEF Next, OutOfTime

\* One interval after it is settled, a server that is not excused is ACTIVE.
LEMMA TrustGivesRouting ==
    ASSUME TypeOK, TimingInv, TrustInv
    PROVE  NoSpuriousSuspicion
<1> USE SlackAssumption, PeriodAssumption DEF Gap
<1> SUFFICES ASSUME NEW x \in Servers, Settled(x, Gap + 2 * MaxDelay), ~Active(x),
                    ~Excused(x)
             PROVE  FALSE
  BY DEF NoSpuriousSuspicion, Excused
<1> DEFINE s == Current(x)
           hb == hb_timestamp[s]
<1>t. ValueTypes
  BY SMTT(30), BoundAssumption, StartsAssumption
  DEF TypeOK, StreamTypeOK, ServerTypeOK, CoordTypeOK, Rows, ValueTypes
<1>1. Connected(x) /\ now > since[x] + Slack + MaxDelay + Gap + 2 * MaxDelay
  BY <1>t DEF Settled, ValueTypes
<1>2. Settled(x, 0)
  BY SMTT(30), <1>t, <1>1 DEF Settled, ValueTypes
<1>3. /\ s \in Streams /\ Sender(s) = x
      /\ hb # Epoch /\ now <= hb + Gap + MaxDelay
  BY <1>t, <1>2, SettledIsHeard
<1>n. now \in Nat /\ hb \in Nat /\ since[x] \in Nat
  BY <1>t, <1>3 DEF ValueTypes
<1>4. hb <= since[x] + Slack + 2 * MaxDelay + (IF pc[s] = "assign" THEN Gap ELSE 0)
  BY <1>1, <1>3 DEF TrustInv
<1> HIDE DEF s
<1>5. CASE pc[s] = "assign"
  <2>1. now <= hb + MaxDelay
    BY <1>3, <1>5 DEF TimingInv, ClockInv, Busy
  <2>2. QED
    BY <1>n, <1>1, <1>4, <1>5, <2>1
<1>6. CASE pc[s] # "assign"
  BY <1>n, <1>1, <1>3, <1>4, <1>6
<1>7. QED
  BY <1>5, <1>6

-----------------------------------------------------------------------------
(***************************************************************************)
(* The whole inductive invariant of Failover holds in every state: its     *)
(* clock, its rows, the looks its threads have taken and the decisions     *)
(* they carry out (coord.cc:102-131).                                      *)
(***************************************************************************)
THEOREM FailureCorrect == Spec => []FailureInv
<1>1. Init => RecentInv /\ TrustInv
  BY StreamFacts DEF Init, ServerInit, RecentInv, TrustInv, Sending, Connected
<1>2. TypeOK /\ TypeOK' /\ TimingInv /\ RecentInv /\ TrustInv /\ [Next]_vars
        => RecentInv' /\ TrustInv'
  BY RecentStep, TrustStep
<1>3. FailureInv <=> TimingInv /\ RecentInv /\ TrustInv
  BY DEF FailureInv
<1>4. QED
  BY <1>1, <1>2, <1>3, TypeCorrect, TimingCorrect, PTL DEF Spec

(***************************************************************************)
(* Clients are sent to a silent server for at most Timeout + Gap +         *)
(* MaxDelay while its partner is there (coord.cc:118-130).                 *)
(***************************************************************************)
THEOREM SilentAreFound == Spec => []ActiveRowsAreRecent
<1>1. TypeOK /\ FailureInv => ActiveRowsAreRecent
  BY RecentGivesBound DEF FailureInv
<1>2. QED
  BY <1>1, TypeCorrect, FailureCorrect, PTL

(***************************************************************************)
(* A server that runs and is connected comes into the routing and stays,   *)
(* but for the end of a stream (coord.cc:138-146).                         *)
(***************************************************************************)
THEOREM NoneIsSuspected == Spec => []NoSpuriousSuspicion
<1>1. TypeOK /\ FailureInv => NoSpuriousSuspicion
  BY TrustGivesRouting DEF FailureInv
<1>2. QED
  BY <1>1, TypeCorrect, FailureCorrect, PTL

=============================================================================
