--------------------------- MODULE DetectorProofs ---------------------------
(***************************************************************************)
(* Proof that Failover implements FailureDetector: each step of a server,  *)
(* of a thread of the coordinator or of the clock is one step of the       *)
(* untimed detector or none.                                               *)
(***************************************************************************)
EXTENDS DetectorRefinement, FailoverProofs

\* The detector's view of the state, by name.
Routable == {x \in Servers : Active(x)}
SettledSet == {x \in Servers : Settled(x, MaxDelay)}
Heard == {s \in Streams : hb_timestamp[s] # Epoch}
Ended == {s \in Streams : pc[s] = "ended"}

\* The two specifications speak of the same servers and streams.
LEMMA SameNames ==
    /\ Detector!Servers = Servers
    /\ Detector!Streams = Streams
    /\ \A s : Detector!Sender(s) = Sender(s)
    /\ \A x : Detector!Current(x) = Current(x)
    /\ \A x : Detector!Connected(x) <=> Connected(x)
BY DEF Detector!Servers, Detector!Streams, Detector!Sender, Detector!Current,
   Detector!Connected, Detector!Clusters, Detector!ServerTypes, Servers, Streams,
   Sender, Current, Connected, Clusters, ServerTypes

\* Failover starts where the detector starts.
LEMMA DetectorInit == Init => Detector!Init
<1> SUFFICES ASSUME Init PROVE Detector!Init
  OBVIOUS
<1> USE DEF Init, StreamInit, ServerInit, CoordInit
<1>1. Routable = {} /\ SettledSet = {}
  BY DEF Routable, SettledSet, Active, NoRow, Settled, Connected
<1>2. UnderWay = {} /\ Heard = {} /\ Ended = {}
  BY StreamFacts DEF UnderWay, Heard, Ended
<1>3. QED
  BY <1>1, <1>2, SameNames DEF Detector!Init, Routable, SettledSet, Heard, Ended

-----------------------------------------------------------------------------
\* A server step leaves the rows and the threads alone.
LEMMA RowsUntouched ==
    ASSUME NEW x \in Servers, ServerStep(x)
    PROVE  Routable' = Routable /\ Heard' = Heard /\ Ended' = Ended
BY DEF ServerStep, coordVars, Routable, Active, Heard, Ended

\* It disturbs only its own server's being settled, and a server that was started
\* or resumed is not settled yet.
LEMMA SettledAfter ==
    ASSUME TypeOK, TypeOK', StreamsInv, NEW x \in Servers, ServerStep(x)
    PROVE  /\ ~(CrashServer(x) \/ HangServer(x) \/ ResetConnection(x)) =>
                SettledSet' = SettledSet
           /\ CrashServer(x) \/ HangServer(x) \/ ResetConnection(x) =>
                SettledSet' = SettledSet \ {x}
<1> USE SlackAssumption
<1>t. ValueTypes /\ ValueTypes'
  BY ValueTypesHold
<1>1. ASSUME NEW y \in Servers, y # x
      PROVE  Settled(y, MaxDelay)' <=> Settled(y, MaxDelay)
  <2>1. /\ process'[y] = process[y] /\ starts'[y] = starts[y]
        /\ since'[y] = since[y] /\ now' = now
    BY <1>1, ServerEffects
  <2>2. Current(y)' = Current(y)
    BY <2>1 DEF Current
  <2>3. ASSUME process[y] = "up" PROVE link'[Current(y)] = link[Current(y)]
    BY <1>1, <2>3, CurrentStream, ServerEffects
  <2>4. QED
    BY <2>1, <2>2, <2>3 DEF Settled, Connected
<1>2. ASSUME StartServer(x) \/ ResumeServer(x)
      PROVE  ~Settled(x, MaxDelay) /\ ~Settled(x, MaxDelay)'
  <2>1. process[x] # "up" /\ since'[x] = now /\ now' = now
    BY <1>2 DEF StartServer, ResumeServer, TypeOK, ServerTypeOK
  <2>2. QED
    BY <1>t, <2>1 DEF Settled, Connected, ValueTypes
<1>3. ASSUME SendHeartbeat(x) PROVE Settled(x, MaxDelay)' <=> Settled(x, MaxDelay)
  BY <1>3 DEF SendHeartbeat, Settled, Connected, Current
<1>4. ASSUME CrashServer(x) \/ HangServer(x) \/ ResetConnection(x)
      PROVE  ~Settled(x, MaxDelay)'
  <2>1. Current(x) \in Streams /\ starts' = starts
    BY <1>4, CurrentStream DEF CrashServer, HangServer, ResetConnection
  <2>2. QED
    BY <1>4, <2>1 DEF CrashServer, HangServer, ResetConnection, Settled, Connected,
       Current, TypeOK, ServerTypeOK, StreamTypeOK
<1>5. ~(CrashServer(x) \/ HangServer(x) \/ ResetConnection(x)) =>
        \A y \in Servers : Settled(y, MaxDelay)' <=> Settled(y, MaxDelay)
  BY <1>1, <1>2, <1>3 DEF ServerStep
<1>6. QED
  BY <1>1, <1>4, <1>5 DEF SettledSet

\* A heartbeat of x goes on the wire of its stream.
LEMMA BeatIsUnderWay ==
    ASSUME TypeOK, StreamsInv, NEW x \in Servers, SendHeartbeat(x), UNCHANGED coordVars
    PROVE  UnderWay' = IF link[Current(x)] = "open" THEN UnderWay \cup {x} ELSE UnderWay
<1> USE DEF SendHeartbeat, TypeOK, StreamTypeOK, coordVars
<1>0. Current(x) \in Streams /\ Sender(Current(x)) = x
  BY CurrentStream
<1>1. CASE link[Current(x)] = "open"
  <2>1. Append(wire[Current(x)], now) # <<>>
    BY <1>0, AppendFacts
  <2>2. /\ wire'[Current(x)] # <<>>
        /\ \A s \in Streams : s # Current(x) => wire'[s] = wire[s]
    BY <1>0, <1>1, <2>1
  <2>3. QED
    BY <1>0, <1>1, <2>2 DEF UnderWay
<1>2. CASE link[Current(x)] # "open"
  BY <1>2 DEF UnderWay
<1>3. QED
  BY <1>1, <1>2

\* Every step of a server is one of the detector's environment, a heartbeat, or,
\* of a sender whose stream is broken, none.
LEMMA ServerImplements ==
    ASSUME TypeOK, TypeOK', StreamsInv, NEW x \in Servers, ServerStep(x)
    PROVE  [Detector!Next]_(Detector!detectorVars)
<1> USE SameNames
<1>u. Routable' = Routable /\ Heard' = Heard /\ Ended' = Ended
  BY RowsUntouched
<1>p. pc' = pc /\ UNCHANGED coordVars
  BY DEF ServerStep, coordVars
<1>n. StartServer(x) \/ SendHeartbeat(x) \/ ResumeServer(x) =>
        ~(CrashServer(x) \/ HangServer(x) \/ ResetConnection(x))
  BY FaultAssumption DEF StartServer, SendHeartbeat, ResumeServer, CrashServer,
     HangServer, ResetConnection, Fault, TypeOK, ServerTypeOK
<1>1. CASE StartServer(x)
  <2>1. SettledSet' = SettledSet
    BY <1>1, <1>n, SettledAfter
  <2>2. UnderWay' = UnderWay
    BY <1>1, <1>p DEF UnderWay, StartServer
  <2>3. Detector!Start(x)
    BY <1>1, <1>u, <2>1, <2>2 DEF Detector!Start, StartServer, Routable, SettledSet, Heard, Ended
  <2>4. QED
    BY <2>3 DEF Detector!Next, Detector!Environment
<1>2. CASE SendHeartbeat(x)
  <2>1. SettledSet' = SettledSet
    BY <1>2, <1>n, SettledAfter
  <2>2. CASE link[Current(x)] = "open"
    <3>1. Detector!Beat(x)
      BY <1>2, <1>u, <1>p, <2>1, <2>2, BeatIsUnderWay
      DEF Detector!Beat, SendHeartbeat, Connected, Routable, SettledSet, Heard, Ended
    <3>2. QED
      BY <3>1 DEF Detector!Next
  <2>3. CASE link[Current(x)] # "open"
    BY <1>2, <1>u, <1>p, <2>1, <2>3, BeatIsUnderWay
    DEF Detector!detectorVars, SendHeartbeat, Routable, SettledSet, Heard, Ended
  <2>4. QED
    BY <2>2, <2>3
<1>3. CASE CrashServer(x) \/ HangServer(x) \/ ResetConnection(x)
  <2>1. SettledSet' = SettledSet \ {x} /\ UnderWay' = UnderWay
    BY <1>3, <1>p, SettledAfter
    DEF UnderWay, CrashServer, HangServer, ResetConnection, streamVars
  <2>2. Detector!Fail(x)
    BY <1>3, <1>u, <2>1
    DEF Detector!Fail, CrashServer, HangServer, ResetConnection, Fault, streamVars,
        Routable, SettledSet, Heard, Ended
  <2>3. QED
    BY <2>2 DEF Detector!Next, Detector!Environment
<1>4. CASE ResumeServer(x)
  <2>1. SettledSet' = SettledSet
    BY <1>4, <1>n, SettledAfter
  <2>2. UnderWay' = UnderWay
    BY <1>4, <1>p DEF UnderWay, ResumeServer, streamVars
  <2>3. Detector!Resume(x)
    BY <1>4, <1>u, <2>1, <2>2
    DEF Detector!Resume, ResumeServer, streamVars, Routable, SettledSet, Heard, Ended
  <2>4. QED
    BY <2>3 DEF Detector!Next, Detector!Environment
<1>5. QED
  BY <1>1, <1>2, <1>3, <1>4 DEF ServerStep

-----------------------------------------------------------------------------
\* A thread's step settles nobody and touches nobody's process or connection.
LEMMA ServersUntouched ==
    ASSUME TypeOK, NEW s \in Streams, CoordStep(s)
    PROVE  /\ SettledSet' = SettledSet
           /\ UNCHANGED <<process, starts, link, faults>>
<1>1. UNCHANGED <<now, link, process, starts, since, faults>>
  BY CoordEffects
<1>2. \A x \in Servers : Settled(x, MaxDelay)' <=> Settled(x, MaxDelay)
  BY <1>1 DEF Settled, Connected, Current
<1>3. QED
  BY <1>1, <1>2 DEF SettledSet

\* A thread that takes nothing off its stream and was not about to store what it
\* has read leaves the same servers with a heartbeat under way.
LEMMA SameUnderWay ==
    ASSUME TypeOK, NEW s \in Streams, wire' = wire,
           pc[s] # "assign", pc'[s] # "assign",
           \A r \in Streams : r # s => pc'[r] = pc[r]
    PROVE  UnderWay' = UnderWay
BY DEF UnderWay

\* A set that may have lost one member.
LEMMA LostOne ==
    ASSUME NEW A, NEW B, NEW e, B \subseteq A, A \ {e} \subseteq B
    PROVE  B = A \/ B = A \ {e}
<1>1. CASE e \in B
  BY <1>1
<1>2. CASE e \notin B
  BY <1>2
<1>3. QED
  BY <1>1, <1>2

\* What a thread has read stays under way until it stores it.
LEMMA ReadImplements ==
    ASSUME TypeOK, TypeOK', TimingInv, NEW s \in Streams, CoordStep(s), ReadHeartbeat(s)
    PROVE  Detector!Hear(s)
<1> USE DEF ReadHeartbeat, Goto, TypeOK, StreamTypeOK, CoordTypeOK
<1>a. Sender(s) \in Servers
  BY StreamFacts
<1>1. Head(wire[s]) # Epoch
  <2>1. wire[s] \in Seq(Nat) /\ Head(wire[s]) = wire[s][1] /\ 1 \in 1..Len(wire[s])
    BY TailFacts
  <2>2. StartTime <= wire[s][1] /\ wire[s][1] \in Nat
    BY <2>1 DEF TimingInv, ClockInv
  <2>3. QED
    BY <2>1, <2>2, BoundAssumption DEF Epoch
<1>2. Heard' = Heard \cup {s}
  BY <1>1 DEF Heard
<1>3. Routable' = Routable
  BY <1>a DEF Routable, Active, DefaultRow, NoRow, Rows
<1>4. Ended' = Ended /\ s \notin Ended
  BY DEF Ended
<1>5. UnderWay' = UnderWay /\ Sender(s) \in UnderWay
  BY <1>a DEF UnderWay
<1>6. QED
  BY <1>2, <1>3, <1>4, <1>5, ServersUntouched, SameNames
  DEF Detector!Hear, Routable, SettledSet, Heard, Ended

\* Storing it makes the sender routable.
LEMMA AssignImplements ==
    ASSUME TypeOK, TypeOK', TimingInv, NEW s \in Streams, CoordStep(s), AssignRow(s)
    PROVE  \E last \in BOOLEAN : Detector!Trust(s, last)
<1> USE DEF AssignRow, Goto, TypeOK, StreamTypeOK, CoordTypeOK, streamVars
<1>a. Sender(s) \in Servers
  BY StreamFacts
<1>1. Heard' = Heard /\ s \in Heard
  BY DEF Heard, TimingInv, ClockInv, Busy
<1>2. Routable' = Routable \cup {Sender(s)}
  BY <1>a DEF Routable, Active
<1>3. Ended' = Ended /\ s \notin Ended
  BY DEF Ended
<1>4. /\ Sender(s) \in UnderWay
      /\ UnderWay' = UnderWay \/ UnderWay' = UnderWay \ {Sender(s)}
  <2>1. Sender(s) \in UnderWay
    BY <1>a DEF UnderWay
  <2>2. UnderWay' \subseteq UnderWay /\ UnderWay \ {Sender(s)} \subseteq UnderWay'
    BY DEF UnderWay
  <2>3. QED
    BY <2>1, <2>2, LostOne
<1>5. \A last \in BOOLEAN :
        UnderWay' = (IF last THEN UnderWay \ {Sender(s)} ELSE UnderWay)
          => Detector!Trust(s, last)
  BY <1>1, <1>2, <1>3, <1>4, ServersUntouched, SameNames
  DEF Detector!Trust, Routable, SettledSet, Heard, Ended
<1>6. QED
  BY <1>4, <1>5

\* Only a server that is not settled is deactivated by a comparison: MarkInv.
LEMMA MarkImplements ==
    ASSUME TypeOK, TypeOK', TimingInv, NEW s \in Streams, CoordStep(s),
           NEW t \in ServerTypes, NEW next \in {"checkSlave", "read"},
           MarkRow(s, t, IF t = "MASTER" THEN "markMaster" ELSE "markSlave", next)
    PROVE  Detector!Suspect(Peer(s, t))
<1> USE DEF MarkRow, Goto, TypeOK, StreamTypeOK, CoordTypeOK, streamVars, ServerTypes
<1>a. Peer(s, t) \in Servers /\ Peer(s, t)[1] = Sender(s)[1]
  BY PeerFacts DEF Peer
<1>t. ValueTypes
  BY ValueTypesHold
<1>1. Peer(s, t) \notin SettledSet
  <2> SUFFICES ASSUME Settled(Peer(s, t), MaxDelay) PROVE FALSE
    BY DEF SettledSet
  <2>1. hb_timestamp[s] <= since[Peer(s, t)] + Slack + MaxDelay
    BY DEF TimingInv, MarkInv, Settled
  <2>2. now <= hb_timestamp[s] + MaxDelay
    BY DEF TimingInv, ClockInv, Busy
  <2>3. QED
    BY <1>a, <1>t, <2>1, <2>2, SlackAssumption DEF Settled, ValueTypes
<1>2. Heard' = Heard /\ s \in Heard
  BY DEF Heard, TimingInv, ClockInv, Busy
<1>3. Routable' = Routable \ {Peer(s, t)}
  BY <1>a DEF Routable, Active
<1>4. Ended' = Ended /\ s \notin Ended
  BY DEF Ended
<1>5. UnderWay' = UnderWay
  BY SameUnderWay
<1>6. QED
  BY <1>a, <1>1, <1>2, <1>3, <1>4, <1>5, ServersUntouched, SameNames
  DEF Detector!Suspect, Routable, SettledSet, Heard, Ended

\* A comparison alone shows nowhere.
LEMMA CheckImplements ==
    ASSUME TypeOK, TypeOK', NEW s \in Streams, CoordStep(s), CheckMaster(s) \/ CheckSlave(s)
    PROVE  UNCHANGED Detector!detectorVars
<1> USE DEF CheckMaster, CheckSlave, CheckRow, Goto, TypeOK, CoordTypeOK, streamVars
<1>1. Heard' = Heard /\ Routable' = Routable
  BY DEF Heard, Routable, Active
<1>2. Ended' = Ended
  BY DEF Ended
<1>3. UnderWay' = UnderWay
  BY SameUnderWay
<1>4. QED
  BY <1>1, <1>2, <1>3, ServersUntouched
  DEF Detector!detectorVars, Routable, SettledSet, Heard, Ended

\* The end of a stream takes its own server out of the routing, or any one or none
\* if the locals were never set, and what was on the stream is lost.
LEMMA EndImplements ==
    ASSUME TypeOK, TypeOK', NEW s \in Streams, CoordStep(s), EndOfStream(s)
    PROVE  \E last \in BOOLEAN : Detector!NoticeEnd(s, last)
<1> USE DEF EndOfStream, Goto, TypeOK, StreamTypeOK, CoordTypeOK
<1>a. Sender(s) \in Servers
  BY StreamFacts
<1>1. Heard' = Heard
  BY DEF Heard
<1>2. Ended' = Ended \cup {s} /\ s \notin Ended
  BY DEF Ended
<1>3. \A x \in Servers : Deactivate(x) => Routable' = Routable \ {x}
  BY DEF Deactivate, Routable, Active
<1>4. \/ Routable' = Routable \ {Sender(s)}
      \/ /\ s \notin Heard
         /\ \E X \in {{}} \cup {{x} : x \in Servers} : Routable' = Routable \ X
  <2>1. CASE s \in Heard
    BY <1>a, <1>3, <2>1 DEF Heard
  <2>2. CASE s \notin Heard /\ \E x \in Servers : Deactivate(x)
    <3>1. PICK x \in Servers : Routable' = Routable \ {x}
      BY <1>3, <2>2
    <3>2. QED
      BY <2>2, <3>1
  <2>3. CASE s \notin Heard /\ UNCHANGED table
    <3>1. Routable' = Routable \ {}
      BY <2>3 DEF Routable, Active
    <3>2. QED
      BY <2>3, <3>1
  <2>4. QED
    BY <2>1, <2>2, <2>3 DEF Heard
<1>5. UnderWay' = UnderWay \/ UnderWay' = UnderWay \ {Sender(s)}
  <2>1. UnderWay' \subseteq UnderWay /\ UnderWay \ {Sender(s)} \subseteq UnderWay'
    BY DEF UnderWay
  <2>2. QED
    BY <2>1, LostOne
<1>6. \A last \in BOOLEAN :
        UnderWay' = (IF last THEN UnderWay \ {Sender(s)} ELSE UnderWay)
          => Detector!NoticeEnd(s, last)
  BY <1>1, <1>2, <1>4, ServersUntouched, SameNames
  DEF Detector!NoticeEnd, Routable, SettledSet, Heard, Ended
<1>7. QED
  BY <1>5, <1>6

\* Every statement of a thread of the coordinator is a step of the detector or none.
LEMMA CoordImplements ==
    ASSUME TypeOK, TypeOK', TimingInv, NEW s \in Streams, CoordStep(s)
    PROVE  [Detector!Next]_(Detector!detectorVars)
<1> USE SameNames
<1>1. CASE ReadHeartbeat(s) \/ AssignRow(s) \/ EndOfStream(s)
  BY <1>1, ReadImplements, AssignImplements, EndImplements
  DEF Detector!Next, Detector!Coordinate
<1>2. CASE MarkMaster(s)
  <2>1. Detector!Suspect(Peer(s, "MASTER"))
    BY <1>2, MarkImplements DEF MarkMaster, ServerTypes
  <2>2. QED
    BY <2>1, PeerFacts DEF Detector!Next, ServerTypes
<1>3. CASE MarkSlave(s)
  <2>1. Detector!Suspect(Peer(s, "SLAVE"))
    BY <1>3, MarkImplements DEF MarkSlave, ServerTypes
  <2>2. QED
    BY <2>1, PeerFacts DEF Detector!Next, ServerTypes
<1>4. CASE CheckMaster(s) \/ CheckSlave(s)
  BY <1>4, CheckImplements
<1>5. QED
  BY <1>1, <1>2, <1>3, <1>4 DEF CoordStep, HandleHeartBeats

\* As time passes, connected servers settle, and none is unsettled.
LEMMA TickImplements ==
    ASSUME TypeOK, TypeOK', Tick
    PROVE  [Detector!Next]_(Detector!detectorVars)
<1> USE SameNames
<1>t. ValueTypes
  BY ValueTypesHold
<1>1. /\ UNCHANGED <<process, starts, since, faults, link, wire, table, pc, hb_timestamp>>
      /\ now' = now + 1
  BY DEF Tick, streamVars, serverVars, coordVars
<1>2. \A x \in Servers : /\ Settled(x, MaxDelay) => Settled(x, MaxDelay)'
                         /\ Settled(x, MaxDelay)' => Connected(x)
  BY <1>t, <1>1, SlackAssumption DEF Settled, Connected, Current, ValueTypes
<1>3. /\ SettledSet' = SettledSet \cup SettledSet'
      /\ SettledSet' \in SUBSET Servers
      /\ \A x \in SettledSet' : Connected(x)
  BY <1>2 DEF SettledSet
<1>4. Routable' = Routable /\ Heard' = Heard /\ Ended' = Ended /\ UnderWay' = UnderWay
  BY <1>1 DEF Routable, Active, Heard, Ended, UnderWay
<1>5. PICK X \in SUBSET Servers : X = SettledSet'
  BY <1>3
<1>6. Detector!Settle(X)
  BY <1>1, <1>3, <1>4, <1>5 DEF Detector!Settle, Routable, SettledSet, Heard, Ended
<1>7. QED
  BY <1>6 DEF Detector!Next

(***************************************************************************)
(* The unlocked threads of coord.cc with their clock implement the untimed *)
(* detector, for any number of clusters, restarts and faults, as long as   *)
(* the delays keep to DelayAssumption.                                     *)
(***************************************************************************)
THEOREM FailoverImplementsDetector == Spec => ImplementsDetector
<1>1. TypeOK /\ TypeOK' /\ TimingInv /\ [Next]_vars
        => [Detector!Next]_(Detector!detectorVars)
  <2> SUFFICES ASSUME TypeOK, TypeOK', TimingInv, [Next]_vars
               PROVE  [Detector!Next]_(Detector!detectorVars)
    OBVIOUS
  <2>1. ASSUME NEW x \in Servers, ServerStep(x)
        PROVE  [Detector!Next]_(Detector!detectorVars)
    BY <2>1, ServerImplements DEF TimingInv
  <2>2. ASSUME NEW s \in Streams, CoordStep(s)
        PROVE  [Detector!Next]_(Detector!detectorVars)
    BY <2>2, CoordImplements
  <2>3. CASE Tick
    BY <2>3, TickImplements
  <2>4. CASE UNCHANGED vars
    <3>1. UNCHANGED <<now, wire, link, process, starts, since, faults, table, pc,
                      hb_timestamp>>
      BY <2>4 DEF vars, streamVars, serverVars, coordVars
    <3>2. /\ Routable' = Routable /\ SettledSet' = SettledSet
          /\ Heard' = Heard /\ Ended' = Ended /\ UnderWay' = UnderWay
      BY <3>1 DEF Routable, Active, SettledSet, Settled, Connected, Current, Heard,
         Ended, UnderWay
    <3>3. QED
      BY <3>1, <3>2 DEF Detector!detectorVars, Routable, SettledSet, Heard, Ended
  <2>5. QED
    BY <2>1, <2>2, <2>3, <2>4 DEF Next, OutOfTime
<1>2. QED
  BY <1>1, DetectorInit, TypeCorrect, TimingCorrect, PTL
  DEF Spec, ImplementsDetector, Detector!Spec

=============================================================================
