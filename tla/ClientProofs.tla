---------------------------- MODULE ClientProofs ----------------------------
(***************************************************************************)
(* Proofs about ClientFailover: the clients leave failure detection alone, *)
(* keep their types, and never leave a running server that knows them.     *)
(***************************************************************************)
EXTENDS ClientFailover, FailoverProofs

\* Whatever holds of the servers and the coordinator without clients holds with
\* them: lookups and calls change nothing of the state of Failover.
THEOREM ClientsKeepFailover == ClientSystemSpec => Spec
<1>1. ClientSystemInit => Init
  BY DEF ClientSystemInit
<1>2. [ClientSystemNext]_clientSystemVars => [Next]_vars
  BY DEF ClientSystemNext, clientSystemVars
<1>3. QED
  BY <1>1, <1>2, PTL DEF ClientSystemSpec, Spec

\* The reply with no field set names no server.
LEMMA NoServerIsNone == NoServer \notin Servers
BY DEF NoServer, Servers, Clusters

\* The clients start with the types of ClientTypeOK.
LEMMA ClientInitType == ClientInit => ClientTypeOK
BY DEF ClientInit, ClientTypeOK, Places

\* Every step of the clients keeps their types.
LEMMA ClientTypeStep ==
    ASSUME TypeOK, StreamsInv, ClientTypeOK,
           [ClientSystemNext]_clientSystemVars
    PROVE  ClientTypeOK'
<1> USE DEF ClientTypeOK
<1>1. CASE UNCHANGED clientVars
  BY <1>1 DEF clientVars
<1>2. ASSUME NEW x \in Servers, OpenPort(x) PROVE ClientTypeOK'
  <2>1. Current(x) \in Streams
    BY <1>2, CurrentStream DEF OpenPort
  <2>2. QED
    BY <1>2, <2>1 DEF OpenPort
<1>3. ASSUME NEW c \in Users, RunClient(c) PROVE ClientTypeOK'
  <2> USE DEF GoOn, Places
  <2>1. CASE AskMaster(c) \/ AskSlave(c)
    BY <2>1 DEF AskMaster, AskSlave, Routable
  <2>2. CASE LoginServed(c)
    <3>1. Current(stub[c]) \in Streams
      BY <2>2 DEF LoginServed, Answers, Listens
    <3>2. QED
      BY <2>2, <3>1 DEF LoginServed
  <2>3. CASE LoginFails(c) \/ EnterCommand(c) \/ CommandServed(c)
               \/ CommandFails(c) \/ EnterTimeline(c)
    BY <2>3 DEF LoginFails, EnterCommand, CommandServed, CommandFails, EnterTimeline
  <2>4. QED
    BY <1>3, <2>1, <2>2, <2>3 DEF RunClient
<1>4. QED
  BY <1>1, <1>2, <1>3 DEF ClientSystemNext, clientSystemVars

\* The invariants of Failover that the clients' invariants rest on.
LEMMA FailoverHolds == ClientSystemSpec => [](TypeOK /\ StreamsInv)
<1>1. TimingInv => StreamsInv
  BY DEF TimingInv
<1>2. QED
  BY <1>1, ClientsKeepFailover, TypeCorrect, TimingCorrect, PTL

\* Every variable of the system with clients keeps its type.
THEOREM ClientTypeCorrect == ClientSystemSpec => []ClientSystemTypeOK
<1>1. ClientSystemInit => ClientTypeOK
  BY ClientInitType DEF ClientSystemInit
<1>2. TypeOK /\ StreamsInv /\ ClientTypeOK /\ [ClientSystemNext]_clientSystemVars
        => ClientTypeOK'
  BY ClientTypeStep
<1>3. QED
  BY <1>1, <1>2, FailoverHolds, PTL DEF ClientSystemSpec, ClientSystemTypeOK

\* A server is started again or it stays as it is; only a start revives it.
LEMMA StartsGrow ==
    ASSUME TypeOK, [Next]_vars, NEW x \in Servers
    PROVE  \/ starts'[x] = starts[x] /\ (process[x] = "down" => process'[x] = "down")
           \/ starts'[x] = starts[x] + 1
<1> USE DEF TypeOK, ServerTypeOK
<1>1. ASSUME NEW y \in Servers, ServerStep(y)
      PROVE  \/ starts'[x] = starts[x] /\ (process[x] = "down" => process'[x] = "down")
             \/ starts'[x] = starts[x] + 1
  BY <1>1 DEF ServerStep, StartServer, SendHeartbeat, CrashServer, HangServer,
     ResumeServer, ResetConnection
<1>2. ASSUME NEW s \in Streams, CoordStep(s) PROVE UNCHANGED <<starts, process>>
  BY <1>2 DEF CoordStep, serverVars
<1>3. CASE Tick \/ UNCHANGED vars
  BY <1>3 DEF Tick, vars, serverVars
<1>4. QED
  BY <1>1, <1>2, <1>3 DEF Next, OutOfTime

\* SessionInv is inductive: a client changes its stub only after its process has
\* died, and a process that is started again is a new one, that knows nobody.
LEMMA SessionStep ==
    ASSUME ClientSystemTypeOK, StreamsInv, SessionInv,
           [ClientSystemNext]_clientSystemVars
    PROVE  SessionInv'
<1> USE DEF ClientSystemTypeOK, ClientTypeOK
<1>a. [Next]_vars
  BY DEF ClientSystemNext, clientSystemVars
<1>b. \A s \in Streams : /\ Sender(s) \in Servers /\ s[1] = Sender(s)
                         /\ s[2] \in 1..MaxStarts
  BY StreamFacts
<1> SUFFICES ASSUME NEW c \in Users, NEW s \in Streams, <<c, s>> \in joined'
             PROVE  /\ s[2] <= starts'[s[1]]
                    /\ s \in listening'
                    /\ Running(s)' => /\ stub'[c] = Sender(s)
                                      /\ at'[c] \in {"prompt", "command", "timeline"}
  BY DEF SessionInv
<1>1. CASE Next /\ UNCHANGED clientVars
  <2>1. <<c, s>> \in joined /\ s[2] <= starts[s[1]]
    BY <1>1 DEF clientVars, SessionInv
  <2>2. s[2] <= starts'[s[1]]
    BY <1>a, <1>b, <2>1, BoundAssumption, StartsAssumption, StartsGrow DEF TypeOK, ServerTypeOK
  <2>3. Running(s)' => Running(s)
    <3>1. CASE starts'[Sender(s)] = starts[Sender(s)] + 1
      <4>1. s[2] # starts'[Sender(s)]
        BY <1>b, <2>1, <3>1, BoundAssumption, StartsAssumption DEF TypeOK, ServerTypeOK
      <4>2. s # Current(Sender(s))'
        BY <4>1 DEF Current
      <4>3. QED
        BY <4>2 DEF Running
    <3>2. CASE /\ starts'[Sender(s)] = starts[Sender(s)]
               /\ process[Sender(s)] = "down" => process'[Sender(s)] = "down"
      BY <3>2 DEF Running, Current
    <3>3. QED
      BY <1>a, <1>b, <3>1, <3>2, StartsGrow
  <2>4. QED
    BY <1>1, <2>1, <2>2, <2>3 DEF SessionInv, clientVars
<1>2. ASSUME UNCHANGED vars
      PROVE  /\ starts' = starts
             /\ Running(s)' <=> Running(s)
  BY <1>2 DEF vars, serverVars, Running, Current
<1>3. CASE UNCHANGED clientSystemVars
  BY <1>2, <1>3 DEF clientSystemVars, clientVars, SessionInv
<1>4. ASSUME NEW x \in Servers, OpenPort(x), UNCHANGED vars
      PROVE  /\ s[2] <= starts'[s[1]]
             /\ s \in listening'
             /\ Running(s)' => /\ stub'[c] = Sender(s)
                               /\ at'[c] \in {"prompt", "command", "timeline"}
  BY <1>2, <1>4 DEF OpenPort, SessionInv
<1>5. ASSUME NEW d \in Users, RunClient(d), UNCHANGED vars
      PROVE  /\ s[2] <= starts'[s[1]]
             /\ s \in listening'
             /\ Running(s)' => /\ stub'[c] = Sender(s)
                               /\ at'[c] \in {"prompt", "command", "timeline"}
  <2> USE DEF GoOn
  <2>0. listening' = listening
    BY <1>5 DEF RunClient, AskMaster, AskSlave, LoginServed, LoginFails,
       EnterCommand, CommandServed, CommandFails, EnterTimeline
  <2>1. CASE c # d
    BY <1>2, <1>5, <2>0, <2>1 DEF SessionInv, RunClient, AskMaster, AskSlave,
       LoginServed, LoginFails, EnterCommand, CommandServed, CommandFails, EnterTimeline
  <2>2. CASE c = d /\ (AskMaster(c) \/ AskSlave(c) \/ LoginFails(c))
    BY <1>2, <1>5, <2>0, <2>2 DEF SessionInv, AskMaster, AskSlave, LoginFails
  <2>3. CASE c = d /\ (EnterCommand(c) \/ CommandServed(c) \/ EnterTimeline(c))
    BY <1>2, <1>5, <2>0, <2>3 DEF SessionInv, EnterCommand, CommandServed, EnterTimeline
  <2>4. CASE c = d /\ CommandFails(c)
    <3>1. ~Running(s)
      BY <1>b, <2>4, NoServerIsNone
      DEF CommandFails, Refuses, Listens, Running, SessionInv
    <3>2. QED
      BY <1>2, <1>5, <2>0, <2>4, <3>1 DEF CommandFails, SessionInv
  <2>5. CASE c = d /\ LoginServed(c)
    <3>1. /\ stub[c] # NoServer /\ Current(stub[c]) \in listening
          /\ at'[c] = "prompt" /\ stub' = stub
      BY <2>5 DEF LoginServed, Answers, Listens
    <3>2. CASE s = Current(stub[c])
      <4>1. s[1] = stub[c] /\ s[2] = starts[stub[c]]
        BY <3>2 DEF Current
      <4>2. QED
        BY <1>2, <1>5, <1>b, <2>0, <3>1, <3>2, <4>1, BoundAssumption, StartsAssumption
        DEF TypeOK, ServerTypeOK
    <3>3. CASE s # Current(stub[c])
      BY <1>2, <1>5, <2>0, <2>5, <3>3 DEF LoginServed, SessionInv
    <3>4. QED
      BY <3>2, <3>3
  <2>6. QED
    BY <1>5, <2>1, <2>2, <2>3, <2>4, <2>5 DEF RunClient
<1>6. QED
  BY <1>1, <1>3, <1>4, <1>5 DEF ClientSystemNext

\* Every session is with a process that was started, has opened its port and, while
\* it lives, is where its client's stub leads (SessionInv).
THEOREM SessionsTracked == ClientSystemSpec => []SessionInv
<1>1. ClientSystemInit => SessionInv
  BY DEF ClientSystemInit, ClientInit, SessionInv
<1>2. /\ ClientSystemTypeOK /\ StreamsInv /\ SessionInv
      /\ [ClientSystemNext]_clientSystemVars
      => SessionInv'
  BY SessionStep
<1>3. QED
  BY <1>1, <1>2, ClientTypeCorrect, FailoverHolds, PTL DEF ClientSystemSpec

\* A client never leaves a running server that knows it (OneLiveSession).
THEOREM SessionsAreNotLost == ClientSystemSpec => []OneLiveSession
<1>1. SessionInv => OneLiveSession
  BY DEF SessionInv, OneLiveSession
<1>2. QED
  BY <1>1, SessionsTracked, PTL

=============================================================================
