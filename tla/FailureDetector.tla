-------------------------- MODULE FailureDetector --------------------------
(***************************************************************************)
(* What the coordinator's failure detection promises, without its clock,   *)
(* its tables and its threads: which servers it routes clients to.  Module *)
(* DetectorRefinement shows that Failover implements Spec.                 *)
(*                                                                         *)
(* A server is settled when it has been running and connected for so long  *)
(* that no decision of before is still being carried out.                  *)
(***************************************************************************)
EXTENDS ServerNames

CONSTANT MaxFaults   \* bound: how many faults the environment causes

VARIABLES
    process, starts, link, faults,   \* as in SMServer and HeartbeatStreams
    routable,  \* the servers whose row is ACTIVE
    settled,   \* the servers that are settled
    pending,   \* servers with a heartbeat sent and not yet handled
    heard,     \* streams on which a heartbeat has been read
    ended      \* streams whose end has been noticed

detectorVars == <<process, starts, link, faults, routable, settled, pending, heard, ended>>

Init ==
    /\ process = [x \in Servers |-> "down"]
    /\ starts = [x \in Servers |-> 0]
    /\ link = [s \in Streams |-> "unused"]
    /\ faults = 0
    /\ routable = {}
    /\ settled = {}
    /\ pending = {}
    /\ heard = {}
    /\ ended = {}

Current(x) == <<x, starts[x]>>
Connected(x) == process[x] = "up" /\ link[Current(x)] = "open"

-----------------------------------------------------------------------------
Start(x) ==
    /\ process[x] = "down"
    /\ starts[x] < MaxStarts
    /\ process' = [process EXCEPT ![x] = "up"]
    /\ starts' = [starts EXCEPT ![x] = @ + 1]
    /\ link' = [link EXCEPT ![<<x, starts[x] + 1>>] = "open"]
    /\ UNCHANGED <<faults, routable, settled, pending, heard, ended>>

\* A fault of x, after which it is not settled.
Fail(x) ==
    /\ faults < MaxFaults
    /\ faults' = faults + 1
    /\ process[x] # "down"
    /\ \/ /\ process' = [process EXCEPT ![x] = "down"]
          /\ link' = [link EXCEPT ![Current(x)] = "broken"]
       \/ /\ process[x] = "up"
          /\ process' = [process EXCEPT ![x] = "hung"]
          /\ UNCHANGED link
       \/ /\ link[Current(x)] = "open"
          /\ link' = [link EXCEPT ![Current(x)] = "broken"]
          /\ UNCHANGED process
    /\ settled' = settled \ {x}
    /\ UNCHANGED <<starts, routable, pending, heard, ended>>

Resume(x) ==
    /\ process[x] = "hung"
    /\ process' = [process EXCEPT ![x] = "up"]
    /\ UNCHANGED <<starts, link, faults, routable, settled, pending, heard, ended>>

\* Time passes, and the connected servers X have become settled.
Settle(X) ==
    /\ \A x \in X : Connected(x)
    /\ settled' = settled \cup X
    /\ UNCHANGED <<process, starts, link, faults, routable, pending, heard, ended>>

Beat(x) ==
    /\ Connected(x)
    /\ pending' = pending \cup {x}
    /\ UNCHANGED <<process, starts, link, faults, routable, settled, heard, ended>>

Hear(s) ==
    /\ Sender(s) \in pending
    /\ s \notin ended
    /\ heard' = heard \cup {s}
    /\ UNCHANGED <<process, starts, link, faults, routable, settled, pending, ended>>

\* A heartbeat makes its sender routable; if it was the last one under way, none
\* is pending.
Trust(s, last) ==
    /\ Sender(s) \in pending
    /\ s \in heard \ ended
    /\ routable' = routable \cup {Sender(s)}
    /\ pending' = IF last THEN pending \ {Sender(s)} ELSE pending
    /\ UNCHANGED <<process, starts, link, faults, settled, heard, ended>>

\* A server that is not settled is found too old by a heartbeat of its cluster.
Suspect(x) ==
    /\ x \notin settled
    /\ \E s \in heard \ ended : Sender(s)[1] = x[1]
    /\ routable' = routable \ {x}
    /\ UNCHANGED <<process, starts, link, faults, settled, pending, heard, ended>>

\* A broken stream takes its own server out of the routing, or, if it was never
\* heard, any one or none.  What was on it is lost.
NoticeEnd(s, last) ==
    /\ link[s] = "broken"
    /\ s \notin ended
    /\ ended' = ended \cup {s}
    /\ \/ routable' = routable \ {Sender(s)}
       \/ /\ s \notin heard
          /\ \E X \in {{}} \cup {{x} : x \in Servers} : routable' = routable \ X
    /\ pending' = IF last THEN pending \ {Sender(s)} ELSE pending
    /\ UNCHANGED <<process, starts, link, faults, settled, heard>>

Environment(x) == Start(x) \/ Fail(x) \/ Resume(x)

Coordinate(s) ==
    \/ Hear(s)
    \/ \E last \in BOOLEAN : Trust(s, last) \/ NoticeEnd(s, last)

Next ==
    \/ \E x \in Servers : Environment(x) \/ Beat(x) \/ Suspect(x)
    \/ \E X \in SUBSET Servers : Settle(X)
    \/ \E s \in Streams : Coordinate(s)

Spec == Init /\ [][Next]_detectorVars

-----------------------------------------------------------------------------
\* x does not run, and its partner is there to show it.
SuspectSilent(x) ==
    /\ process[x] # "up"
    /\ x \notin pending
    /\ Partner(x) \in settled
    /\ Suspect(x)

(***************************************************************************)
(* In Failover each of these happens within a bounded time: a connected    *)
(* server settles and heartbeats every Gap, a heartbeat is handled within  *)
(* MaxDelay (FreshRows, NoSpuriousSuspicion), and a silent server with a   *)
(* settled partner is out after Timeout + Gap + MaxDelay                   *)
(* (ActiveRowsAreRecent).  That the end of a broken stream is noticed at   *)
(* some time is gRPC's.                                                    *)
(***************************************************************************)
Timely ==
    /\ \A x \in Servers :
         /\ WF_detectorVars(\E X \in SUBSET Servers : x \in X /\ Settle(X))
         /\ WF_detectorVars(Beat(x))
         /\ WF_detectorVars(Hear(Current(x)))
         /\ WF_detectorVars(\E s \in Streams : Sender(s) = x /\ Trust(s, TRUE))
         /\ WF_detectorVars(SuspectSilent(x))
    /\ \A s \in Streams : WF_detectorVars(\E last \in BOOLEAN : NoticeEnd(s, last))

=============================================================================
