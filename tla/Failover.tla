------------------------------ MODULE Failover ------------------------------
(***************************************************************************)
(* Failure detection in the social network service: the server processes   *)
(* of all clusters heartbeat to the coordinator over their streams while   *)
(* the clock runs.                                                         *)
(*                                                                         *)
(* The code's promises about failures are promises about time, so the      *)
(* model says how late things may be.  A live sender thread oversleeps by  *)
(* at most Slack, and a heartbeat has been handled to the end at most      *)
(* MaxDelay after its timestamp.  How long the loss of a connection takes  *)
(* to be noticed is not bounded.                                           *)
(***************************************************************************)
EXTENDS SMServer, Coordinator

CONSTANTS Slack, MaxDelay

ASSUME SlackAssumption == Slack \in Nat /\ MaxDelay \in Nat

\* The longest time from one heartbeat to the next.
Gap == Period + Slack

\* The timeout leaves room for a heartbeat interval and for two delays, the
\* second one because an older stream's thread may still write the row.
ASSUME DelayAssumption == Gap + 2 * MaxDelay <= Timeout

vars == <<now, streamVars, serverVars, coordVars>>

TypeOK == StreamTypeOK /\ ServerTypeOK /\ CoordTypeOK

Init == StreamInit /\ ServerInit /\ CoordInit

-----------------------------------------------------------------------------
ServerStep(x) ==
    /\ \/ StartServer(x)
       \/ SendHeartbeat(x)
       \/ CrashServer(x)
       \/ HangServer(x)
       \/ ResumeServer(x)
       \/ ResetConnection(x)
    /\ UNCHANGED coordVars

CoordStep(s) == HandleHeartBeats(s) /\ UNCHANGED serverVars

\* A live sender thread may oversleep until here.
SendDeadline(x) == (IF since[x] > due[x] THEN since[x] ELSE due[x]) + Slack

Tick ==
    /\ now < MaxTime
    /\ \A x \in Servers : process[x] = "up" => now < SendDeadline(x)
    /\ \A s \in Streams :
         /\ \A i \in 1..Len(wire[s]) : now < wire[s][i] + MaxDelay
         /\ Busy(s) => now < hb_timestamp[s] + MaxDelay
    /\ now' = now + 1
    /\ UNCHANGED <<streamVars, serverVars, coordVars>>

\* The bounded clock has run out; the model stops here, the system does not.
OutOfTime == now = MaxTime /\ UNCHANGED vars

Next ==
    \/ \E x \in Servers : ServerStep(x)
    \/ \E s \in Streams : CoordStep(s)
    \/ Tick
    \/ OutOfTime

Spec == Init /\ [][Next]_vars

-----------------------------------------------------------------------------
\* A server is settled d after its first heartbeat since it was last started
\* or resumed must have been handled.
Settled(x, d) == Connected(x) /\ now > since[x] + Slack + MaxDelay + d

(***************************************************************************)
(* The row of a settled server carries a heartbeat that no other heartbeat *)
(* of the moment could find expired (coord.cc:119, coord.cc:127).  It must *)
(* hold although threads of earlier streams of the same server may still   *)
(* be overwriting the row with older heartbeats.                           *)
(***************************************************************************)
FreshRows ==
    \A x \in Servers :
        Settled(x, 0) => /\ table[x].present
                         /\ now - table[x].last_hb <= Gap + 2 * MaxDelay

(***************************************************************************)
(* A server that keeps running and stays connected is taken out of the     *)
(* routing by nothing but the end of some stream (coord.cc:138-146): no    *)
(* thread's comparison, however old when its status write lands            *)
(* (coord.cc:119-120, 127-128), deactivates it.                            *)
(***************************************************************************)
OnlyStreamEndDeactivates ==
    [][\A x \in Servers :
         Settled(x, MaxDelay) /\ Active(x) /\ ~Active(x)'
           => \E s \in Streams : pc[s] = "read" /\ pc'[s] = "ended"]_vars

(***************************************************************************)
(* While one server of a cluster is settled, no ACTIVE row of the cluster  *)
(* is older than the timeout plus one heartbeat interval plus the delay:   *)
(* this is how long clients can be sent to a server that hangs.            *)
(***************************************************************************)
ActiveRowsAreRecent ==
    \A x \in Servers :
        Settled(Partner(x), 0) /\ Active(x)
            => now - table[x].last_hb <= Timeout + Gap + MaxDelay

(***************************************************************************)
(* A server that has been running and connected for one more heartbeat     *)
(* interval is routable, unless the end of one of its own older streams,   *)
(* or of a stream that never carried a heartbeat, has deactivated it.      *)
(***************************************************************************)
NoSpuriousSuspicion ==
    \A x \in Servers :
        Settled(x, Gap + 2 * MaxDelay) /\ ~Active(x)
            => \E s \in Streams : /\ pc[s] = "ended"
                                  /\ Sender(s) = x \/ hb_timestamp[s] = Epoch

=============================================================================
