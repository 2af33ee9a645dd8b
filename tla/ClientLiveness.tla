--------------------------- MODULE ClientLiveness ---------------------------
(***************************************************************************)
(* The clients of SNSClient over the untimed FailureDetector: what becomes *)
(* of their calls and where they end up when servers fail.                 *)
(***************************************************************************)
EXTENDS FailureDetector

CONSTANT Users

VARIABLES at, inLoop, stub, joined, listening   \* as in SNSClient

clientVars == <<at, inLoop, stub, joined, listening>>
livenessVars == <<detectorVars, clientVars>>

\* The tables as a client sees them, through the status of a row alone.
Tables ==
    [x \in Servers |-> [present |-> TRUE,
                        status |-> IF x \in routable THEN "ACTIVE" ELSE "INACTIVE",
                        last_hb |-> 0]]

Client == INSTANCE SNSClient WITH
    table <- Tables, Period <- 1, Timeout <- 1, StartTime <- 2, MaxTime <- 2,
    now <- 2, wire <- 0, since <- 0, due <- 0, pc <- 0, hb_timestamp <- 0

LivenessInit == Init /\ Client!ClientInit

LivenessNext ==
    \/ Next /\ UNCHANGED clientVars
    \/ /\ \/ \E x \in Servers : Client!OpenPort(x)
          \/ \E c \in Users : Client!RunClient(c)
       /\ UNCHANGED detectorVars

\* The client's call goes on: the coordinator and a server that runs answer, and
\* a call to nobody fails.
Calling(c) ==
    /\ \/ Client!AskMaster(c)
       \/ Client!AskSlave(c)
       \/ Client!LoginServed(c)
       \/ Client!LoginFails(c)
       \/ Client!CommandServed(c)
       \/ Client!CommandFails(c)
    /\ UNCHANGED detectorVars

\* Nothing is assumed of users, of faults or of whoever restarts servers.
LivenessSpec ==
    /\ LivenessInit
    /\ [][LivenessNext]_livenessVars
    /\ Timely
    /\ \A x \in Servers : WF_livenessVars(Client!OpenPort(x) /\ UNCHANGED detectorVars)
    /\ \A c \in Users : WF_livenessVars(Calling(c))

-----------------------------------------------------------------------------
(***************************************************************************)
(* A call, with the lookup and the login it may lead to, comes to an end   *)
(* (client.h:85-99, tsc.cc:106-150), unless its server hangs for good: the *)
(* calls have no deadline (tsc.cc:265), and what the coordinator knows     *)
(* does not help a client that waits.                                      *)
(***************************************************************************)
CallsEnd ==
    \A c \in Users :
        \/ []<>(at[c] \in {"prompt", "timeline", "exited"})
        \/ <>[](stub[c] # Client!NoServer /\ process[stub[c]] = "hung")

(***************************************************************************)
(* When one server of a cluster stays up and connected and the other is    *)
(* down or hangs for good, the commands of a client that gives them over   *)
(* and over in the end all go to the one that is up (coord.cc:62-75,       *)
(* client.h:95-97).  It does not hold of clients in the timeline, which    *)
(* never ends (tsc.cc:363), nor of one that waits for the hung server; and *)
(* the server may not know the client, whose login can have failed before  *)
(* the port was open.                                                      *)
(***************************************************************************)
FailoverCompletes ==
    \A c \in Users, t \in ServerTypes :
        LET x == Client!Row(c, t)
        IN /\ x \in Servers
           /\ <>[](x \in settled)
           /\ <>[](process[Partner(x)] # "up")
           /\ []<>(at[c] = "prompt")
           /\ []<>(at[c] = "command")
           => <>[](stub[c] = x)

=============================================================================
