--------------------------- MODULE ClientFailover ---------------------------
(***************************************************************************)
(* Clients on top of Failover: they look up a server, log in, give         *)
(* commands and reconnect while servers come and go.                       *)
(***************************************************************************)
EXTENDS Failover, SNSClient

clientSystemVars == <<vars, clientVars>>

ClientSystemTypeOK == TypeOK /\ ClientTypeOK

ClientSystemInit == Init /\ ClientInit

ClientSystemNext ==
    \/ Next /\ UNCHANGED clientVars
    \/ /\ \/ \E x \in Servers : OpenPort(x)
          \/ \E c \in Users : RunClient(c)
       /\ UNCHANGED vars

ClientSystemSpec == ClientSystemInit /\ [][ClientSystemNext]_clientSystemVars

-----------------------------------------------------------------------------
\* The process that opened stream s is still there.
Running(s) == s = Current(Sender(s)) /\ process[Sender(s)] # "down"

(***************************************************************************)
(* A client never leaves a server process that runs and knows it           *)
(* (client.h:95, tsc.cc:130-145): whichever way it was moved between       *)
(* master and slave, a running process that has it in client_db is the one *)
(* its stub leads to.  Two such processes would each keep a part of what   *)
(* the user did, and nothing forwards it from one to the other.            *)
(***************************************************************************)
OneLiveSession ==
    \A c \in Users : \A s \in Streams :
        <<c, s>> \in joined /\ Running(s) => stub[c] = Sender(s)

(***************************************************************************)
(* The inductive form of OneLiveSession: a session is with a process that  *)
(* was started and has opened its port, and while it lives its client is   *)
(* at none of the places from which its stub changes.                      *)
(***************************************************************************)
SessionInv ==
    \A c \in Users : \A s \in Streams :
        <<c, s>> \in joined =>
            /\ s[2] <= starts[s[1]]
            /\ s \in listening
            /\ Running(s) => /\ stub[c] = Sender(s)
                             /\ at[c] \in {"prompt", "command", "timeline"}

=============================================================================
