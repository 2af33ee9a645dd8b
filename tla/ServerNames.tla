---------------------------- MODULE ServerNames ----------------------------
(***************************************************************************)
(* The clusters of the social network service and their server processes.  *)
(***************************************************************************)
EXTENDS Integers

CONSTANTS
    NumClusters,  \* clusters, the literal 3 of GetServer
    MaxStarts     \* bound: how often each server process is started

ASSUME ClusterAssumption == NumClusters \in Nat \ {0}
ASSUME StartsAssumption == MaxStarts \in Nat \ {0}

Clusters == 1..NumClusters

\* enum ServerType, the two members that tsd.cc ever sends.
ServerTypes == {"MASTER", "SLAVE"}

\* A server process: its -d and -t arguments.  It registers under the same
\* ip and port each time it is started (start.sh), so the pair stands for
\* its address as well.
Servers == Clusters \X ServerTypes

\* The streams a server process may open: one each time it is started.
Streams == Servers \X (1..MaxStarts)

\* The server at the sending end of a stream: the server_id, server_type, ip
\* and port of every heartbeat on it.
Sender(s) == s[1]

Partner(x) == <<x[1], IF x[2] = "MASTER" THEN "SLAVE" ELSE "MASTER">>

=============================================================================
