------------------------- MODULE CoordinatorMessages ------------------------
(*****************************************************************************)
(* The messages and the service of snsCoordinator.proto, in the code         *)
(* generated from it.                                                        *)
(*****************************************************************************)

UserFields == [user_id |-> "int32"]
User ==
    [fields |-> UserFields,
     order |-> <<"user_id">>]

ClusterIdFields == [cluster |-> "int32"]
ClusterId ==
    [fields |-> ClusterIdFields,
     order |-> <<"cluster">>]

ServerFields ==
    [server_ip |-> "string", port_num |-> "string", server_id |-> "int32",
     server_type |-> "enum"]
Server ==
    [fields |-> ServerFields,
     order |-> <<"server_ip", "port_num", "server_id", "server_type">>]

UsersFields == [users |-> "ints"]
Users ==
    [fields |-> UsersFields,
     order |-> <<"users">>]

FollowSyncsFields ==
    [users |-> "ints", follow_syncs |-> "ints",
     follow_sync_ip |-> "strings", port_nums |-> "strings"]
FollowSyncs ==
    [fields |-> FollowSyncsFields,
     order |-> <<"users", "follow_syncs", "follow_sync_ip", "port_nums">>]

HeartbeatFields ==
    [server_id |-> "int32", server_type |-> "enum",
     server_ip |-> "string", server_port |-> "string", timestamp |-> "message"]
Heartbeat ==
    [fields |-> HeartbeatFields,
     order |-> <<"server_id", "server_type", "server_ip", "server_port", "timestamp">>]

-----------------------------------------------------------------------------
\* What the stub calls a method: one request and one reply, or a stream each way.
SNSCoordinatorStub ==
    [HandleHeartBeats |-> "BIDI_STREAMING",
     GetFollowSyncsForUsers |-> "NORMAL_RPC",
     GetServer |-> "NORMAL_RPC",
     GetSlave |-> "NORMAL_RPC"]

\* What the server's method reads and writes.
SNSCoordinator ==
    [HandleHeartBeats |-> [request |-> Heartbeat, reply |-> Heartbeat],
     GetFollowSyncsForUsers |-> [request |-> Users, reply |-> FollowSyncs],
     GetServer |-> [request |-> User, reply |-> Server],
     GetSlave |-> [request |-> ClusterId, reply |-> Server]]

=============================================================================
