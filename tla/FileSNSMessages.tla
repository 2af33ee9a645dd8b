--------------------------- MODULE FileSNSMessages --------------------------
(*****************************************************************************)
(* The messages and the service of intro-grpc/sns.proto, in the code         *)
(* generated from it.                                                        *)
(*****************************************************************************)

RequestFields == [username |-> "string", arguments |-> "strings"]
Request ==
    [fields |-> RequestFields,
     order |-> <<"username", "arguments">>]

ReplyFields ==
    [msg |-> "string", all_users |-> "strings", following_users |->
     "strings"]
Reply ==
    [fields |-> ReplyFields,
     order |-> <<"msg", "all_users", "following_users">>]

MessageFields ==
    [username |-> "string", msg |-> "string", timestamp |-> "message"]
Message ==
    [fields |-> MessageFields,
     order |-> <<"username", "msg", "timestamp">>]

-----------------------------------------------------------------------------
\* What the stub calls a method: one request and one reply, or a stream each way.
SNSServiceStub ==
    [Login |-> "NORMAL_RPC",
     List |-> "NORMAL_RPC",
     Follow |-> "NORMAL_RPC",
     UnFollow |-> "NORMAL_RPC",
     Timeline |-> "BIDI_STREAMING"]

\* What the server's method reads and writes.
SNSService ==
    [Login |-> [request |-> Request, reply |-> Reply],
     List |-> [request |-> Request, reply |-> Reply],
     Follow |-> [request |-> Request, reply |-> Reply],
     UnFollow |-> [request |-> Request, reply |-> Reply],
     Timeline |-> [request |-> Message, reply |-> Message]]

=============================================================================
