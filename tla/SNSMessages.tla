----------------------------- MODULE SNSMessages ----------------------------
(*****************************************************************************)
(* The messages and the service of social-network-service/sns.proto, in the  *)
(* code generated from it.                                                   *)
(*****************************************************************************)

ListReplyFields == [all_users |-> "strings", followers |-> "strings"]
ListReply ==
    [fields |-> ListReplyFields,
     order |-> <<"all_users", "followers">>]

RequestFields == [username |-> "string", arguments |-> "strings"]
Request ==
    [fields |-> RequestFields,
     order |-> <<"username", "arguments">>]

ReplyFields == [msg |-> "string"]
Reply ==
    [fields |-> ReplyFields,
     order |-> <<"msg">>]

MessageFields ==
    [username |-> "string", msg |-> "string", timestamp |-> "message"]
Message ==
    [fields |-> MessageFields,
     order |-> <<"username", "msg", "timestamp">>]

-----------------------------------------------------------------------------
\* What the stub calls a method: one request and one reply, or a stream each way.
SNSServiceStub ==
    [Login |-> "NORMAL_RPC",
     List |-> "NORMAL_RPC",
     Follow |-> "NORMAL_RPC",
     UnFollow |-> "NORMAL_RPC",
     Timeline |-> "BIDI_STREAMING"]

\* What the server's method reads and writes.
SNSService ==
    [Login |-> [request |-> Request, reply |-> Reply],
     List |-> [request |-> Request, reply |-> ListReply],
     Follow |-> [request |-> Request, reply |-> Reply],
     UnFollow |-> [request |-> Request, reply |-> Reply],
     Timeline |-> [request |-> Message, reply |-> Message]]

=============================================================================
