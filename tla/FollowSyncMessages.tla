------------------------- MODULE FollowSyncMessages -------------------------
(*****************************************************************************)
(* The messages and the service of snsFollowSync.proto, in the code          *)
(* generated from it.                                                        *)
(*****************************************************************************)

RelationFields == [followee |-> "int32", follower |-> "int32"]
Relation ==
    [fields |-> RelationFields,
     order |-> <<"followee", "follower">>]

UsersFields == [user_id |-> "ints"]
Users ==
    [fields |-> UsersFields,
     order |-> <<"user_id">>]

PostFields ==
    [posted_by |-> "int32", follower_user |-> "int32", msg |-> "string",
     timestamp |-> "message"]
Post ==
    [fields |-> PostFields,
     order |-> <<"posted_by", "follower_user", "msg", "timestamp">>]

ReplyFields == [msg |-> "string"]
Reply ==
    [fields |-> ReplyFields,
     order |-> <<"msg">>]

-----------------------------------------------------------------------------
\* What the stub calls a method: one request and one reply, or a stream each way.
SNSFollowSyncStub ==
    [SyncUsers |-> "NORMAL_RPC",
     SyncRelations |-> "NORMAL_RPC",
     SyncTimeline |-> "NORMAL_RPC"]

\* What the server's method reads and writes.
SNSFollowSync ==
    [SyncUsers |-> [request |-> Users, reply |-> Reply],
     SyncRelations |-> [request |-> Relation, reply |-> Reply],
     SyncTimeline |-> [request |-> Post, reply |-> Reply]]

=============================================================================
