----------------------------- MODULE SNSService -----------------------------
(***************************************************************************)
(* The service of one SNS server process (SNSServiceImpl of tsd.cc): the   *)
(* vector client_db that its threads share without a lock, the pointers    *)
(* into it, the streams of the timeline, and the files of what a user's    *)
(* followings post.                                                        *)
(*                                                                         *)
(* A pointer into client_db is the generation of the vector's memory and a *)
(* place in it: push_back moves the entries to new memory when it is full, *)
(* and pointers of older generations dangle.  A call that does what C++    *)
(* leaves undefined stops the model, and wild says what it did.            *)
(*                                                                         *)
(* A client is killed between two of its calls or messages, and another    *)
(* one of its user may start.  The file of the user's own posts, which is  *)
(* never read, and the forwarding that is never called are left out.       *)
(***************************************************************************)
EXTENDS Integers, Sequences, FiniteSets, SequencesExt

CONSTANTS
    Clients,       \* the processes of clients
    Users,         \* user names
    Window,        \* how many lines a timeline shows at first: 20
    MaxEvents      \* bound: commands, posts, kills and restarts together

ASSUME ServiceAssumption ==
    /\ {Window, MaxEvents} \subseteq Nat
    /\ IsFiniteSet(Clients)

VARIABLES
    client_db,   \* the vector's entries
    capacity,    \* of the vector
    generation,  \* of its memory
    lines,       \* user -> lines in its following.txt
    username,    \* client -> the user it is of
    life,        \* client -> times it was killed and started again
    call,        \* client -> its call: where its thread is, and its locals
    ending,      \* Timeline calls of killed clients: their stream and local c
    left,        \* events that are left to the environment
    restarts,    \* times the server was killed and started again
    wild         \* what was done that is undefined, or "no"

memory == <<client_db, capacity, generation>>
serviceVars == <<memory, lines, username, life, call, ending, left, restarts, wild>>

Undefined == {"no user", "moved", "dead stream", "erase end", "unset", "race", "iterator"}

NoPointer == <<0, 0>>
NoStream == <<>>
Stream(c) == <<c, life[c]>>

\* The end of a message loop, a login to begin with, or no call at all.
InTimeline == {"setStream", "chatting", "deliver", "count", "append"}
InCall == {"login", "push", "follow", "pushFollowing", "pushFollowers",
           "unfollow", "eraseFollowing", "eraseFollowers", "list"}

At(place) == [at |-> place, name |-> "", user1 |-> NoPointer, user2 |-> NoPointer, it |-> 0, size |-> 0]

\* Mutants of Entry: the name is not set; nobody is connected at first.
NamelessEntry(u) ==
    [username |-> "", connected |-> TRUE, following_file_size |-> 0,
     client_followers |-> <<>>, client_following |-> <<>>, stream |-> NoStream]
DisconnectedEntry(u) ==
    [username |-> u, connected |-> FALSE, following_file_size |-> 0,
     client_followers |-> <<>>, client_following |-> <<>>, stream |-> NoStream]

Entry(u) ==
    [username |-> u, connected |-> TRUE, following_file_size |-> 0,
     client_followers |-> <<>>, client_following |-> <<>>, stream |-> NoStream]

InitWith(n) ==
    /\ client_db = <<>>
    /\ capacity = 0
    /\ generation = 0
    /\ lines = [u \in Users |-> 0]
    /\ username \in [Clients -> Users]
    /\ life = [c \in Clients |-> 0]
    /\ call = [c \in Clients |-> At("login")]
    /\ ending = {}
    /\ left = n
    /\ restarts = 0
    /\ wild = "no"

ServiceInit == InitWith(MaxEvents)

-----------------------------------------------------------------------------
\* The place of the first entry of u, or 0.
find_user(u) == SelectInSeq(client_db, LAMBDA e : e.username = u)

Pointer(u) == <<generation, find_user(u)>>
Valid(p) == p[1] = generation
Deref(p) == client_db[p[2]]

\* The object of stream s is there until its Timeline call returns.
Open(s) ==
    \/ \E c \in Clients : s = Stream(c) /\ call[c].at \in InTimeline
    \/ \E e \in ending : e.stream = s

\* Follow and UnFollow return early if there is no such user, or it is oneself.
Refused(c) == find_user(call[c].name) = 0 \/ call[c].name = username[c]

\* The follower that the loop of Timeline is at.
Follower(c) == Deref(call[c].user1).client_followers[call[c].it]
AtFollower(c) == call[c].at = "deliver" /\ call[c].it <= Len(Deref(call[c].user1).client_followers)

\* client_db[-1]: a call of a user that this process does not know.
NoUser(c) ==
    /\ find_user(username[c]) = 0
    /\ \/ call[c].at \in {"follow", "unfollow"} /\ ~Refused(c)
       \/ call[c].at \in {"list", "setStream", "chatting"}

\* A pointer into memory that the vector has left.
Moved(c) ==
    LET k == call[c]
    IN \/ k.at \in {"pushFollowing", "eraseFollowing", "deliver"} /\ ~Valid(k.user1)
       \/ k.at \in {"pushFollowers", "eraseFollowers", "count"} /\ ~Valid(k.user2)
       \/ AtFollower(c) /\ Valid(k.user1) /\ ~Valid(Follower(c))
       \/ /\ k.at = "list" /\ find_user(username[c]) # 0
          /\ \E p \in ToSet(client_db[find_user(username[c])].client_followers) : ~Valid(p)

\* Write to a stream whose call has returned.
DeadStream(c) ==
    /\ AtFollower(c) /\ Valid(call[c].user1) /\ Valid(Follower(c))
    /\ LET e == Deref(Follower(c)) IN e.connected /\ e.stream # NoStream /\ ~Open(e.stream)

\* vector.erase(end()): another call has erased the element since it was found.
EraseEnd(c) ==
    LET k == call[c]
    IN \/ /\ k.at = "eraseFollowing" /\ Valid(k.user1)
          /\ k.user2 \notin ToSet(Deref(k.user1).client_following)
       \/ /\ k.at = "eraseFollowers" /\ Valid(k.user2)
          /\ k.user1 \notin ToSet(Deref(k.user2).client_followers)

\* The followers have changed under the loop's iterator, which may be invalid and
\* is past the end if it was at the end before.
LoopChanged(c) ==
    /\ call[c].at = "deliver" /\ Valid(call[c].user1)
    /\ Len(Deref(call[c].user1).client_followers) # call[c].size
LoopLost(c) ==
    LoopChanged(c) /\ call[c].it > Len(Deref(call[c].user1).client_followers) + 1

\* push_back while another thread pushes or looks for a user.
Racing(c) ==
    /\ call[c].at = "push"
    /\ \E d \in Clients \ {c} :
         call[d].at \in {"login", "push", "follow", "unfollow", "list", "setStream", "chatting"}

Faulty(c) == NoUser(c) \/ Moved(c) \/ DeadStream(c) \/ EraseEnd(c) \/ LoopLost(c)

Misbehave(c) ==
    /\ \/ wild' = "no user" /\ NoUser(c)
       \/ wild' = "moved" /\ Moved(c)
       \/ wild' = "dead stream" /\ DeadStream(c)
       \/ wild' = "erase end" /\ EraseEnd(c)
       \/ wild' = "iterator" /\ LoopChanged(c)
       \/ wild' = "race" /\ Racing(c)
    /\ UNCHANGED <<memory, lines, username, life, call, ending, left, restarts>>

-----------------------------------------------------------------------------
Goto(c, place) == call' = [call EXCEPT ![c].at = place]
Return(c) == call' = [call EXCEPT ![c] = At("prompt")]

\* Mutant of LoginFind: a user that comes back is entered anew.
RepeatingLoginFind(c) ==
    /\ call[c].at = "login"
    /\ LET i == find_user(username[c])
       IN IF i = 0 \/ ~client_db[i].connected
          THEN Goto(c, "push") /\ UNCHANGED client_db
          ELSE Return(c) /\ UNCHANGED client_db
    /\ UNCHANGED <<capacity, generation, lines>>

\* Login: the look, and the push_back of a new user.  A client takes every
\* answer for success.
LoginFind(c) ==
    /\ call[c].at = "login"
    /\ LET i == find_user(username[c])
       IN IF i = 0
          THEN Goto(c, "push") /\ UNCHANGED client_db
          ELSE Return(c) /\ client_db' = [client_db EXCEPT ![i].connected = TRUE]
    /\ UNCHANGED <<capacity, generation, lines>>

LoginPush(c) ==
    /\ call[c].at = "push"
    /\ client_db' = Append(client_db, Entry(username[c]))
    /\ IF Len(client_db) = capacity
       THEN /\ capacity' = IF capacity = 0 THEN 1 ELSE 2 * capacity
            /\ generation' = generation + 1
       ELSE UNCHANGED <<capacity, generation>>
    /\ Return(c)
    /\ UNCHANGED lines

\* The check of Follow; the two pushes follow it.
Follow(c) ==
    /\ call[c].at = "follow"
    /\ IF Refused(c) \/ Pointer(call[c].name) \in
                          ToSet(Deref(Pointer(username[c])).client_following)
       THEN Return(c)
       ELSE call' = [call EXCEPT ![c].at = "pushFollowing",
                                 ![c].user1 = Pointer(username[c]),
                                 ![c].user2 = Pointer(call[c].name)]
    /\ UNCHANGED <<memory, lines>>

PushFollowing(c) ==
    /\ call[c].at = "pushFollowing"
    /\ client_db' = [client_db EXCEPT ![call[c].user1[2]].client_following = Append(@, call[c].user2)]
    /\ Goto(c, "pushFollowers")
    /\ UNCHANGED <<capacity, generation, lines>>

PushFollowers(c) ==
    /\ call[c].at = "pushFollowers"
    /\ client_db' = [client_db EXCEPT ![call[c].user2[2]].client_followers = Append(@, call[c].user1)]
    /\ Return(c)
    /\ UNCHANGED <<capacity, generation, lines>>

\* Mutant of UnFollow: it does not check that the user is followed.
UncheckedUnFollow(c) ==
    /\ call[c].at = "unfollow"
    /\ IF Refused(c)
       THEN Return(c)
       ELSE call' = [call EXCEPT ![c].at = "eraseFollowing",
                                 ![c].user1 = Pointer(username[c]),
                                 ![c].user2 = Pointer(call[c].name)]
    /\ UNCHANGED <<memory, lines>>

UnFollow(c) ==
    /\ call[c].at = "unfollow"
    /\ IF Refused(c) \/ Pointer(call[c].name) \notin
                          ToSet(Deref(Pointer(username[c])).client_following)
       THEN Return(c)
       ELSE call' = [call EXCEPT ![c].at = "eraseFollowing",
                                 ![c].user1 = Pointer(username[c]),
                                 ![c].user2 = Pointer(call[c].name)]
    /\ UNCHANGED <<memory, lines>>

EraseFollowing(c) ==
    /\ call[c].at = "eraseFollowing"
    /\ client_db' = [client_db EXCEPT ![call[c].user1[2]].client_following = RemoveFirst(@, call[c].user2)]
    /\ Goto(c, "eraseFollowers")
    /\ UNCHANGED <<capacity, generation, lines>>

\* Mutant of EraseFollowers: the user stays in the other one's list.
KeepingEraseFollowers(c) ==
    /\ call[c].at = "eraseFollowers"
    /\ Return(c)
    /\ UNCHANGED <<memory, lines>>

EraseFollowers(c) ==
    /\ call[c].at = "eraseFollowers"
    /\ client_db' = [client_db EXCEPT ![call[c].user2[2]].client_followers = RemoveFirst(@, call[c].user1)]
    /\ Return(c)
    /\ UNCHANGED <<capacity, generation, lines>>

\* List reads all entries and the names of the followers.
List(c) ==
    /\ call[c].at = "list"
    /\ Return(c)
    /\ UNCHANGED <<memory, lines>>

-----------------------------------------------------------------------------
\* How many of the oldest lines are not shown.
Skipped(e) == IF e.following_file_size > Window THEN e.following_file_size - Window ELSE 0

\* Timeline.  The first message is "Set Stream": the stream becomes the user's
\* unless it has one, and what is not Skipped of its file is sent.
SetStream(c) ==
    /\ call[c].at = "setStream"
    /\ client_db' = [client_db EXCEPT ![find_user(username[c])].stream =
                       IF @ = NoStream THEN Stream(c) ELSE @]
    /\ call' = [call EXCEPT ![c].at = "chatting", ![c].user1 = Pointer(username[c])]
    /\ UNCHANGED <<capacity, generation, lines>>

\* Any other message goes to the user's followers, one after the other.
Post(c) ==
    /\ call[c].at = "chatting"
    /\ call' = [call EXCEPT ![c].at = "deliver", ![c].user1 = Pointer(username[c]), ![c].it = 1,
                            ![c].size = Len(client_db[find_user(username[c])].client_followers)]
    /\ UNCHANGED <<memory, lines>>

\* The loop's test, and the follower's stream.
Deliver(c) ==
    /\ call[c].at = "deliver"
    /\ IF AtFollower(c)
       THEN call' = [call EXCEPT ![c].at = "count", ![c].user2 = Follower(c)]
       ELSE call' = [call EXCEPT ![c] = [At("chatting") EXCEPT !.user1 = call[c].user1]]
    /\ UNCHANGED <<memory, lines>>

Count(c) ==
    /\ call[c].at = "count"
    /\ client_db' = [client_db EXCEPT ![call[c].user2[2]].following_file_size = @ + 1]
    /\ call' = [call EXCEPT ![c].at = "append", ![c].name = Deref(call[c].user2).username]
    /\ UNCHANGED <<capacity, generation, lines>>

\* Mutant of AppendLine: only connected followers get the line.
ConnectedAppendLine(c) ==
    /\ call[c].at = "append"
    /\ lines' = [lines EXCEPT ![call[c].name] = IF Deref(call[c].user2).connected
                                                 /\ Deref(call[c].user2).stream # NoStream
                                              THEN @ + 1 ELSE @]
    /\ call' = [call EXCEPT ![c].at = "deliver", ![c].it = @ + 1,
                            ![c].name = "", ![c].user2 = NoPointer]
    /\ UNCHANGED memory

\* The line gets into the file when following_file goes out of scope.
AppendLine(c) ==
    /\ call[c].at = "append"
    /\ lines' = [lines EXCEPT ![call[c].name] = @ + 1]
    /\ call' = [call EXCEPT ![c].at = "deliver", ![c].it = @ + 1,
                            ![c].name = "", ![c].user2 = NoPointer]
    /\ UNCHANGED memory

Serve(c) ==
    \/ LoginFind(c) \/ LoginPush(c)
    \/ Follow(c) \/ PushFollowing(c) \/ PushFollowers(c)
    \/ UnFollow(c) \/ EraseFollowing(c) \/ EraseFollowers(c)
    \/ List(c)
    \/ SetStream(c) \/ Deliver(c) \/ Count(c) \/ AppendLine(c)

\* A Timeline call of a killed client notices it: connected of the entry that its
\* last message was of, or of none at all if there was no message.
EndTimeline(e) ==
    /\ IF e.c = NoPointer \/ ~Valid(e.c)
       THEN /\ wild' = IF e.c = NoPointer THEN "unset" ELSE "moved"
            /\ UNCHANGED client_db
       ELSE /\ client_db' = [client_db EXCEPT ![e.c[2]].connected = FALSE]
            /\ UNCHANGED wild
    /\ ending' = ending \ {e}
    /\ UNCHANGED <<capacity, generation, lines, username, life, call, left, restarts>>

-----------------------------------------------------------------------------
\* The clients of tsc.cc.
Command(c) ==
    /\ call[c].at = "prompt"
    /\ left > 0
    /\ left' = left - 1
    /\ \/ \E place \in {"follow", "unfollow"}, u \in Users :
            call' = [call EXCEPT ![c].at = place, ![c].name = u]
       \/ Goto(c, "list")
    /\ UNCHANGED <<memory, lines, username, life, ending, restarts, wild>>

EnterTimeline(c) ==
    /\ call[c].at = "prompt"
    /\ Goto(c, "setStream")
    /\ UNCHANGED <<memory, lines, username, life, ending, left, restarts, wild>>

SendPost(c) ==
    /\ left > 0
    /\ left' = left - 1
    /\ ~Faulty(c)
    /\ Post(c)
    /\ UNCHANGED <<username, life, ending, restarts, wild>>

Kill(c) ==
    /\ left > 0
    /\ left' = left - 1
    /\ \/ /\ call[c].at \in {"prompt", "stuck"}
          /\ UNCHANGED ending
       \/ /\ call[c].at \in {"setStream", "chatting"}
          /\ ending' = ending \cup {[stream |-> Stream(c), c |-> call[c].user1]}
    /\ life' = [life EXCEPT ![c] = @ + 1]
    /\ call' = [call EXCEPT ![c] = At("login")]
    /\ UNCHANGED <<memory, lines, username, restarts, wild>>

\* The server is killed and started again: its memory is lost and the files stay.
\* A client whose call fails logs in again, one at its prompt does not notice, and
\* one in the timeline never leaves it.
Restart ==
    /\ left > 0
    /\ left' = left - 1
    /\ restarts' = restarts + 1
    /\ client_db' = <<>>
    /\ capacity' = 0
    /\ generation' = 0
    /\ ending' = {}
    /\ call' = [c \in Clients |-> IF call[c].at \in InCall THEN At("login")
                                  ELSE IF call[c].at \in InTimeline THEN At("stuck")
                                  ELSE call[c]]
    /\ UNCHANGED <<lines, username, life, wild>>

Run(c) ==
    \/ Misbehave(c)
    \/ ~Faulty(c) /\ Serve(c) /\ UNCHANGED <<username, life, ending, left, restarts, wild>>
    \/ Command(c)
    \/ EnterTimeline(c)
    \/ SendPost(c)
    \/ Kill(c)

ServiceNext ==
    /\ wild = "no"
    /\ \/ \E c \in Clients : Run(c)
       \/ \E e \in ending : EndTimeline(e)
       \/ Restart

ServiceSpec == ServiceInit /\ [][ServiceNext]_serviceVars

=============================================================================
