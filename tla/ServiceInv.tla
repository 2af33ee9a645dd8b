---------------------------- MODULE ServiceInv ----------------------------
(***************************************************************************)
(* What holds of the service of SNSService as long as it has done nothing  *)
(* undefined, and what it takes for it to do so.                           *)
(***************************************************************************)
EXTENDS SNSService

Pointers == (0..generation) \X (0..Len(client_db))

CallTypeOK(k) ==
    /\ k.at \in {"prompt", "stuck"} \cup InCall \cup InTimeline
    /\ k.name \in Users \cup {""}
    /\ {k.user1, k.user2} \subseteq Pointers
    /\ k.it \in Nat
    /\ k.size \in Nat

EntryTypeOK(e) ==
    /\ e.username \in Users
    /\ e.connected \in BOOLEAN
    /\ e.following_file_size \in Nat
    /\ ToSet(e.client_followers) \cup ToSet(e.client_following) \subseteq Pointers
    /\ e.stream = NoStream \/ e.stream \in Clients \X Nat

(***************************************************************************)
(* The types of the variables: above all, every pointer is to a place that *)
(* the vector had in some generation, and client_db fits its memory.       *)
(***************************************************************************)
ServiceTypeOK ==
    /\ Len(client_db) <= capacity
    /\ capacity <= 2 * Len(client_db)
    /\ \A i \in DOMAIN client_db : EntryTypeOK(client_db[i])
    /\ lines \in [Users -> Nat]
    /\ username \in [Clients -> Users]
    /\ life \in [Clients -> 0..MaxEvents]
    /\ \A c \in Clients : CallTypeOK(call[c])
    /\ \A e \in ending : e.c \in Pointers
    /\ wild \in Undefined \cup {"no"}

-----------------------------------------------------------------------------
Alone(c) == \A d \in Clients \ {c} : username[d] # username[c]
Twins == \E c \in Clients : ~Alone(c)

(***************************************************************************)
(* A user is entered once (tsd.cc:231-234), also by clients that come back *)
(* while a call of their last life is still there, unless two clients of   *)
(* one user log in together.                                               *)
(***************************************************************************)
OneEntryEach ==
    \A i, j \in DOMAIN client_db :
        client_db[i].username = client_db[j].username /\ i # j =>
            \E c \in Clients : username[c] = client_db[i].username /\ ~Alone(c)

\* How often place j occurs in a vector of pointers, of whatever generation.
Occurrences(s, j) == Cardinality({k \in DOMAIN s : s[k][2] = j})

\* The calls that are between their two changes of the pair of i and j.
Halfway(i, j) ==
    {c \in Clients : /\ call[c].at \in {"pushFollowers", "eraseFollowers"}
                     /\ call[c].user1[2] = i /\ call[c].user2[2] = j}

(***************************************************************************)
(* Follow and UnFollow change two users' vectors one after the other       *)
(* without a lock (tsd.cc:199-200, 220-221): whoever else logs in, follows *)
(* and unfollows meanwhile, and though a user can be followed again after  *)
(* the vector has moved, the two sides list each other equally often but   *)
(* for the calls that are halfway.                                         *)
(***************************************************************************)
FollowsAgree ==
    wild = "no" => \A i, j \in DOMAIN client_db :
        Halfway(i, j) = {} =>
            Occurrences(client_db[i].client_following, j)
              = Occurrences(client_db[j].client_followers, i)

(***************************************************************************)
(* Following_file_size counts the lines of following.txt since the process *)
(* started (tsd.cc:304-306), ahead of the file by the lines not flushed:   *)
(* the timeline never leaves out any of the newest Window lines, but those *)
(* that are being written when it reads the file (tsd.cc:275-286).         *)
(***************************************************************************)
NewestAreShown ==
    \A i \in DOMAIN client_db :
        LET u == client_db[i].username
            unwritten == {c \in Clients : call[c].at = "append" /\ call[c].name = u}
        IN /\ client_db[i].following_file_size <= lines[u] + Cardinality(unwritten)
           /\ unwritten = {} /\ lines[u] >= Window => Skipped(client_db[i]) <= lines[u] - Window

(***************************************************************************)
(* What is undefined takes its cause: a call of an unknown user takes a    *)
(* restart that its client has not noticed (tsd.cc:193, 258); a message to *)
(* a finished stream, or an unset c at the end of the timeline, a client   *)
(* that was killed (tsd.cc:300, 312); erase(end()), two clients of one     *)
(* user (tsd.cc:220); a dangling pointer, a vector that has moved          *)
(* (tsd.cc:234).  Nothing else that clients do at the same time leads to   *)
(* any of these.                                                           *)
(***************************************************************************)
UndefinedHasACause ==
    /\ wild = "no user" => restarts > 0
    /\ wild \in {"dead stream", "unset"} => \E c \in Clients : life[c] > 0
    /\ wild = "erase end" => Twins
    /\ wild = "moved" => generation > 1

(***************************************************************************)
(* A user in the timeline whose client is the first and only one gets what *)
(* its followings post while it is there: its entry is connected and has   *)
(* its stream (tsd.cc:272, 299).  After a kill that need not be: the call  *)
(* of the last life takes connected back, or its stream stays for good.    *)
(***************************************************************************)
ChattersAreReached ==
    \A c \in Clients :
        Alone(c) /\ life[c] = 0 /\ call[c].at \in InTimeline \ {"setStream"} =>
            LET e == client_db[find_user(username[c])]
            IN e.connected /\ e.stream = Stream(c)

-----------------------------------------------------------------------------
(***************************************************************************)
(* The inductive invariant that the properties follow from.                *)
(***************************************************************************)
Places == Nat \X Nat

Entries ==
    [username : Users, connected : BOOLEAN, following_file_size : Nat,
     client_followers : Seq(Places), client_following : Seq(Places),
     stream : {NoStream} \cup (Clients \X Nat)]

Calls ==
    [at : {"prompt", "stuck"} \cup InCall \cup InTimeline, name : Users \cup {""},
     user1 : Places, user2 : Places, it : Nat, size : Nat]

ShapeOK ==
    /\ client_db \in Seq(Entries)
    /\ capacity \in Nat /\ generation \in Nat /\ left \in Nat /\ restarts \in Nat
    /\ lines \in [Users -> Nat]
    /\ username \in [Clients -> Users]
    /\ life \in [Clients -> Nat]
    /\ call \in [Clients -> Calls]
    /\ ending \subseteq [stream : Clients \X Nat, c : Places]
    /\ wild \in Undefined \cup {"no"}

(***************************************************************************)
(* The vector's memory has room for its entries, and there is none before  *)
(* the first generation; a kill takes one of the environment's events.     *)
(***************************************************************************)
MemoryInv ==
    /\ Len(client_db) <= capacity
    /\ capacity <= 2 * Len(client_db)
    /\ capacity > 0 => generation > 0
    /\ \A c \in Clients : life[c] + left <= MaxEvents

\* A pointer to an entry, in memory that the vector has or had.
Placed(p) == p \in (1..generation) \X (1..Len(client_db))

PairCalls == {"pushFollowing", "pushFollowers", "eraseFollowing", "eraseFollowers"}
PostCalls == {"deliver", "count", "append"}

\* Whose entry a pointer is to.
IsOf(p, c) == Placed(p) /\ client_db[p[2]].username = username[c]

(***************************************************************************)
(* The pointers of a call: user1 is to the entry of the client's user, and *)
(* Follow and UnFollow have looked both up in the same generation.         *)
(***************************************************************************)
CallInv(k, c) ==
    /\ IF k.at \in PairCalls \cup PostCalls \cup {"chatting"} THEN IsOf(k.user1, c)
                                                             ELSE k.user1 = NoPointer
    /\ IF k.at \in PairCalls \cup {"count", "append"} THEN Placed(k.user2)
                                                     ELSE k.user2 = NoPointer
    /\ k.at \in PairCalls => k.user1[1] = k.user2[1]
    /\ k.at \in PostCalls => k.it > 0
    /\ k.at = "append" => k.name \in Users

PointersInv ==
    /\ \A i \in DOMAIN client_db :
         \A p \in ToSet(client_db[i].client_followers) \cup ToSet(client_db[i].client_following) : Placed(p)
    /\ \A c \in Clients : CallInv(call[c], c)
    /\ \A e \in ending : e.c = NoPointer \/ IsOf(e.c, e.stream[1])

(***************************************************************************)
(* A user who is about to be entered has no entry, unless a twin enters    *)
(* it; a client that has logged in has one, unless the server restarted.   *)
(***************************************************************************)
LoginInv ==
    \A c \in Clients :
        /\ call[c].at = "push" /\ Alone(c) =>
             \A i \in DOMAIN client_db : client_db[i].username # username[c]
        /\ restarts = 0 /\ call[c].at \notin {"login", "push"} =>
             \E i \in DOMAIN client_db : client_db[i].username = username[c]

Chatting == InTimeline \ {"setStream"}

(***************************************************************************)
(* The stream of an entry is of a client of its user: of this life of it   *)
(* only if the client is in the timeline.  A client there has set one, and *)
(* calls that are ending are of former lives.                              *)
(***************************************************************************)
StreamsInv ==
    /\ \A i \in DOMAIN client_db :
         LET s == client_db[i].stream
         IN s # NoStream =>
              /\ username[s[1]] = client_db[i].username
              /\ s[2] <= life[s[1]]
              /\ s[2] = life[s[1]] => call[s[1]].at \in Chatting
    /\ \A c \in Clients, i \in DOMAIN client_db :
         Alone(c) /\ call[c].at \in Chatting /\ client_db[i].username = username[c]
           => client_db[i].stream # NoStream
    /\ \A e \in ending : e.stream[2] < life[e.stream[1]]

\* Only a killed client's call makes the entry of its user unconnected.
ConnectedInv ==
    \A i \in DOMAIN client_db, c \in Clients :
        client_db[i].username = username[c] /\ Alone(c) /\ life[c] = 0 => client_db[i].connected

(***************************************************************************)
(* FollowsAgree for the pointers of some of the generations, and by how    *)
(* much the two sides differ when calls are halfway.                       *)
(***************************************************************************)
Tally(s, gens, j) == Cardinality({k \in DOMAIN s : s[k][1] \in gens /\ s[k][2] = j})

Pairs(place, gens, i, j) ==
    {c \in Clients : /\ call[c].at = place
                     /\ call[c].user1[1] \in gens
                     /\ call[c].user1[2] = i /\ call[c].user2[2] = j}

Balanced(gens, i, j) ==
    Tally(client_db[i].client_following, gens, j)
        + Cardinality(Pairs("eraseFollowers", gens, i, j))
      = Tally(client_db[j].client_followers, gens, i)
        + Cardinality(Pairs("pushFollowers", gens, i, j))

LinksInv == \A gens \in SUBSET Nat : \A i, j \in DOMAIN client_db : Balanced(gens, i, j)

\* What UnFollow has found is still there, unless a twin erases it.
EraseInv ==
    ~Twins => \A c \in Clients :
        call[c].at = "eraseFollowing" =>
            call[c].user2 \in ToSet(client_db[call[c].user1[2]].client_following)

ServiceInvariant ==
    /\ ShapeOK /\ MemoryInv /\ PointersInv /\ LoginInv /\ StreamsInv /\ ConnectedInv
    /\ LinksInv /\ EraseInv
    /\ OneEntryEach /\ NewestAreShown /\ UndefinedHasACause

===========================================================================
