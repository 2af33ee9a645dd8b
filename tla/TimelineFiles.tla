--------------------------- MODULE TimelineFiles ---------------------------
(***************************************************************************)
(* The microblog of intro-grpc: its server (tsd.cc), which keeps its users *)
(* in memory and who follows whom and every timeline in files, and its     *)
(* clients (tsc.cc, client.h).  gRPC runs each call in a thread of its     *)
(* own; no lock guards the vectors, the map or the files.  The server may  *)
(* die between any two steps, and the files stay as they are.              *)
(*                                                                         *)
(* A step is one access to a file or to what the threads share.  A file    *)
(* that is read or copied line by line is read or copied in one step.      *)
(* Opening a file creates it (ios::app), so a missing file is an empty     *)
(* one, save temp.txt, which rename may find missing.                      *)
(***************************************************************************)
EXTENDS Naturals, SequencesExt

CONSTANTS
    Users,
    NoFile,        \* temp.txt is not there
    Window,        \* how many posts a timeline starts with, the literal 20
    MaxCommands,   \* bound: FOLLOW and UNFOLLOW commands that have an effect
    MaxPosts,      \* bound: posts of each user
    MaxCrashes,    \* bound: how often the server dies
    MaxKills       \* bound: how many clients are killed

ASSUME FileAssumption == NoFile \notin Seq(Users)
ASSUME WindowAssumption == Window \in Nat \ {0}
ASSUME FilesBoundAssumption == {MaxCommands, MaxPosts, MaxCrashes, MaxKills} \subseteq Nat

VARIABLES
    dir,         \* UserInfo exists
    user_names,  \* the lines of user_names.txt
    file,        \* the lines of <user>_following.txt and <user>_followers.txt
    timeline,    \* user -> the posts in <user>_timeline.txt
    temp,        \* the lines of temp.txt, which all UnFollow calls use
    server,      \* "down", or how far RunServer is
    all_user_vect,
    session_user_vect,
    username_to_srw,  \* user -> "none", or whether the call of its stream goes on
    handler,     \* user -> the thread of its Timeline call: pc and local vector
    at,          \* client -> where it is, inside a call: where its thread is
    arg,         \* client -> the argument of its command
    shown,       \* client -> the posts its running Timeline call has sent it
    posted, commands, crashes, kills

diskVars == <<dir, user_names, file, timeline, temp>>
memoryVars == <<server, all_user_vect, session_user_vect, username_to_srw>>
clientVars == <<at, arg, shown>>
countVars == <<posted, commands, crashes, kills>>
fileVars == <<diskVars, memoryVars, handler, clientVars, countVars>>

Following(u) == <<"following", u>>
Followers(u) == <<"followers", u>>
Files == {"following", "followers"} \X Users

Posts == Users \X (1..MaxPosts)

LoginPCs == {"login", "addName", "addSelf"}
FollowPCs == {"addFollower", "addFollowing"}
UnFollowPCs == {"copyFollowing", "removeFollowing", "renameFollowing",
                "copyFollowers", "removeFollowers", "renameFollowers"}

NoCall == [pc |-> "none", users |-> <<>>]

FilesTypeOK ==
    /\ dir \in BOOLEAN
    /\ user_names \in Seq(Users)
    /\ file \in [Files -> Seq(Users)]
    /\ timeline \in [Users -> Seq(Posts)]
    /\ temp \in Seq(Users) \cup {NoFile}
    /\ server \in {"down", "listening", "mkdir", "up"}
    /\ all_user_vect \subseteq Users
    /\ session_user_vect \subseteq Users
    /\ username_to_srw \in [Users -> {"none", "live", "dead"}]
    /\ handler \in [Users -> [pc : {"none", "enter", "read", "write", "store"},
                              users : Seq(Users)]]
    /\ at \in [Users -> {"out", "prompt", "timeline"}
                           \cup LoginPCs \cup FollowPCs \cup UnFollowPCs]
    /\ arg \in [Users -> Users]
    /\ shown \in [Users -> SUBSET Posts]
    /\ posted \in [Users -> 0..MaxPosts]
    /\ commands \in 0..MaxCommands
    /\ crashes \in 0..MaxCrashes
    /\ kills \in 0..MaxKills

FilesInit ==
    /\ dir = FALSE
    /\ user_names = <<>>
    /\ file = [f \in Files |-> <<>>]
    /\ timeline = [u \in Users |-> <<>>]
    /\ temp = NoFile
    /\ server = "down"
    /\ all_user_vect = {}
    /\ session_user_vect = {}
    /\ username_to_srw = [u \in Users |-> "none"]
    /\ handler = [u \in Users |-> NoCall]
    /\ at = [u \in Users |-> "out"]
    /\ arg = [u \in Users |-> u]
    /\ shown = [u \in Users |-> {}]
    /\ posted = [u \in Users |-> 0]
    /\ commands = 0
    /\ crashes = 0
    /\ kills = 0

\* The call of client u is at the statement here, and goes on to there; a call
\* that has returned has no argument.
Step(u, here, there) ==
    /\ at[u] = here
    /\ at' = [at EXCEPT ![u] = there]
    /\ arg' = [arg EXCEPT ![u] = IF there = "prompt" THEN u ELSE @]

\* A line is added to a file; without the directory the file does not open.
AddLine(f, line) == file' = IF dir THEN [file EXCEPT ![f] = Append(@, line)] ELSE file

-----------------------------------------------------------------------------
\* RunServer: the port is open before the directory is there and before the
\* users are read.
BuildAndStart ==
    /\ server = "down"
    /\ server' = "listening"
    /\ UNCHANGED <<diskVars, all_user_vect, session_user_vect, username_to_srw,
                   handler, clientVars, countVars>>

MakeDir ==
    /\ server = "listening"
    /\ server' = "mkdir"
    /\ dir' = TRUE
    /\ UNCHANGED <<user_names, file, timeline, temp, all_user_vect,
                   session_user_vect, username_to_srw, handler, clientVars, countVars>>

collect_users ==
    /\ server = "mkdir"
    /\ server' = "up"
    /\ all_user_vect' = all_user_vect \cup ToSet(user_names)
    /\ UNCHANGED <<diskVars, session_user_vect, username_to_srw, handler,
                   clientVars, countVars>>

\* What the death of the server leaves: no vectors, no map, no threads.  A
\* client whose login fails exits, one whose command fails prompts again, one in
\* the timeline stays there for ever.
Dies ==
    /\ crashes < MaxCrashes
    /\ crashes' = crashes + 1
    /\ server' = "down"
    /\ all_user_vect' = {}
    /\ session_user_vect' = {}
    /\ username_to_srw' = [u \in Users |-> "none"]
    /\ handler' = [u \in Users |-> NoCall]
    /\ at' = [u \in Users |-> CASE at[u] \in LoginPCs -> "out"
                                [] at[u] \in FollowPCs \cup UnFollowPCs -> "prompt"
                                [] OTHER -> at[u]]
    /\ arg' = [u \in Users |-> u]
    /\ shown' = [u \in Users |-> {}]
    /\ UNCHANGED <<diskVars, posted, commands, kills>>

Crash == server # "down" /\ Dies

-----------------------------------------------------------------------------
\* A client starts, connects and calls Login; the last one of this user has gone
\* and its Timeline call has ended.
StartClient(u) ==
    /\ server # "down"
    /\ handler[u] = NoCall
    /\ Step(u, "out", "login")
    /\ UNCHANGED <<diskVars, memoryVars, handler, shown, countVars>>

\* A user of this server process's session is refused, and the client exits.
Login(u) ==
    /\ \/ /\ u \in session_user_vect
          /\ Step(u, "login", "out")
          /\ UNCHANGED <<all_user_vect, session_user_vect>>
       \/ /\ u \notin session_user_vect
          /\ Step(u, "login", IF u \in all_user_vect THEN "prompt" ELSE "addName")
          /\ session_user_vect' = session_user_vect \cup {u}
          /\ all_user_vect' = all_user_vect \cup {u}
    /\ UNCHANGED <<diskVars, server, username_to_srw, handler, shown, countVars>>

\* Mutant of AddName: user_names.txt is opened without ios::app.
TruncatingAddName(u) ==
    /\ Step(u, "addName", "addSelf")
    /\ user_names' = IF dir THEN <<u>> ELSE user_names
    /\ UNCHANGED <<dir, file, timeline, temp, memoryVars, handler, shown, countVars>>

\* create_user_files of a user who is not in all_user_vect.
AddName(u) ==
    /\ Step(u, "addName", "addSelf")
    /\ user_names' = IF dir THEN Append(user_names, u) ELSE user_names
    /\ UNCHANGED <<dir, file, timeline, temp, memoryVars, handler, shown, countVars>>

AddSelf(u) ==
    /\ Step(u, "addSelf", "prompt")
    /\ AddLine(Following(u), u)
    /\ UNCHANGED <<dir, user_names, timeline, temp, memoryVars, handler, shown,
                   countVars>>

-----------------------------------------------------------------------------
\* The user gives a command with the name v to a server that answers.  Commands
\* the server refuses change nothing and are left out.
Command(u, v, statement) ==
    /\ server # "down"
    /\ commands < MaxCommands
    /\ commands' = commands + 1
    /\ at[u] = "prompt"
    /\ at' = [at EXCEPT ![u] = statement]
    /\ arg' = [arg EXCEPT ![u] = v]
    /\ UNCHANGED <<diskVars, memoryVars, handler, shown, posted, crashes, kills>>

Knows(u, v) == v \in all_user_vect
Follows(u, v) == v \in ToSet(file[Following(u)])

\* Mutant of Follow: the test for users already followed is forgotten.
RepeatingFollow(u, v) ==
    /\ Knows(u, v)
    /\ Command(u, v, "addFollower")

Follow(u, v) ==
    /\ Knows(u, v) /\ ~Follows(u, v)
    /\ Command(u, v, "addFollower")

AddFollower(u) ==
    /\ Step(u, "addFollower", "addFollowing")
    /\ AddLine(Followers(arg[u]), u)
    /\ UNCHANGED <<dir, user_names, timeline, temp, memoryVars, handler, shown,
                   countVars>>

AddFollowing(u) ==
    /\ Step(u, "addFollowing", "prompt")
    /\ AddLine(Following(u), arg[u])
    /\ UNCHANGED <<dir, user_names, timeline, temp, memoryVars, handler, shown,
                   countVars>>

UnFollow(u, v) ==
    /\ Knows(u, v) /\ Follows(u, v) /\ u # v
    /\ Command(u, v, "copyFollowing")

\* The lines of a file but those that say line, copied one after the other.
Without(lines, line) ==
    LET kept[i \in 0..Len(lines)] ==
          IF i = 0 THEN <<>>
          ELSE IF lines[i] = line THEN kept[i - 1] ELSE Append(kept[i - 1], lines[i])
    IN kept[Len(lines)]

\* erase_line_from_file: all lines but one are written to temp.txt, the file is
\* removed, and temp.txt, if it is still there, takes its name.
CopyLines(f, line) ==
    /\ temp' = Without(file[f], line)
    /\ UNCHANGED file

RemoveFile(f) ==
    /\ file' = [file EXCEPT ![f] = <<>>]
    /\ UNCHANGED temp

\* Mutant of RenameTemp: a missing temp.txt is not noticed.
BlindRenameTemp(f) ==
    /\ file' = [file EXCEPT ![f] = temp]
    /\ temp' = NoFile

RenameTemp(f) ==
    /\ file' = IF temp = NoFile THEN file ELSE [file EXCEPT ![f] = temp]
    /\ temp' = NoFile

\* Mutant of EraseLine: the two files in the other order.
SwappedEraseLine(u) ==
    /\ \/ /\ Step(u, "copyFollowing", "removeFollowing")
          /\ CopyLines(Followers(arg[u]), u)
       \/ /\ Step(u, "removeFollowing", "renameFollowing")
          /\ RemoveFile(Followers(arg[u]))
       \/ /\ Step(u, "renameFollowing", "copyFollowers")
          /\ RenameTemp(Followers(arg[u]))
       \/ /\ Step(u, "copyFollowers", "removeFollowers")
          /\ CopyLines(Following(u), arg[u])
       \/ /\ Step(u, "removeFollowers", "renameFollowers")
          /\ RemoveFile(Following(u))
       \/ /\ Step(u, "renameFollowers", "prompt")
          /\ RenameTemp(Following(u))
    /\ UNCHANGED <<dir, user_names, timeline, memoryVars, handler, shown, countVars>>

\* First the other user leaves the own list, then the own name the other's.
EraseLine(u) ==
    /\ \/ /\ Step(u, "copyFollowing", "removeFollowing")
          /\ CopyLines(Following(u), arg[u])
       \/ /\ Step(u, "removeFollowing", "renameFollowing")
          /\ RemoveFile(Following(u))
       \/ /\ Step(u, "renameFollowing", "copyFollowers")
          /\ RenameTemp(Following(u))
       \/ /\ Step(u, "copyFollowers", "removeFollowers")
          /\ CopyLines(Followers(arg[u]), u)
       \/ /\ Step(u, "removeFollowers", "renameFollowers")
          /\ RemoveFile(Followers(arg[u]))
       \/ /\ Step(u, "renameFollowers", "prompt")
          /\ RenameTemp(Followers(arg[u]))
    /\ UNCHANGED <<dir, user_names, timeline, memoryVars, handler, shown, countVars>>

-----------------------------------------------------------------------------
\* The client calls Timeline; the handler reads whom the user follows and puts
\* its stream in the map.  Without a server the client is in the timeline, too.
EnterTimeline(u) ==
    /\ Step(u, "prompt", "timeline")
    /\ IF server # "down"
       THEN /\ handler' = [handler EXCEPT ![u] =
                             [pc |-> "enter", users |-> file[Following(u)]]]
            /\ username_to_srw' = [username_to_srw EXCEPT ![u] = "live"]
       ELSE UNCHANGED <<handler, username_to_srw>>
    /\ UNCHANGED <<diskVars, server, all_user_vect, session_user_vect, shown,
                   countVars>>

Goto(u, pc, users) == handler' = [handler EXCEPT ![u] = [pc |-> pc, users |-> users]]

\* The posts a timeline starts with: the last ones of those the user follows.
\* (get_posts_from_timeline also returns a post of nobody, which is dropped here.)
LastPosts(u) ==
    LET posts == timeline[u]
        known == {i \in DOMAIN posts : posts[i][1] \in ToSet(handler[u].users)}
    IN {posts[i] : i \in {j \in known : Cardinality({k \in known : k > j}) < Window}}

WriteLastPosts(u) ==
    /\ handler[u].pc = "enter"
    /\ shown' = [shown EXCEPT ![u] = IF at[u] = "timeline" THEN @ \cup LastPosts(u) ELSE @]
    /\ Goto(u, "read", <<>>)
    /\ UNCHANGED <<diskVars, memoryVars, at, arg, countVars>>

\* The post that the handler of u is distributing.
Post(u) == <<u, posted[u]>>

Loop(u, users) == Goto(u, IF users = <<>> THEN "read" ELSE "write", users)

ReadPost(u) ==
    /\ handler[u].pc = "read"
    /\ at[u] = "timeline"
    /\ posted[u] < MaxPosts
    /\ posted' = [posted EXCEPT ![u] = @ + 1]
    /\ Loop(u, file[Followers(u)])
    /\ UNCHANGED <<diskVars, memoryVars, clientVars, commands, crashes, kills>>

\* Mutant of WritePost: a follower who gets the post at once is not in the list
\* of those whose files are still to be written.
SavingWritePost(u) ==
    /\ handler[u].pc = "write"
    /\ LET f == Head(handler[u].users)
           write == f # u /\ username_to_srw[f] # "none"
       IN \/ /\ shown' = IF write /\ username_to_srw[f] = "live" /\ at[f] = "timeline"
                         THEN [shown EXCEPT ![f] = @ \cup {Post(u)}] ELSE shown
             /\ IF write THEN Loop(u, Tail(handler[u].users))
                         ELSE Goto(u, "store", handler[u].users)
             /\ UNCHANGED <<diskVars, memoryVars, at, arg, countVars>>
          \/ write /\ username_to_srw[f] = "dead" /\ Dies

\* The next follower is in the map: the post is written to the stream found
\* there.  The stream of a call that has ended is no more, so the write may end
\* the server or have no effect.
WritePost(u) ==
    /\ handler[u].pc = "write"
    /\ LET f == Head(handler[u].users)
           write == f # u /\ username_to_srw[f] # "none"
       IN \/ /\ shown' = IF write /\ username_to_srw[f] = "live" /\ at[f] = "timeline"
                         THEN [shown EXCEPT ![f] = @ \cup {Post(u)}] ELSE shown
             /\ Goto(u, "store", handler[u].users)
             /\ UNCHANGED <<diskVars, memoryVars, at, arg, countVars>>
          \/ write /\ username_to_srw[f] = "dead" /\ Dies

StorePost(u) ==
    /\ handler[u].pc = "store"
    /\ timeline' = IF dir THEN [timeline EXCEPT ![Head(handler[u].users)] =
                                  Append(@, Post(u))]
                          ELSE timeline
    /\ Loop(u, Tail(handler[u].users))
    /\ UNCHANGED <<dir, user_names, file, temp, memoryVars, clientVars, countVars>>

\* The user ends the client (CTRL-C), the only way out of the timeline.
Kill(u) ==
    /\ kills < MaxKills
    /\ kills' = kills + 1
    /\ at[u] \in {"prompt", "timeline"}
    /\ at' = [at EXCEPT ![u] = "out"]
    /\ shown' = [shown EXCEPT ![u] = {}]
    /\ UNCHANGED <<diskVars, memoryVars, handler, arg, posted, commands, crashes>>

\* Read returns false and Timeline returns; its stream ends with it, and the map
\* keeps the pointer.
EndTimeline(u) ==
    /\ handler[u].pc = "read"
    /\ at[u] = "out"
    /\ handler' = [handler EXCEPT ![u] = NoCall]
    /\ username_to_srw' = [username_to_srw EXCEPT ![u] = "dead"]
    /\ UNCHANGED <<diskVars, server, all_user_vect, session_user_vect,
                   clientVars, countVars>>

-----------------------------------------------------------------------------
ServerRun == BuildAndStart \/ MakeDir \/ collect_users \/ Crash

ClientRun(u) ==
    \/ StartClient(u)
    \/ Login(u)
    \/ AddName(u)
    \/ AddSelf(u)
    \/ \E v \in Users : Follow(u, v) \/ UnFollow(u, v)
    \/ AddFollower(u)
    \/ AddFollowing(u)
    \/ EraseLine(u)
    \/ EnterTimeline(u)
    \/ Kill(u)

Timeline(u) ==
    \/ WriteLastPosts(u)
    \/ ReadPost(u)
    \/ WritePost(u)
    \/ StorePost(u)
    \/ EndTimeline(u)

FilesNext == ServerRun \/ \E u \in Users : ClientRun(u) \/ Timeline(u)

FilesSpec == FilesInit /\ [][FilesNext]_fileVars

=============================================================================
