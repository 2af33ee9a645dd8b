------------------------------ MODULE FilesInv ------------------------------
(***************************************************************************)
(* The inductive invariant of TimelineHistory: what the files hold while   *)
(* calls are between two of their accesses to them, and what the threads   *)
(* of the timelines are about to do.                                       *)
(***************************************************************************)
EXTENDS TimelineHistory

HistoryTypeOK == FilesTypeOK /\ damaged \subseteq Files /\ early \subseteq Users

\* A user that is being unfollowed is another one.
ArgsInv == \A u \in Users : at[u] \in UnFollowPCs => arg[u] # u

(***************************************************************************)
(* Until the server makes its directory there are no lines, so nothing is  *)
(* erased and no post has anywhere to go.                                  *)
(***************************************************************************)
DirInv ==
    ~dir =>
        /\ \A f \in Files : file[f] = <<>>
        /\ \A u \in Users : /\ at[u] \notin UnFollowPCs
                            /\ handler[u].users = <<>>
                            /\ handler[u].pc \notin {"write", "store"}
                            /\ shown[u] = {}

(***************************************************************************)
(* A thread of a timeline that has a post to distribute has one follower   *)
(* left at least; a client at its prompt has no such thread; and only a    *)
(* client in the timeline is shown posts.                                  *)
(***************************************************************************)
HandlersInv ==
    \A u \in Users :
        /\ handler[u].pc \in {"write", "store"} => handler[u].users # <<>> /\ posted[u] # 0
        /\ at[u] \notin {"timeline", "out"} => handler[u].pc = "none"
        /\ at[u] # "timeline" => shown[u] = {}

-----------------------------------------------------------------------------
\* The erase of a file is past the removal of the file.
Renaming(u) == at[u] \in {"renameFollowing", "renameFollowers"}

\* Nothing has happened to the file, though an erase may be under way.
Sound(f) == f \notin damaged \cup Mixed

\* What the file holds, or will hold when the erase is through.
Content(f) == IF \E u \in Users : Renaming(u) /\ ErasedFile(u) = f THEN temp ELSE file[f]

\* The line that an erase leaves out.
ErasedLine(u) == IF ErasedFile(u) = Following(u) THEN arg[u] ELSE u

(***************************************************************************)
(* The erase of a sound file has temp.txt for itself, with all that is in  *)
(* the file but the erased line.                                           *)
(***************************************************************************)
TempInv ==
    \A u \in Erasers : Sound(ErasedFile(u)) =>
        /\ temp # NoFile
        /\ ~Renaming(u) => temp = Without(file[ErasedFile(u)], ErasedLine(u))

Lists(f, u) == u \in ToSet(Content(f))

\* An UnFollow has taken the name off the list of the followed.
OffTheList == {"renameFollowing", "copyFollowers", "removeFollowers", "renameFollowers"}

(***************************************************************************)
(* FollowersGetPosts for files in the hands of an erase, too; and where    *)
(* the calls are that keep it so.                                          *)
(***************************************************************************)
FollowPair(u, v) ==
    u # v /\ Sound(Followers(v)) =>
        /\ at[u] = "addFollowing" /\ arg[u] = v => Lists(Followers(v), u)
        /\ Sound(Following(u)) =>
             /\ Lists(Following(u), v) => Lists(Followers(v), u)
             /\ at[u] \in OffTheList /\ arg[u] = v => ~Lists(Following(u), v)

FollowInv == \A u, v \in Users : FollowPair(u, v)

(***************************************************************************)
(* How often a follower is listed: not at all but for the deaths of the    *)
(* server, if it does not follow and is not between the two files.         *)
(***************************************************************************)
Times(u, v) == Count(Content(Followers(v)), u)

Between(u, v) == at[u] \in OffTheList \cup {"addFollowing"} /\ arg[u] = v

CountPair(u, v) ==
    u # v /\ Sound(Following(u)) /\ Sound(Followers(v)) =>
        /\ Times(u, v) <= 1 + crashes
        /\ ~Lists(Following(u), v) /\ ~Between(u, v) => Times(u, v) <= crashes
        /\ at[u] = "renameFollowers" /\ arg[u] = v => Times(u, v) = 0
        /\ at[u] = "addFollower" /\ arg[u] = v => ~Lists(Following(u), v)

CountInv == \A u, v \in Users : CountPair(u, v)

FilesInvariant ==
    /\ HistoryTypeOK /\ ArgsInv /\ DirInv /\ HandlersInv
    /\ TempInv /\ FollowInv /\ CountInv /\ UsersSurvive /\ ShownIsStored

=============================================================================
