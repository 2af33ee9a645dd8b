-------------------------- MODULE TimelineHistory --------------------------
(***************************************************************************)
(* TimelineFiles with history variables, and what its files promise.       *)
(*                                                                         *)
(* An erase rewrites a file in three steps and through one temp.txt for    *)
(* all, so it may lose what others do to the file meanwhile, mix up two    *)
(* files, or lose one when the server dies.  Before the first server has   *)
(* made the directory, lines are written nowhere.  The properties say that *)
(* nothing else goes wrong: they speak of the files no such thing has      *)
(* happened to.                                                            *)
(***************************************************************************)
EXTENDS TimelineFiles

VARIABLES
    damaged,  \* files that have lost lines, or may have
    early     \* users entered before the server had made its directory

historyVars == <<fileVars, damaged, early>>

\* The file a thread has copied and not yet replaced.
ErasedFile(u) ==
    IF at[u] \in {"removeFollowing", "renameFollowing"} THEN Following(u)
                                                        ELSE Followers(arg[u])

Erasers == {u \in Users : at[u] \in {"removeFollowing", "renameFollowing",
                                     "removeFollowers", "renameFollowers"}}

\* Files copied into temp.txt at the same time.
Mixed == {f \in Files : /\ \E u \in Erasers : f = ErasedFile(u)
                        /\ \E u, v \in Erasers : u # v}

\* Files another thread has changed between their copy and their replacement.
Overwritten ==
    {ErasedFile(u) : u \in {w \in Erasers : /\ at'[w] = at[w]
                                            /\ file'[ErasedFile(w)] # file[ErasedFile(w)]}}

\* Files removed by a server that has died before it could replace them.
Lost == {ErasedFile(u) : u \in {w \in Erasers : /\ at[w] \in {"renameFollowing", "renameFollowers"}
                                                /\ at'[w] = "prompt" /\ server' = "down"}}

\* Files that miss a line for want of the directory.
Unwritten ==
    {Followers(arg[u]) : u \in {w \in Users : ~dir /\ at[w] = "addFollower"}}
    \cup {Following(u) : u \in {w \in Users : ~dir /\ at[w] = "addFollowing"}}

HistoryInit == FilesInit /\ damaged = {} /\ early = {}

HistoryNext ==
    /\ FilesNext
    /\ damaged' = damaged \cup Mixed \cup Overwritten \cup Lost \cup Unwritten
    /\ early' = early \cup {u \in Users : at[u] = "addName" /\ at'[u] = "addSelf" /\ ~dir}

HistorySpec == HistoryInit /\ [][HistoryNext]_historyVars

-----------------------------------------------------------------------------
\* How often a line is in a file.
Count(lines, line) == Cardinality({k \in DOMAIN lines : lines[k] = line})

\* The file of f is whole: undamaged, and not in the hands of an erase.
Whole(f) == f \notin damaged /\ \A u \in Erasers : f # ErasedFile(u)

(***************************************************************************)
(* Whoever follows a user is in the user's followers file, to which posts  *)
(* go (tsd.cc:229-230, 267-269, 334): through any interleaving of calls    *)
(* and whatever two file operations a death of the server comes between,   *)
(* for the two files are written in the order that allows only the         *)
(* opposite.                                                               *)
(***************************************************************************)
FollowersGetPosts ==
    \A u, v \in Users :
        /\ u # v
        /\ Whole(Following(u)) /\ Whole(Followers(v))
        /\ v \in ToSet(file[Following(u)])
        => u \in ToSet(file[Followers(v)])

(***************************************************************************)
(* A user the running server knows is in user_names.txt (tsd.cc:289-293),  *)
(* so a restarted server will know the user (tsd.cc:83-99), unless the     *)
(* first Login came before the directory was made (tsd.cc:367-370) or has  *)
(* not got so far.                                                         *)
(***************************************************************************)
UsersSurvive ==
    \A u \in all_user_vect : at[u] # "addName" /\ u \notin early => u \in ToSet(user_names)

(***************************************************************************)
(* A follower is listed once, so that its timeline gets a post once        *)
(* (tsd.cc:335-341), but for one more line for each time the server died:  *)
(* a death between the two writes of a Follow, or between the two erases   *)
(* of an UnFollow, is the only way a Follow can find it listed.            *)
(***************************************************************************)
ListedOnce ==
    \A u, v \in Users :
        /\ u # v
        /\ Whole(Following(u)) /\ Whole(Followers(v))
        => Count(file[Followers(v)], u) <= 1 + crashes

(***************************************************************************)
(* What a running timeline shows is in the user's timeline file, or a      *)
(* handler is about to store it (tsd.cc:338-341): live delivery never      *)
(* replaces the file.                                                      *)
(***************************************************************************)
ShownIsStored ==
    \A u \in Users :
        dir /\ username_to_srw[u] = "live" =>
            \A p \in shown[u] :
                \/ p \in ToSet(timeline[u])
                \/ \E w \in Users : /\ handler[w].pc = "store"
                                    /\ Head(handler[w].users) = u
                                    /\ Post(w) = p

(***************************************************************************)
(* UnFollow removes the current user from the other's list (design.txt:23, *)
(* the comments at tsd.cc:266-268), and nobody else: while no erase is     *)
(* under way, whoever follows a user is listed.                            *)
(***************************************************************************)
UnFollowRemovesOne ==
    Erasers = {} =>
        \A u, v \in Users :
            u # v /\ v \in ToSet(file[Following(u)]) => u \in ToSet(file[Followers(v)])

=============================================================================
