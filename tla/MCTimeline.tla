----------------------------- MODULE MCTimeline -----------------------------
EXTENDS TimelineHistory, TLC

MCSymmetry == Permutations(Users)

\* The state after two logins and two commands: the users follow each other.
Friends ==
    /\ dir = TRUE
    /\ user_names \in SetToSeqs(Users)
    /\ file = [f \in Files |-> LET other == SetToSeq(Users \ {f[2]})
                               IN IF f[1] = "following" THEN <<f[2]>> \o other ELSE other]
    /\ timeline = [u \in Users |-> <<>>]
    /\ temp = NoFile
    /\ server = "up"
    /\ all_user_vect = Users
    /\ session_user_vect = Users
    /\ username_to_srw = [u \in Users |-> "none"]
    /\ handler = [u \in Users |-> NoCall]
    /\ at = [u \in Users |-> "prompt"]
    /\ arg = [u \in Users |-> u]
    /\ shown = [u \in Users |-> {}]
    /\ posted = [u \in Users |-> 0]
    /\ commands = 0
    /\ crashes = 0
    /\ kills = 0

MCInit == (FilesInit \/ Friends) /\ damaged = {} /\ early = {}

MCSpec == MCInit /\ [][HistoryNext]_historyVars

MCFriendsSpec == Friends /\ damaged = {} /\ early = {} /\ [][HistoryNext]_historyVars
=============================================================================
