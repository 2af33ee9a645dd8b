----------------------------- MODULE MCService -----------------------------
EXTENDS ServiceInv, TLC

MCSymmetry == Permutations(Clients) \cup Permutations(Users)

\* The state after two logins and a command: c follows d.  The others are yet to
\* log in.
Followed(c, d) ==
    /\ username[c] # username[d]
    /\ client_db = << [Entry(username[c]) EXCEPT !.client_following = <<<<2, 2>>>>],
                      [Entry(username[d]) EXCEPT !.client_followers = <<<<2, 1>>>>] >>
    /\ capacity = 2
    /\ generation = 2
    /\ lines = [u \in Users |-> 0]
    /\ life = [e \in Clients |-> 0]
    /\ call = [e \in Clients |-> At(IF e \in {c, d} THEN "prompt" ELSE "login")]
    /\ ending = {}
    /\ left = MaxEvents
    /\ restarts = 0
    /\ wild = "no"

MCInit ==
    \/ InitWith(MaxEvents - 1)
    \/ /\ username \in [Clients -> Users]
       /\ \E c, d \in Clients : Followed(c, d)

MCSpec == MCInit /\ [][ServiceNext]_serviceVars
=============================================================================
