----------------------------- MODULE SNSClient -----------------------------
(***************************************************************************)
(* The clients of the social network service (tsc.cc, client.h), the       *)
(* coordinator's answer to their lookups (GetServer of coord.cc), and what *)
(* a server process remembers of them: who logged in to it.                *)
(*                                                                         *)
(* A call is gRPC's: without a deadline it waits for a process that hangs, *)
(* and it fails when nobody listens at the address.  The coordinator never *)
(* fails (design.txt).  Commands that the client rejects itself change     *)
(* nothing and are left out.                                               *)
(***************************************************************************)
EXTENDS SMServer, Coordinator

CONSTANT Users   \* the numeric user ids, one client process each

ASSUME UserAssumption == Users \subseteq Int

VARIABLES
    at,      \* client -> where its thread is
    inLoop,  \* client -> past the first connectTo of run
    stub,    \* client -> the server its channel leads to, or NoServer
    joined,  \* <<client, s>>: in client_db of the process that opened stream s
    listening   \* the streams whose process has opened its port

clientVars == <<at, inLoop, stub, joined, listening>>

\* The reply of GetServer with no field set.
NoServer == <<0, "NONE">>

Places == {"askMaster", "askSlave", "login", "prompt", "command", "timeline", "exited"}

ClientTypeOK ==
    /\ at \in [Users -> Places]
    /\ inLoop \in [Users -> BOOLEAN]
    /\ stub \in [Users -> Servers \cup {NoServer}]
    /\ joined \in SUBSET (Users \X Streams)
    /\ listening \in SUBSET Streams

ClientInit ==
    /\ at = [c \in Users |-> "askMaster"]
    /\ inLoop = [c \in Users |-> FALSE]
    /\ stub = [c \in Users |-> NoServer]
    /\ joined = {}
    /\ listening = {}

\* user_id % 3 + 1 with the sign of C++: a negative id gets a cluster below 2.
ClusterOf(c) == IF c >= 0 THEN (c % NumClusters) + 1
                           ELSE 1 - ((-c) % NumClusters)

Row(c, t) == <<ClusterOf(c), t>>

Routable(c, t) == Row(c, t) \in Servers /\ Active(Row(c, t))

GoOn(c, place) == at' = [at EXCEPT ![c] = place]

\* Somebody listens at the address of x, and has a thread for the call.
Listens(x) == x # NoServer /\ process[x] # "down" /\ Current(x) \in listening
Answers(x) == Listens(x) /\ process[x] = "up"
Refuses(x) == ~Listens(x)

Knows(x, c) == <<c, Current(x)>> \in joined

-----------------------------------------------------------------------------
\* RunServer: main gets to it after it has started the heartbeat thread, so the
\* coordinator may return a server that nobody can reach yet.
OpenPort(x) ==
    /\ process[x] = "up"
    /\ Current(x) \notin listening
    /\ listening' = listening \cup {Current(x)}
    /\ UNCHANGED <<at, inLoop, stub, joined>>

\* GetServer runs in a thread of the coordinator, unlocked like all of it: the
\* tables may change between the look at the master and the look at the slave.
AskMaster(c) ==
    /\ at[c] = "askMaster"
    /\ IF Routable(c, "MASTER")
       THEN stub' = [stub EXCEPT ![c] = Row(c, "MASTER")] /\ GoOn(c, "login")
       ELSE GoOn(c, "askSlave") /\ UNCHANGED stub
    /\ UNCHANGED <<inLoop, joined, listening>>

\* Mutant of AskSlave: GetServer waits until a server of the cluster is active.
WaitingAskSlave(c) ==
    /\ at[c] = "askSlave"
    /\ Routable(c, "SLAVE")
    /\ stub' = [stub EXCEPT ![c] = Row(c, "SLAVE")]
    /\ GoOn(c, "login")
    /\ UNCHANGED <<inLoop, joined, listening>>

AskSlave(c) ==
    /\ at[c] = "askSlave"
    /\ stub' = [stub EXCEPT ![c] = IF Routable(c, "SLAVE")
                                   THEN Row(c, "SLAVE") ELSE NoServer]
    /\ GoOn(c, "login")
    /\ UNCHANGED <<inLoop, joined, listening>>

\* Login of tsd.cc enters the user unless it is there, and the client takes
\* every answer for success.
LoginServed(c) ==
    /\ at[c] = "login"
    /\ Answers(stub[c])
    /\ joined' = joined \cup {<<c, Current(stub[c])>>}
    /\ inLoop' = [inLoop EXCEPT ![c] = TRUE]
    /\ GoOn(c, "prompt")
    /\ UNCHANGED <<stub, listening>>

\* Mutant of LoginFails: connectTo drops its stub when the login fails.
DroppingLoginFails(c) ==
    /\ at[c] = "login"
    /\ Refuses(stub[c])
    /\ stub' = [stub EXCEPT ![c] = <<>>]
    /\ GoOn(c, IF inLoop[c] THEN "prompt" ELSE "exited")
    /\ UNCHANGED <<inLoop, joined, listening>>

\* run exits if its first connectTo fails and ignores the result of later ones.
LoginFails(c) ==
    /\ at[c] = "login"
    /\ Refuses(stub[c])
    /\ GoOn(c, IF inLoop[c] THEN "prompt" ELSE "exited")
    /\ UNCHANGED <<inLoop, stub, joined, listening>>

\* LIST, FOLLOW or UNFOLLOW: a call on the stub.
EnterCommand(c) ==
    /\ at[c] = "prompt"
    /\ GoOn(c, "command")
    /\ UNCHANGED <<inLoop, stub, joined, listening>>

\* Mutant of CommandServed: run reconnects on a reply that reports a failure.
ReconnectingCommand(c) ==
    /\ at[c] = "command"
    /\ Answers(stub[c])
    /\ at' \in {[at EXCEPT ![c] = place] : place \in {"prompt", "askMaster"}}
    /\ UNCHANGED <<inLoop, stub, joined, listening>>

CommandServed(c) ==
    /\ at[c] = "command"
    /\ Answers(stub[c])
    /\ GoOn(c, "prompt")
    /\ UNCHANGED <<inLoop, stub, joined, listening>>

\* Mutant of CommandFails: run goes on with the stub it has.
StayingCommandFails(c) ==
    /\ at[c] = "command"
    /\ Refuses(stub[c])
    /\ GoOn(c, "prompt")
    /\ UNCHANGED <<inLoop, stub, joined, listening>>

\* run calls connectTo after every call that failed.
CommandFails(c) ==
    /\ at[c] = "command"
    /\ Refuses(stub[c])
    /\ GoOn(c, "askMaster")
    /\ UNCHANGED <<inLoop, stub, joined, listening>>

\* TIMELINE makes no call before it enters the timeline, and the writer thread
\* of the timeline never ends, whatever becomes of the stream.
EnterTimeline(c) ==
    /\ at[c] = "prompt"
    /\ GoOn(c, "timeline")
    /\ UNCHANGED <<inLoop, stub, joined, listening>>

RunClient(c) ==
    \/ AskMaster(c)
    \/ AskSlave(c)
    \/ LoginServed(c)
    \/ LoginFails(c)
    \/ EnterCommand(c)
    \/ CommandServed(c)
    \/ CommandFails(c)
    \/ EnterTimeline(c)

=============================================================================
