------------------------------- MODULE ChatNet -------------------------------
(***************************************************************************)
(* TCP as the chat programs (crsd.cpp, crc.cpp) use it: connections, the   *)
(* queues of connections a listening socket has not accepted yet, and what *)
(* close and send do to a connection.  All of it is the kernel's, so this  *)
(* part is external.                                                       *)
(*                                                                         *)
(* Both programs write a message in one call and read it in one call; the  *)
(* model keeps the message whole.  Ports are counted from SERVER_PORT.     *)
(***************************************************************************)
EXTENDS Integers, Sequences, FiniteSets, Functions, FiniteSetsExt

CONSTANTS
    Names,          \* room names
    MaxConns,       \* bound: connections that exist at a time
    MaxListeners    \* bound: rooms that exist at a time

ASSUME NetAssumption == MaxConns \in Nat \ {0} /\ MaxListeners \in Nat \ {0}

NoName == "-"

ASSUME NameAssumption == NoName \notin Names

\* What a user may send: a command with its argument, or a text.  A BLANK line
\* holds no word.
Verbs == {"CREATE", "JOIN", "LIST", "DELETE", "TEXT", "BLANK"}
Line(verb, arg) == [verb |-> verb, arg |-> arg]
AllLines == [verb : Verbs, arg : Names \cup {NoName}]

\* What the server sends: the answer to a command, the warning that a room is
\* going to be closed, the text of another member.
Reply(status, port, num) ==
    [kind |-> "reply", status |-> status, port |-> port, num |-> num]
Notice(kind) == [Reply("NONE", 0, 0) EXCEPT !.kind = kind]

Conns == 1..MaxConns
NoConn == 0

\* Listening sockets: Main is the server's own, the others are rooms'.
Main == 0
Listeners == 1..MaxListeners

VARIABLES
    conn,     \* connection -> its state at both ends
    backlog   \* listening socket -> connections not yet accepted, oldest first

netVars == <<conn, backlog>>

(***************************************************************************)
(* The client's end as the server's kernel knows it: "open"; "closed" by a *)
(* FIN; "provoked", closed and sent to since, so that a reset is on its    *)
(* way; "reset" by a close with unread data; "broken", when the next send  *)
(* raises SIGPIPE.                                                         *)
(***************************************************************************)
PeerStates == {"open", "closed", "provoked", "reset", "broken"}

FreeConn == [to |-> Main, up |-> <<>>, down |-> <<>>,
             peer |-> "broken", here |-> "closed"]
NewConn(l) == [FreeConn EXCEPT !.to = l, !.peer = "open", !.here = "open"]

FreeConns == {n \in Conns : conn[n] = FreeConn}

NetInit ==
    /\ conn = [n \in Conns |-> FreeConn]
    /\ backlog = [l \in Listeners \cup {Main} |-> <<>>]

\* The server closes its end; the client may still read what it was sent.
CloseHere(r) ==
    IF r.peer = "open" THEN [r EXCEPT !.here = "closed", !.up = <<>>] ELSE FreeConn

\* The client closes its end, with or without data it has not read.
ClosePeer(r, unread) ==
    IF r.here = "closed" THEN FreeConn
    ELSE [r EXCEPT !.peer = IF unread THEN "reset" ELSE "closed", !.down = <<>>]

\* The server sends m, on a connection that is not broken.
Deliver(r, m) ==
    CASE r.peer = "open"   -> [r EXCEPT !.down = Append(@, m)]
      [] r.peer = "closed" -> [r EXCEPT !.peer = "provoked"]
      [] r.peer = "reset"  -> [r EXCEPT !.peer = "broken"]
      [] OTHER             -> r

\* The client sends m; what the server has closed takes nothing.
Submit(r, m) == IF r.here = "open" THEN [r EXCEPT !.up = Append(@, m)] ELSE r

\* The server reads the message that has come first.
Consume(r) == [r EXCEPT !.up = Tail(@)]

\* The server has something to read: data, or the end.
Readable(n) == conn[n].up # <<>> \/ conn[n].peer # "open"

\* The reset that a send to a closed peer has provoked arrives.
ResetArrives(n) ==
    /\ conn[n].peer = "provoked"
    /\ conn' = [conn EXCEPT ![n].peer = "broken"]
    /\ UNCHANGED backlog

=============================================================================
