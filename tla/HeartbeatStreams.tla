-------------------------- MODULE HeartbeatStreams --------------------------
(***************************************************************************)
(* What the server processes (tsd.cc) and the coordinator (coord.cc) of    *)
(* the social network service share: the wall clock of the machine and the *)
(* gRPC streams that carry heartbeats.  The streams are gRPC's, so this    *)
(* part is external: FIFO, broken by the death of the client process or by *)
(* the network, and what was still unread when a stream breaks may be      *)
(* lost.                                                                   *)
(*                                                                         *)
(* All times are whole seconds, the unit of Timestamp.seconds (the code    *)
(* sets nanos to 0), or any coarser unit: only the ratios matter.          *)
(***************************************************************************)
EXTENDS ServerNames, Sequences

CONSTANTS
    StartTime,    \* the clock's first reading; the epoch is 0
    MaxTime       \* bound: the clock's last reading

(***************************************************************************)
(* A row the coordinator default-constructs has the epoch as its last      *)
(* heartbeat; the modelled part of time is after it.                       *)
(***************************************************************************)
ASSUME BoundAssumption == StartTime \in Nat \ {0} /\ MaxTime \in Nat

Epoch == 0

VARIABLES
    now,   \* time(NULL)
    wire,  \* stream -> timestamps of the heartbeats written and not yet read
    link   \* stream -> "unused", "open" or "broken"

streamVars == <<wire, link>>

StreamTypeOK ==
    /\ now \in Nat
    /\ wire \in [Streams -> Seq(Nat)]
    /\ link \in [Streams -> {"unused", "open", "broken"}]

StreamInit ==
    /\ now = StartTime
    /\ wire = [s \in Streams |-> <<>>]
    /\ link = [s \in Streams |-> "unused"]

=============================================================================
