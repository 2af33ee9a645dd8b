---------------------------- MODULE Coordinator ----------------------------
(***************************************************************************)
(* The coordinator process (coord.cc): the routing tables and the          *)
(* HandleHeartBeats call, which gRPC runs in one thread per stream.        *)
(*                                                                         *)
(* The tables are shared by all threads and no lock guards them, so each   *)
(* statement that touches a table is an action of its own; what a thread   *)
(* does with its own locals is part of the action before or after it.  A   *)
(* thread's statements are interleaved with the others'; memory corrupted  *)
(* by two threads inside the same container operation is not modelled.     *)
(***************************************************************************)
EXTENDS HeartbeatStreams

CONSTANT Timeout   \* seconds of silence a row survives, the literal 20

ASSUME TimeoutAssumption == Timeout \in Nat

VARIABLES
    table,         \* <<c, "MASTER">> -> master_table[c], likewise slave_table
    pc,            \* stream -> the next statement of the thread gRPC gives it
    hb_timestamp   \* stream -> the thread's local; Epoch before the first Read

coordVars == <<table, pc, hb_timestamp>>

Rows == [present: BOOLEAN, status: {"ACTIVE", "INACTIVE"}, last_hb: Nat]

\* A key the map does not hold; operator[] turns it into DefaultRow.
NoRow == [present |-> FALSE, status |-> "INACTIVE", last_hb |-> Epoch]
DefaultRow == [NoRow EXCEPT !.present = TRUE]

PCs == {"read", "assign", "checkMaster", "markMaster",
        "checkSlave", "markSlave", "ended"}

CoordTypeOK ==
    /\ table \in [Servers -> Rows]
    /\ pc \in [Streams -> PCs]
    /\ hb_timestamp \in [Streams -> Nat]

CoordInit ==
    /\ table = [x \in Servers |-> NoRow]
    /\ pc = [s \in Streams |-> "read"]
    /\ hb_timestamp = [s \in Streams |-> Epoch]

Goto(s, label) == pc' = [pc EXCEPT ![s] = label]

\* What GetServer asks of a row before it returns its server.
Active(x) == table[x].present /\ table[x].status = "ACTIVE"

\* The thread of stream s is between two Reads.
Busy(s) == pc[s] \notin {"read", "ended"}

\* The row of type t in the cluster that the thread of stream s works on.
Peer(s, t) == <<Sender(s)[1], t>>

-----------------------------------------------------------------------------
\* Read returns true, the locals are set, and operator[] of the assignment's
\* left-hand side inserts the row if the table does not hold it.
ReadHeartbeat(s) ==
    /\ pc[s] = "read"
    /\ wire[s] # <<>>
    /\ hb_timestamp' = [hb_timestamp EXCEPT ![s] = Head(wire[s])]
    /\ wire' = [wire EXCEPT ![s] = Tail(@)]
    /\ table' = [table EXCEPT ![Sender(s)] = IF @.present THEN @ ELSE DefaultRow]
    /\ Goto(s, "assign")
    /\ UNCHANGED <<now, link>>

\* Mutant of AssignRow: a heartbeat revives the row but does not date it.
StaleAssignRow(s) ==
    /\ pc[s] = "assign"
    /\ table' = [table EXCEPT ![Sender(s)].status = "ACTIVE"]
    /\ Goto(s, "checkMaster")
    /\ UNCHANGED <<now, streamVars, hb_timestamp>>

\* Mutant of AssignRow: a heartbeat dates the row but does not revive an old one.
InactiveAssignRow(s) ==
    /\ pc[s] = "assign"
    /\ table' = [table EXCEPT
                   ![Sender(s)].last_hb = hb_timestamp[s],
                   ![Sender(s)].status = IF table[Sender(s)].last_hb = Epoch
                                         THEN "ACTIVE" ELSE @]
    /\ Goto(s, "checkMaster")
    /\ UNCHANGED <<now, streamVars, hb_timestamp>>

\* The assignment proper: the sender's row is ACTIVE as of this heartbeat.
AssignRow(s) ==
    /\ pc[s] = "assign"
    /\ table' = [table EXCEPT ![Sender(s)] =
                   [present |-> TRUE, status |-> "ACTIVE",
                    last_hb |-> hb_timestamp[s]]]
    /\ Goto(s, "checkMaster")
    /\ UNCHANGED <<now, streamVars, hb_timestamp>>

\* Mutants of Expired: one second early, and one whole timeout late.
ExpiredEarly(row, ts) == row.present /\ ts - row.last_hb >= Timeout
ExpiredLate(row, ts) == row.present /\ ts - row.last_hb > 2 * Timeout

\* difftime(hb_timestamp, last) > 20, on a row that is there.
Expired(row, ts) == row.present /\ ts - row.last_hb > Timeout

\* The test of one table's row of the cluster: its last heartbeat is read and
\* compared here, the status is written by a later statement.
CheckRow(s, t, here, mark, next) ==
    /\ pc[s] = here
    /\ Goto(s, IF Expired(table[Peer(s, t)], hb_timestamp[s]) THEN mark ELSE next)
    /\ UNCHANGED <<now, streamVars, table, hb_timestamp>>

MarkRow(s, t, here, next) ==
    /\ pc[s] = here
    /\ table' = [table EXCEPT ![Peer(s, t)].status = "INACTIVE"]
    /\ Goto(s, next)
    /\ UNCHANGED <<now, streamVars, hb_timestamp>>

CheckMaster(s) == CheckRow(s, "MASTER", "checkMaster", "markMaster", "checkSlave")
MarkMaster(s) == MarkRow(s, "MASTER", "markMaster", "checkSlave")
CheckSlave(s) == CheckRow(s, "SLAVE", "checkSlave", "markSlave", "read")
MarkSlave(s) == MarkRow(s, "SLAVE", "markSlave", "read")

\* Mutant of Deactivate: it also marks the row as never heard of.
UnsetDeactivate(x) ==
    table' = [table EXCEPT ![x] =
                [present |-> TRUE, status |-> "INACTIVE", last_hb |-> -1]]

\* operator[] and the write of status after the loop.
Deactivate(x) ==
    table' = [table EXCEPT ![x] =
                [present |-> TRUE, status |-> "INACTIVE", last_hb |-> @.last_hb]]

\* Read returns false on a broken stream, whatever it still held.  The row to
\* deactivate is named by the locals type and cluster_id.  If no heartbeat was
\* ever read they are uninitialised: any row, or none when type happens to be
\* neither MASTER nor SLAVE or cluster_id is no cluster's.
EndOfStream(s) ==
    /\ pc[s] = "read"
    /\ link[s] = "broken"
    /\ IF hb_timestamp[s] # Epoch
       THEN Deactivate(Sender(s))
       ELSE \/ \E x \in Servers : Deactivate(x)
            \/ UNCHANGED table
    /\ wire' = [wire EXCEPT ![s] = <<>>]
    /\ Goto(s, "ended")
    /\ UNCHANGED <<now, link, hb_timestamp>>

HandleHeartBeats(s) ==
    \/ ReadHeartbeat(s)
    \/ AssignRow(s)
    \/ CheckMaster(s)
    \/ MarkMaster(s)
    \/ CheckSlave(s)
    \/ MarkSlave(s)
    \/ EndOfStream(s)

=============================================================================
