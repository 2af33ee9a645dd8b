----------------------------- MODULE FailoverInv -----------------------------
(***************************************************************************)
(* The inductive invariant behind the properties of Failover: TimingInv    *)
(* for FreshRows and OnlyStreamEndDeactivates, the rest of FailureInv for  *)
(* ActiveRowsAreRecent and NoSpuriousSuspicion.                            *)
(***************************************************************************)
EXTENDS Failover

\* A running process has opened a stream, and a stream of a start still to
\* come is untouched.
StreamsInv ==
    /\ \A x \in Servers : process[x] # "down" => starts[x] >= 1
    /\ \A s \in Streams :
         s[2] > starts[s[1]] => /\ link[s] = "unused"
                                /\ wire[s] = <<>>
                                /\ pc[s] = "read"
                                /\ hb_timestamp[s] = Epoch

\* Clock readings that are around were taken in the modelled past, and what is
\* still being handled was taken at most MaxDelay ago.
ClockInv ==
    /\ now >= StartTime
    /\ \A x \in Servers : since[x] <= now
    /\ \A s \in Streams :
         /\ \A i \in 1..Len(wire[s]) :
              /\ StartTime <= wire[s][i]
              /\ wire[s][i] <= now
              /\ now <= wire[s][i] + MaxDelay
         /\ hb_timestamp[s] <= now
         /\ Busy(s) => hb_timestamp[s] # Epoch /\ now <= hb_timestamp[s] + MaxDelay

\* No thread's row is older by more than MaxDelay than what it last stored.
RowInv ==
    \A s \in Streams :
        hb_timestamp[s] # Epoch
          => /\ table[Sender(s)].present
             /\ pc[s] # "assign"
                  => table[Sender(s)].last_hb + MaxDelay >= hb_timestamp[s]

\* Heartbeat b of server x follows a heartbeat a in time, or comes in time
\* after the server was started or resumed.
InTime(x, a, b) == (a # Epoch /\ b <= a + Gap) \/ b <= since[x] + Slack

LastWritten(s) == IF wire[s] = <<>> THEN hb_timestamp[s] ELSE wire[s][Len(wire[s])]

\* From the heartbeat the thread has stored over those on the wire to the one
\* the sender will write next, each is in time after the one before.
Chain(x, s) ==
    /\ pc[s] = "assign" => InTime(x, table[x].last_hb + MaxDelay, hb_timestamp[s])
    /\ wire[s] # <<>> => InTime(x, hb_timestamp[s], wire[s][1])
    /\ \A i \in 1..(Len(wire[s]) - 1) : InTime(x, wire[s][i], wire[s][i + 1])
    /\ \/ LastWritten(s) # Epoch /\ due[x] <= LastWritten(s) + Period
       \/ due[x] <= since[x]

ChainInv ==
    \A x \in Servers :
        process[x] # "down" /\ link[Current(x)] = "open" => Chain(x, Current(x))

SenderInv == \A x \in Servers : process[x] = "up" => now <= SendDeadline(x)

\* A thread about to deactivate the row of a connected server took its decision
\* before that server was settled.
MarkInv ==
    \A s \in Streams, t \in ServerTypes :
        /\ pc[s] = (IF t = "MASTER" THEN "markMaster" ELSE "markSlave")
        /\ Connected(Peer(s, t))
        => hb_timestamp[s] <= since[Peer(s, t)] + Slack + MaxDelay

TimingInv ==
    /\ StreamsInv
    /\ ClockInv
    /\ RowInv
    /\ ChainInv
    /\ SenderInv
    /\ MarkInv

-----------------------------------------------------------------------------
(***************************************************************************)
(* What the threads have seen of the rows and done about them, inductive   *)
(* together with TimingInv.                                                *)
(***************************************************************************)

\* The process at the sending end of s is there and s is its stream.
Sending(s) ==
    /\ process[Sender(s)] # "down"
    /\ s = Current(Sender(s))
    /\ link[s] = "open"

\* The thread of s is past its look at the row of type t.
Looked(s, t) ==
    \/ pc[s] \in {"read", "ended"}
    \/ t = "MASTER" /\ pc[s] \in {"checkSlave", "markSlave"}

\* The rows that the thread of a sending server has looked at and left ACTIVE
\* had not expired then; with the next heartbeat they are one Gap older.
RecentInv ==
    \A s \in Streams, t \in ServerTypes :
        Sending(s) /\ hb_timestamp[s] # Epoch /\ Active(Peer(s, t))
          => \/ hb_timestamp[s] <= table[Peer(s, t)].last_hb + Timeout
             \/ /\ ~Looked(s, t)
                /\ \/ hb_timestamp[s] <= table[Peer(s, t)].last_hb + Timeout + Gap
                   \/ hb_timestamp[s] <= since[Sender(s)] + Slack

\* Some stream's end may have deactivated x.
Excused(x) ==
    \E s \in Streams : pc[s] = "ended" /\ (Sender(s) = x \/ hb_timestamp[s] = Epoch)

\* A connected server is out of the routing only if its thread has handled no
\* heartbeat since the last thread that could decide against it has done so.
TrustInv ==
    \A x \in Servers :
        Connected(x) /\ ~Active(x) /\ ~Excused(x) /\ hb_timestamp[Current(x)] # Epoch
          => hb_timestamp[Current(x)]
               <= since[x] + Slack + 2 * MaxDelay
                    + (IF pc[Current(x)] = "assign" THEN Gap ELSE 0)

(***************************************************************************)
(* The inductive invariant of Failover: rows and heartbeats are recent     *)
(* (coord.cc:108-117), ACTIVE rows have been looked at (coord.cc:118-130), *)
(* and connected servers are trusted.                                      *)
(***************************************************************************)
FailureInv == TimingInv /\ RecentInv /\ TrustInv

=============================================================================
