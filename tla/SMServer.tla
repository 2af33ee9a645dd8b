------------------------------ MODULE SMServer ------------------------------
(***************************************************************************)
(* The server process of the social network service (tsd.cc) as the        *)
(* coordinator sees it: main opens one HandleHeartBeats stream and starts  *)
(* a thread that writes a heartbeat to it, sleeps and writes the next one, *)
(* for as long as the process runs.  Master and slave run the same code.   *)
(*                                                                         *)
(* The environment can kill a process, suspend it and let it go on, reset  *)
(* its connection, and start it again.                                     *)
(***************************************************************************)
EXTENDS HeartbeatStreams

CONSTANTS
    Period,     \* seconds between heartbeats, the literal 10
    MaxFaults   \* bound: how many faults the environment causes

ASSUME PeriodAssumption == Period \in Nat \ {0} /\ Period < StartTime
ASSUME FaultAssumption == MaxFaults \in Nat

VARIABLES
    process,  \* server -> "down", "up" or "hung"
    starts,   \* server -> how often it was started
    since,    \* server -> when it was last started or resumed
    due,      \* server -> when the sender thread's sleep is over
    faults    \* how many faults there have been

serverVars == <<process, starts, since, due, faults>>

ServerTypeOK ==
    /\ process \in [Servers -> {"down", "up", "hung"}]
    /\ starts \in [Servers -> 0..MaxStarts]
    /\ since \in [Servers -> Nat]
    /\ due \in [Servers -> Nat]
    /\ faults \in 0..MaxFaults

ServerInit ==
    /\ process = [x \in Servers |-> "down"]
    /\ starts = [x \in Servers |-> 0]
    /\ since = [x \in Servers |-> StartTime]
    /\ due = [x \in Servers |-> StartTime]
    /\ faults = 0

\* The stream opened by the latest start of the process.
Current(x) == <<x, starts[x]>>

Fault == faults < MaxFaults /\ faults' = faults + 1

Connected(x) == process[x] = "up" /\ link[Current(x)] = "open"

-----------------------------------------------------------------------------
\* main: the stub, the HandleHeartBeats call, the sender thread, RunServer.
\* The thread sends its first heartbeat at once.
StartServer(x) ==
    /\ process[x] = "down"
    /\ starts[x] < MaxStarts
    /\ process' = [process EXCEPT ![x] = "up"]
    /\ starts' = [starts EXCEPT ![x] = @ + 1]
    /\ since' = [since EXCEPT ![x] = now]
    /\ due' = [due EXCEPT ![x] = now]
    /\ link' = [link EXCEPT ![<<x, starts[x] + 1>>] = "open"]
    /\ UNCHANGED <<now, wire, faults>>

\* Mutant of SendHeartbeat: the thread sleeps twice as long.
SlowSendHeartbeat(x) ==
    /\ process[x] = "up"
    /\ due[x] <= now
    /\ wire' = IF link[Current(x)] = "open"
               THEN [wire EXCEPT ![Current(x)] = Append(@, now)]
               ELSE wire
    /\ due' = [due EXCEPT ![x] = now + 2 * Period]
    /\ UNCHANGED <<now, link, process, starts, since, faults>>

\* One turn of send_heartbeats: MakeHeartbeat stamps the current second, Write
\* puts it on the stream, sleep_for waits at least Period.  The result of Write
\* is ignored, so on a broken stream the thread goes on sending to nobody.
SendHeartbeat(x) ==
    /\ process[x] = "up"
    /\ due[x] <= now
    /\ wire' = IF link[Current(x)] = "open"
               THEN [wire EXCEPT ![Current(x)] = Append(@, now)]
               ELSE wire
    /\ due' = [due EXCEPT ![x] = now + Period]
    /\ UNCHANGED <<now, link, process, starts, since, faults>>

\* The process dies (end.sh, a crash); the kernel closes its connection.
CrashServer(x) ==
    /\ Fault
    /\ process[x] # "down"
    /\ process' = [process EXCEPT ![x] = "down"]
    /\ link' = [link EXCEPT ![Current(x)] = "broken"]
    /\ UNCHANGED <<now, wire, starts, since, due>>

\* The process stops running but its connection stays open.
HangServer(x) ==
    /\ Fault
    /\ process[x] = "up"
    /\ process' = [process EXCEPT ![x] = "hung"]
    /\ UNCHANGED <<now, streamVars, starts, since, due>>

ResumeServer(x) ==
    /\ process[x] = "hung"
    /\ process' = [process EXCEPT ![x] = "up"]
    /\ since' = [since EXCEPT ![x] = now]
    /\ UNCHANGED <<now, streamVars, starts, due, faults>>

\* The connection to the coordinator is reset; nothing opens another one.
ResetConnection(x) ==
    /\ Fault
    /\ process[x] # "down"
    /\ link[Current(x)] = "open"
    /\ link' = [link EXCEPT ![Current(x)] = "broken"]
    /\ UNCHANGED <<now, wire, process, starts, since, due>>

=============================================================================
