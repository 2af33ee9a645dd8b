\* One cluster, master and slave.  The unit of time is 5 s: heartbeats every
\* 10 s, timeout 20 s, and the largest delay that never expires a live server.
CONSTANTS
    NumClusters = 1
    MaxStarts = 2
    MaxFaults = 1
    StartTime = 5
    MaxTime = 13
    Period = 2
    Timeout = 4
    Slack = 0
    MaxDelay = 1
SPECIFICATION Spec
INVARIANTS TypeOK FailureInv FreshRows ActiveRowsAreRecent NoSpuriousSuspicion
PROPERTIES OnlyStreamEndDeactivates ImplementsDetector
