CONSTANTS
    NumClusters = 1
    MaxStarts = 2
    MaxFaults = 1
    StartTime = 2
    MaxTime = 3
    Period = 1
    Timeout = 1
    Slack = 0
    MaxDelay = 0
    Users = {1}
SPECIFICATION ClientSystemSpec
INVARIANTS ClientSystemTypeOK  
