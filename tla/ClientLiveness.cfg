\* One cluster, one client; each server is started once and there are two faults.
CONSTANTS
    NumClusters = 1
    MaxStarts = 1
    MaxFaults = 2
    Users = {1}
SPECIFICATION LivenessSpec
PROPERTIES CallsEnd FailoverCompletes
CHECK_DEADLOCK FALSE
