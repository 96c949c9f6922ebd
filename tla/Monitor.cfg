CONSTANTS
    WorkerProcesses = 2
    Listener = {l1}
    AcceptMutex = TRUE
    Failing = {"worker", "monitor", "fork", "malloc"}
SPECIFICATION FairSpec
CHECK_DEADLOCK FALSE
INVARIANTS
    MonitorTypeOK
    
    StopsOnlyWhenTold
    ReturnsLast
    
PROPERTIES
    AllEndTogether
    Replaced
