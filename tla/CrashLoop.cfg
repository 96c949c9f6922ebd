CONSTANTS
    WorkerProcesses = 1
    Listener = {l1}
    AcceptMutex = FALSE
    Failing = {"worker"}
SPECIFICATION Spec
CHECK_DEADLOCK FALSE
INVARIANTS
    RestartSucceeds
