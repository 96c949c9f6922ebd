CONSTANTS
    Ip = {a}
    MaxConnectionsPerIp <- Unlimited
    MaxSessions = 2
    InitSessions = 1
    Increment = 1
    Timeout = 1
    Elapse = 1
    MaxOrphans = 0
    ServerList <- NoServers
    Rule = "R"
    ForwardDisable = 1
    NoServer = none
    ForwardSsl = FALSE
    Pipelining = FALSE
    Failing = {}
    Listener = {l1}
    SslListener = {l1}
    MaxEvents = 4
    MaxAccepts = 1
    ReopenLog = TRUE
    VirtualHostHashsize = 2
SPECIFICATION FairSpec
CHECK_DEADLOCK FALSE
INVARIANTS
    WorkerTypeOK
    NobodyForgotten
    RequestThenResponse
PROPERTIES
    NoneAcceptedAfterExit
    UsesPool
    ElapseEnforced
    GracefulExit
