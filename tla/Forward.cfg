CONSTANTS
    Ip = {a}
    MaxConnectionsPerIp <- Unlimited
    MaxSessions = 2
    InitSessions = 1
    Increment = 1
    Timeout = 1
    Elapse = 1
    MaxOrphans = 0
    ServerList <- TwoServers
    Rule = "L"
    ForwardDisable = 0
    NoServer = none
    ForwardSsl = FALSE
    Pipelining = FALSE
    Failing = {}
    Listener = {l1}
    SslListener = {}
    MaxEvents = 2
    MaxAccepts = 1
    ReopenLog = FALSE
    VirtualHostHashsize = 2
SPECIFICATION FairSpec
CHECK_DEADLOCK FALSE
INVARIANTS
    ForwardsCounted
    NobodyForgotten
    RequestThenResponse
    
