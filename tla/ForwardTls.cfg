CONSTANTS
    Ip = {a}
    MaxConnectionsPerIp <- Unlimited
    MaxSessions = 1
    InitSessions = 1
    Increment = 1
    Timeout = 1
    Elapse = 2
    MaxOrphans = 0
    ServerList <- TwoServers
    Rule = "R"
    ForwardDisable = 1
    NoServer = none
    ForwardSsl = TRUE
    Pipelining = TRUE
    Failing = {"connect", "socket", "epoll_ctl", "epoll_wait", "accept", "inotify_add_watch"}
    Listener = {l1}
    SslListener = {}
    MaxEvents = 2
    MaxAccepts = 1
    ReopenLog = FALSE
    VirtualHostHashsize = 2
SPECIFICATION FairSpec
CHECK_DEADLOCK FALSE
INVARIANTS
    ForwardsCounted
    NobodyForgotten
PROPERTIES
    ElapseEnforced
