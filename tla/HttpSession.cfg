CONSTANTS
    Ip = {a, b}
    MaxConnectionsPerIp = 2
    MaxSessions = 3
    InitSessions = 1
    Increment = 3
    Timeout = 1
    Elapse = 2
    MaxOrphans = 1
SPECIFICATION PoolSpec
INVARIANTS
    TypeOK
    NothingLost
    Accounting
    IpCovered
PROPERTIES
    AdmissionSpec
SYMMETRY Symmetry
