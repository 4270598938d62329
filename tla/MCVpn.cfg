SPECIFICATION VpnSpec
CONSTANTS
    MaxConn = 1
    AddrHi = {0, 1}
    AddrLo = {0}
    Port = {0, 7}
    ClientAddr <- MCAddr
    Worker = {}
    User = {"alice"}
    UserIp <- MCUserIp
    IpLo = {1}
    UDP_SESS_TIMEOUT_NO_AUTH = 0
    UDP_SESS_TIMEOUT_AUTH = 1
    MaxIdle = 2
    MaxTry = 2
    AuthTry = 1
    ResetTry = 2
    Timeout = 1
    SyncEvery = 2
    CliSyncEvery = 2
    MaxFaults = 1
INVARIANTS
    NoHalfOpen
    SidesAgree
    CloseIsLast
CHECK_DEADLOCK FALSE
