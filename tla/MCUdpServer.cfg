SPECIFICATION Spec
CONSTANTS
    MaxConn = 2
    AddrHi = {0, 1, 2}
    AddrLo = {0}
    Port = {0, 7}
    Worker = {}
    User = {"alice", "bob", "carol"}
    UserIp <- MCUserIp
    IpLo = {1, 2}
    SyncEvery = 2
    UDP_SESS_TIMEOUT_NO_AUTH = 0
    UDP_SESS_TIMEOUT_AUTH = 0
    MaxIdle = 1
INVARIANTS
    ServerInv
    TunPacketReachesAddress
PROPERTIES
    SessionLifecycle
    TunDataOnlyToAuthenticated
VIEW ServerView
CHECK_DEADLOCK FALSE
