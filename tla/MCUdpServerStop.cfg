SPECIFICATION FairSpec
CONSTANTS
    MaxConn = 1
    AddrHi = {0, 1, 2}
    AddrLo = {0}
    Port = {0, 7}
    Worker = {"w1"}
    User = {"alice", "bob", "carol"}
    UserIp <- MCUserIp
    IpLo = {1, 2}
    SyncEvery = 3
    UDP_SESS_TIMEOUT_NO_AUTH = 0
    UDP_SESS_TIMEOUT_AUTH = 1
    MaxIdle = 2
INVARIANT
    FreeSlotsClean
PROPERTIES
    StopClosesEverything
    ZombieReapedOrEmergency
CHECK_DEADLOCK FALSE
