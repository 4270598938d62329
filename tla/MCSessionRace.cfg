SPECIFICATION Spec
CONSTANTS
    MaxConn = 2
    AddrHi = {0, 1, 2}
    AddrLo = {0}
    Port = {0, 7}
    IpKey = {1}
    MaxDoubles = 1
INVARIANTS
    NoListBehindEmptyHead
    CounterFollowsStack
    PoolStaysExact
    FreeSlotsClean
    RouteSound
    CreatedIsOnMap
VIEW RaceView
CHECK_DEADLOCK FALSE
