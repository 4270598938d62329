SPECIFICATION Spec
CONSTANTS
    MaxConn = 3
    AddrHi = {0, 1}
    AddrLo = {0, 1}
    Port = {0, 7, 8}
    MaxDeleters = 2
INVARIANTS
    LookupExact
    CountExact
    IInv
PROPERTIES
    ImplementsSessionPool
