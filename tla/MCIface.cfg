SPECIFICATION Spec
CONSTANTS
    Gateway = {"g1", "g2"}
    Ipv4 <- MCIpv4
    DGateway <- MCDGateway
    Prefix <- MCPrefix
    MaxFaults = 1
    MaxMoves = 1
    MaxRuns = 2
INVARIANTS
    OctetNetmasksExact
    TunnelNeverCarriesItself
    DownUndoesUp
    CleanRunsRepeat
CHECK_DEADLOCK FALSE
