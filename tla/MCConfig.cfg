SPECIFICATION ConfigSpec
CONSTANTS
    Num <- MCNum
    Dev = {"tun0", "tun1"}
    Pass = {"", "x", "y"}
    MaxOpts = 2
    MaxLines = 2
INVARIANTS
    DeviceIsConfigured
    CleanRun
    AuthIsExact
CHECK_DEADLOCK FALSE
