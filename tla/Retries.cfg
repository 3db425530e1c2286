SPECIFICATION Spec
CONSTANTS
    p1 = p1  p2 = p2  p3 = p3  c1 = c1  c2 = c2  c3 = c3  d1 = d1  d2 = d2  d3 = d3
    NoPod = NoPod  NoClaim = NoClaim
    Pods <- ThreePods
    Claims <- MCClaims
    Devices <- MCDevices
    Drivers <- MCDrivers
    HostDriver <- MCHostDriver
    AutoNamed <- MCClaims
    ClaimsOf <- EmptyClaimPod
    Results <- ReuseResults
    Config <- MCConfig
    Mode = "MULTUS"
    Discoverable <- SomeDiscovered
    Faults <- UndoneFaults
    MaxFaults = 1
    MaxCrashes = 0
    MaxReboots = 0
    MaxReprepares = 0
CHECK_DEADLOCK FALSE
INVARIANTS RunningIsPrepared NothingLeftBehind OriginalDriverIsHosts
