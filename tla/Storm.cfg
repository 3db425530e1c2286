SPECIFICATION FairSpec
CONSTANTS
    p1 = p1  p2 = p2  p3 = p3  c1 = c1  c2 = c2  c3 = c3  d1 = d1  d2 = d2  d3 = d3
    NoPod = NoPod  NoClaim = NoClaim
    Pods <- MCPods
    Claims <- MCClaims
    Devices <- MCDevices
    Drivers <- MCDrivers
    HostDriver <- MCHostDriver
    AutoNamed <- MCClaims
    ClaimsOf <- OneClaimPerPod
    Results <- DisjointResults
    Config <- VfioConfig
    Mode = "STANDALONE"
    Discoverable <- AllDiscovered
    Faults <- FaultKinds
    MaxFaults = 1
    MaxCrashes = 1
    MaxReboots = 1
    MaxReprepares = 0
CHECK_DEADLOCK FALSE
INVARIANT TypeOK
PROPERTIES DriverStableInUse EventuallyUnprepared EventuallyPrepared
