SPECIFICATION Spec
CONSTANTS
    p1 = p1  p2 = p2  p3 = p3  c1 = c1  c2 = c2  c3 = c3  d1 = d1  d2 = d2  d3 = d3
    NoPod = NoPod  NoClaim = NoClaim
    Pods <- MCPods
    Claims <- MCClaims
    Devices <- MCDevices
    Drivers <- MCDrivers
    HostDriver <- MCHostDriver
    AutoNamed <- MCClaims
    ClaimsOf <- TwoClaimPod
    Results <- DisjointResults
    Config <- VfioConfig
    Mode = "STANDALONE"
    Discoverable <- AllDiscovered
    Faults <- PrepareFaults
    MaxFaults = 1
    MaxCrashes = 2
    MaxReboots = 0
    MaxReprepares = 1
CHECK_DEADLOCK FALSE
INVARIANTS ClaimInv OneOwner IfNamesDistinct
PROPERTY DriverStableInUse
