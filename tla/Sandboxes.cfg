SPECIFICATION FairSpec
CONSTANTS
    p1 = p1  c1 = c1  c2 = c2  d1 = d1  d2 = d2
    NoPod = NoPod  NoClaim = NoClaim
    Pods <- MCPods
    Claims <- MCClaims
    Devices <- MCDevices
    PodOf <- MCPodOf
    ClaimOf <- MCClaimOf
    MetadataEnabled = TRUE
    Capacity = 1
    Steps = 2
    Faults <- FaultKinds
    MaxFaults = 1
    MaxSandboxes = 3
    MaxPrepares = 2
    MaxCrashes = 1
CHECK_DEADLOCK FALSE
INVARIANTS TypeOK RunningIsAttached  NothingForgotten
PROPERTIES StatusNeverGoesBack RepeatedPrepareKeepsData HookReturns
