SPECIFICATION FairSpec
CONSTANTS
    d1 = d1  d2 = d2
    Results <- MCResults
    TheirDevice = d2
    Steps = 3
    MaxClaims = 2
    MaxPods = 2
    MaxSandboxes = 3
    MaxOthers = 2
    MaxFaults = 1
CHECK_DEADLOCK FALSE
INVARIANTS LastSandboxWins
PROPERTIES TheirsLostOnlyOnRetry UpdatesEnd
