SPECIFICATION FairSpec
CONSTANTS
    Capacity = 1
    MaxFaults = 2
    MaxSignals = 1
    MaxHooks = 2
    MaxChecks = 1
CHECK_DEADLOCK FALSE
INVARIANTS CallsSeeRecords HealthIsTrue
PROPERTIES StopEnds OrderlyStop EventuallyInService
