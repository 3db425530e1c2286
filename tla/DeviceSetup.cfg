SPECIFICATION FairSpec
CONSTANTS
    d1 = d1  d2 = d2  NoDevice = NoDevice
    Devices <- MCDevices
    Drivers <- MCDrivers
    HostDriver <- MCHostDriver
    BootDrivers <- MCBootDrivers
    EntryLists <- MCEntryLists
    RequestOf <- MCRequestOf
    Overridable <- OnlyFirst
    Iommu <- OnlyFirst
    RdmaHardware <- OnlyFirst
    BuiltIn <- MCBuiltIn
    Faults <- FaultKinds
    MaxFaults = 2
    MaxCrashes = 1
CHECK_DEADLOCK FALSE
INVARIANTS LeftoverOverrideHarmless PreparedStaysBound FailedPrepareRestores PrecedenceRespected
PROPERTIES BindCallsAreAtomic EventuallyRestored
