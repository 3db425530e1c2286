SPECIFICATION Spec
CONSTANTS
    d1 = d1  d2 = d2  NoDevice = NoDevice
    Devices <- MCDevices
    Drivers <- MCDrivers
    HostDriver <- MCHostDriver
    BootDrivers <- MCBootDrivers
    EntryLists <- VhostEntryLists
    RequestOf <- MCRequestOf
    Overridable <- OnlyFirst
    Iommu <- OnlyFirst
    RdmaHardware <- OnlyFirst
    BuiltIn <- MCBuiltIn
    Faults <- NoFaults
    MaxFaults = 0
    MaxCrashes = 0
CHECK_DEADLOCK FALSE
INVARIANT EveryFieldApplies
