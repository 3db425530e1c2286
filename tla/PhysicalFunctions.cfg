SPECIFICATION Spec
CONSTANTS
    pf1 = pf1  vf1 = vf1  vf2 = vf2
    NoValue = NoValue  NoNode = NoNode  Absent = Absent
    PFs <- MCPFs
    VFs <- MCVFs
    ParentPF <- MCParentPF
    Keys <- MCKeys
    Values <- MCValues
    Reserved <- MCReserved
    Discovery <- MCDiscovery
    PolicySpecs <- PFPolicies
    AttributeSpecs <- OneObject
    NodeStates <- OneNode
    VFSets <- SomeVFs
    Faults <- AllFaults
    MaxFaults = 1
    MaxChanges = 2
    MaxCrashes = 1
CHECK_DEADLOCK FALSE
INVARIANTS TypeOK NoPFWithItsVFs
