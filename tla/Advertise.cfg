SPECIFICATION FairSpec
CONSTANTS
    pf1 = pf1  vf1 = vf1  vf2 = vf2
    NoValue = NoValue  NoNode = NoNode  Absent = Absent
    PFs <- MCPFs
    VFs <- MCVFs
    ParentPF <- MCParentPF
    Keys <- MCKeys
    Values <- MCValues
    Reserved <- MCReserved
    Discovery <- MCDiscovery
    PolicySpecs <- MixedPolicies
    AttributeSpecs <- MCObjects
    NodeStates <- MCNodes
    VFSets <- SomeVFs
    Faults <- ReadFaults
    MaxFaults = 1
    MaxChanges = 2
    MaxCrashes = 1
CHECK_DEADLOCK FALSE
INVARIANTS SliceIsCurrent AttributesTracked PFsOptIn
PROPERTY EventuallyCurrent
