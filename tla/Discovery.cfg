SPECIFICATION Spec
CONSTANTS
    pf1 = pf1  pf2 = pf2  vf1 = vf1  vf2 = vf2
    PFs <- MCPFs
    VFs <- MCVFs
    ParentPF <- MCParentPF
    Hosts <- MCHosts
    VFSets <- MCVFSets
    MaxLength = 6
    MaxChanges = 1
    MaxFaults = 1
INVARIANTS CountsAgree VlansFaithful
