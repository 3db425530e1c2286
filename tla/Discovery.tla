----------------------------- MODULE Discovery ------------------------------
(***************************************************************************)
(* DiscoverSriovDevices of pkg/devicestate/discovery.go with the reads of  *)
(* sysfs and netlink of pkg/host: one pass over the PCI devices collects   *)
(* the PF candidates, a second one lists the VFs of each.  An operator may *)
(* write sriov_numvfs meanwhile.  PolicyAdvertisement takes the result as  *)
(* one step.  Attributes that are copied as they are read (vendor, product,*)
(* PCIe root, addresses) are left out.  The code takes the functions in    *)
(* the order of their addresses; the model takes every order.              *)
(***************************************************************************)
EXTENDS Integers, Sequences, FiniteSets, SequencesExt

CONSTANTS
    PFs, VFs,
    ParentPF,     \* the PF of a VF
    Hosts,        \* what the host may tell about the functions
    VFSets,       \* VFs the operator may configure
    MaxLength,    \* resourceapi.DeviceAttributeMaxValueLength
    MaxChanges, MaxFaults

NetFunctions == PFs \cup VFs

ASSUME HostAssumption ==
    /\ PFs \cap VFs = {} /\ ParentPF \in [VFs -> PFs]
    /\ \A h \in Hosts : DOMAIN h = NetFunctions
                      /\ \A f \in NetFunctions : h[f].vlans \subseteq 1 .. 4094
    /\ VFSets \subseteq SUBSET VFs
    /\ MaxLength \in Nat /\ MaxChanges \in Nat /\ MaxFaults \in Nat

VARIABLES
    nic,           \* what the host tells about each function
    exists,        \* the VFs that exist
    away,          \* functions on another driver than the host's
    pc,
    todo,          \* the functions the scan still has to look at
    pfList,        \* the candidates whose VFs are still to be listed
    resourceList,  \* the devices found
    changes, faults

vars == <<nic, exists, away, pc, todo, pfList, resourceList, changes, faults>>

None == -1       \* an attribute that is left out
NoUplink == [filtering |-> FALSE, untagged |-> 0, vlans |-> {}, read |-> FALSE]

TypeOK ==
    /\ nic \in Hosts
    /\ exists \in VFSets /\ away \subseteq NetFunctions
    /\ pc \in {"start", "scan", "list", "done", "failed"}
    /\ DOMAIN resourceList \subseteq NetFunctions
    /\ \A f \in DOMAIN resourceList :
          LET r == resourceList[f] IN
          /\ r.deviceType \in {"pf", "vf"} /\ r.parent \in NetFunctions
          /\ r.deviceType = "vf" <=> r.numVFs = None
          /\ r.numaNode \in -1 .. 1 /\ r.standardNUMANode \in {None, 0, 1}
          /\ r.pfMTU = None \/ r.pfMTU > 0
          /\ r.pfLinkSpeedMbps = None \/ r.pfLinkSpeedMbps > 0
          /\ r.linkType \in {"ethernet", "infiniband", "unknown"}
          /\ r.eswitchMode \in {"legacy", "switchdev"}
    /\ changes \in Nat /\ faults \in Nat

Fault == faults < MaxFaults /\ faults' = faults + 1
NoFault == UNCHANGED faults

-----------------------------------------------------------------------------
(* What is read about a function *)

\* A function that is there and on its host driver has a netdev; it is found
\* through devlink or, where the driver has none, in sysfs.
TryGetPFInterfaceName(f) ==
    f \notin away /\ f \in PFs \cup exists /\ nic[f].devlink \in {"ok", "notFound"}

\* No answer of devlink means legacy.
GetNicSriovMode(f) == IF nic[f].eswitch = "switchdev" THEN "switchdev" ELSE "legacy"

linkTypeFromPCISubclass(f) ==
    CASE nic[f].subclass = "00" -> "ethernet" [] nic[f].subclass = "07" -> "infiniband"
      [] OTHER -> "unknown"

\* type 0 stands for a file that cannot be read.
GetLinkType(f) ==
    IF ~TryGetPFInterfaceName(f) \/ nic[f].type = 0 THEN linkTypeFromPCISubclass(f)
    ELSE CASE nic[f].type = 1 -> "ethernet" [] nic[f].type = 32 -> "infiniband"
           [] OTHER -> "unknown"

\* A number from /sys/class/net that must be positive, 0 when it is not or
\* cannot be read.
FromNetDev(f, value) == IF TryGetPFInterfaceName(f) /\ value > 0 THEN value ELSE 0

\* GetUplinkVlans: the uplink is the bond of the PF if it has one; it must be
\* a port of a bridge.  masters are the kinds of its masters, inside out.
IsBridgePort(masters) == masters \in {<<"bridge">>, <<"bond", "bridge">>}

GetUplinkVlans(f) ==
    IF /\ TryGetPFInterfaceName(f) /\ GetNicSriovMode(f) = "switchdev"
       /\ GetLinkType(f) = "ethernet" /\ IsBridgePort(nic[f].masters)
    THEN [filtering |-> nic[f].filtering, read |-> TRUE,
          untagged |-> IF nic[f].filtering THEN nic[f].untagged ELSE 0,
          vlans |-> IF nic[f].filtering THEN nic[f].vlans ELSE {}]
    ELSE NoUplink

\* -1 is no affinity, also when numa, a sequence, is empty: it cannot be read.
GetNumaNode(f) == IF nic[f].numa = <<>> THEN -1 ELSE nic[f].numa[1]

PFInfo(f) ==
    [address |-> f, netName |-> TryGetPFInterfaceName(f),
     eswitchMode |-> GetNicSriovMode(f), linkType |-> GetLinkType(f),
     numaNode |-> GetNumaNode(f), mtu |-> FromNetDev(f, nic[f].mtu),
     speed |-> FromNetDev(f, nic[f].speed), uplink |-> GetUplinkVlans(f)]

-----------------------------------------------------------------------------
(* The attributes *)

\* formatVlanRanges: ascending IDs become ranges <<first, last>>.
\* Mutant of the test whether a range goes on: one ID may be missing.
WithGap(vlans, i) == i < Len(vlans) /\ vlans[i + 1] <= vlans[i] + 2
Continues(vlans, i) == i < Len(vlans) /\ vlans[i + 1] = vlans[i] + 1

\* The last index of the range that begins at i.
RangeEnd(vlans, i) == Min({j \in i .. Len(vlans) : ~Continues(vlans, j)})

formatVlanRanges(vlans) ==
    LET From[i \in 1 .. Len(vlans) + 1] ==
            IF i > Len(vlans) THEN <<>>
            ELSE LET j == RangeEnd(vlans, i)
                 IN  <<<<vlans[i], vlans[j]>>>> \o From[j + 1]
    IN  From[1]

\* The length of the text: "2200-2202,3000".
Digits(n) == CASE n < 10 -> 1 [] n \in 10 .. 99 -> 2 [] n \in 100 .. 999 -> 3 [] OTHER -> 4
RangeLength(r) == IF r[1] = r[2] THEN Digits(r[1]) ELSE Digits(r[1]) + 1 + Digits(r[2])
TextLength(ranges) == SumFunction([i \in DOMAIN ranges |-> RangeLength(ranges[i]) + 1]) - 1

\* sort.Ints: before the i-th ID come i - 1 smaller ones.
Ascending(ids) ==
    [i \in 1 .. Cardinality(ids) |->
        CHOOSE v \in ids : Cardinality({w \in ids : w < v}) = i - 1]

UplinkVlans(uplink) ==
    LET ranges == formatVlanRanges(Ascending(uplink.vlans))
    IN  IF uplink.filtering /\ ranges # <<>> /\ TextLength(ranges) <= MaxLength
        THEN ranges ELSE <<>>

OrNone(n) == IF n > 0 THEN n ELSE None

\* An entry, with what a VF shares with its PF.  A device without NUMA affinity
\* has no standard attribute for it.
Device(info, type, numVFs, rdma, uplink) ==
    [deviceType |-> type, parent |-> info.address, numVFs |-> numVFs,
     rdmaCapable |-> rdma, pfName |-> info.netName, eswitchMode |-> info.eswitchMode,
     linkType |-> info.linkType, numaNode |-> info.numaNode,
     standardNUMANode |-> IF info.numaNode < 0 THEN None ELSE info.numaNode,
     pfMTU |-> OrNone(info.mtu), pfLinkSpeedMbps |-> OrNone(info.speed),
     uplinkRead |-> uplink.read, uplinkVlanFiltering |-> uplink.filtering,
     uplinkUntaggedVlan |-> IF uplink.filtering THEN OrNone(uplink.untagged) ELSE None,
     uplinkVlans |-> UplinkVlans(uplink)]

\* A function has an RDMA device while it is on its host driver.
VerifyRDMACapability(f) == nic[f].rdma /\ f \notin away /\ f \in PFs \cup exists

\* A whole PF has no VLAN of its own.
buildPFDevice(info, numVFs) ==
    Device(info, "pf", numVFs, VerifyRDMACapability(info.address), NoUplink)

buildVFDevice(info, v) ==
    Device(info, "vf", None, VerifyRDMACapability(v), info.uplink)

-----------------------------------------------------------------------------
(* DiscoverSriovDevices *)

ListPCI ==
    /\ pc = "start"
    /\ \/ /\ NoFault /\ pc' = "scan"
          /\ todo' = PFs \cup exists
       \/ Fault /\ pc' = "failed" /\ UNCHANGED todo
    /\ pfList' = {} /\ resourceList' = [f \in {} |-> None]
    /\ UNCHANGED <<nic, exists, away, changes>>

\* Whether the link to the PF exists.  Mutant: every function is a candidate.
NeverVF(f) == FALSE
IsSriovVF(f) == f \in exists

ScanFunction(f) ==
    /\ pc = "scan" /\ f \in todo
    /\ todo' = todo \ {f}
    /\ pfList' = IF IsSriovVF(f) THEN pfList ELSE pfList \cup {PFInfo(f)}
    /\ UNCHANGED <<nic, exists, away, pc, resourceList, changes, faults>>

ScanEnds ==
    /\ pc = "scan" /\ todo = {}
    /\ pc' = "list"
    /\ UNCHANGED <<nic, exists, away, todo, pfList, resourceList, changes, faults>>

GetVFList(f) == {v \in exists : ParentPF[v] = f}

\* A candidate whose directory cannot be read, a VF that is gone for one, fails
\* the discovery.
ListVFs(info) ==
    /\ pc = "list" /\ info \in pfList
    /\ LET vfList == GetVFList(info.address)
           found == [f \in {info.address} \cup vfList |->
                        IF f \in vfList THEN buildVFDevice(info, f)
                        ELSE buildPFDevice(info, Cardinality(vfList))]
       IN  \/ /\ info.address \in PFs \cup exists /\ NoFault
              /\ resourceList' = [f \in DOMAIN found \cup DOMAIN resourceList |->
                    IF f \in DOMAIN found THEN found[f] ELSE resourceList[f]]
              /\ pfList' = pfList \ {info} /\ UNCHANGED pc
           \/ /\ IF info.address \in PFs \cup exists THEN Fault ELSE NoFault
              /\ pc' = "failed" /\ UNCHANGED <<resourceList, pfList>>
    /\ UNCHANGED <<nic, exists, away, todo, changes>>

ListEnds ==
    /\ pc = "list" /\ pfList = {}
    /\ pc' = "done"
    /\ UNCHANGED <<nic, exists, away, todo, pfList, resourceList, changes, faults>>

\* NewManager returns the error and the process is started again; a driver
\* that runs may be started again, too.
Restart ==
    /\ pc \in {"done", "failed"}
    /\ pc' = "start"
    /\ UNCHANGED <<nic, exists, away, todo, pfList, resourceList, changes, faults>>

\* The operator writes sriov_numvfs.
ConfigureVFs ==
    /\ changes < MaxChanges /\ changes' = changes + 1
    /\ exists' \in VFSets \ {exists}
    /\ UNCHANGED <<nic, away, pc, todo, pfList, resourceList, faults>>

-----------------------------------------------------------------------------

Init ==
    /\ nic \in Hosts
    /\ exists \in VFSets /\ away \in SUBSET NetFunctions
    /\ pc = "start" /\ todo = {} /\ pfList = {}
    /\ resourceList = [f \in {} |-> None]
    /\ changes = 0 /\ faults = 0

Next ==
    \/ ListPCI \/ (\E f \in NetFunctions : ScanFunction(f)) \/ ScanEnds
    \/ (\E info \in pfList : ListVFs(info)) \/ ListEnds
    \/ Restart \/ ConfigureVFs

Spec == Init /\ [][Next]_vars

-----------------------------------------------------------------------------
(* Properties *)

\* The result is consistent however the VFs change under the discovery, as long
\* as none goes away and comes back: each function is listed for what it is,
\* and the number of VFs of a PF, which keeps it out of the slice, is the
\* number of devices listed as its VFs.
CountsAgree ==
    pc = "done" =>
        /\ \A f \in DOMAIN resourceList :
              resourceList[f].deviceType = (IF f \in PFs THEN "pf" ELSE "vf")
        /\ \A p \in PFs : /\ p \in DOMAIN resourceList
                          /\ resourceList[p].numVFs =
                                Cardinality({v \in VFs \cap DOMAIN resourceList :
                                                resourceList[v].parent = p})

\* The uplinkVlans of a VF stand for exactly the VLANs its uplink carries, in
\* as few ranges as there can be, in ascending order; they are left out only
\* where there are none or the text, which names each end of a range, is too
\* long.
VlansFaithful ==
    \A f \in DOMAIN resourceList :
        LET r == resourceList[f]
            text == r.uplinkVlans
            carried == nic[r.parent].vlans
            starts == {n \in carried : n - 1 \notin carried}
            ends == {n \in carried : n + 1 \notin carried}
        IN  /\ text # <<>> =>
                  /\ UNION {text[i][1] .. text[i][2] : i \in DOMAIN text} = carried
                  /\ {text[i][1] : i \in DOMAIN text} = starts
                  /\ \A i \in 2 .. Len(text) : text[i - 1][2] < text[i][1]
            /\ text = <<>> /\ r.uplinkVlanFiltering /\ carried # {} =>
                  SumFunction([n \in starts \cup ends |-> Digits(n) + 1]) - 1 > MaxLength
=============================================================================
