------------------------ MODULE PolicyAdvertisement ------------------------
(***************************************************************************)
(* Opt-in advertisement: which devices, with which attributes, are in the  *)
(* ResourceSlice of the node.  The resource policy controller              *)
(* (pkg/controller) reads the node, the SriovResourcePolicy and the        *)
(* DeviceAttributes objects in three separate API calls and hands a map of *)
(* devices to the device state manager (UpdatePolicyDevices of             *)
(* pkg/devicestate), which republishes through the driver                  *)
(* (PublishResources of pkg/driver).                                       *)
(*                                                                         *)
(* The API objects change between any two of these steps; a change is      *)
(* announced by a watch event, which queues a reconcile request.  The      *)
(* client reads the API server, not the cache of the controller manager.   *)
(* Names of objects are numbers, so that their order is the order of the   *)
(* names.  Label selectors require sets of labels.                         *)
(***************************************************************************)
EXTENDS Integers, Sequences, FiniteSets

CONSTANTS
    PFs, VFs,        \* physical and virtual functions
    ParentPF,        \* the PF of a VF
    Keys, Values, NoValue,
    Reserved,        \* ReservedAttributes: the keys discovery populates
    Discovery,       \* the attributes discovery finds
    NodeStates, NoNode,   \* label sets the node may have; no Node object
    PolicySpecs,     \* specs a policy may have, by policy name
    AttributeSpecs,  \* specs a DeviceAttributes object may have, by name
    Absent,          \* the object does not exist
    VFSets,          \* VFs the operator may configure on the host
    Faults, MaxFaults, MaxChanges, MaxCrashes

Devices == PFs \cup VFs
Attributes == [Keys -> Values \cup {NoValue}]
NoAttributes == [k \in Keys |-> NoValue]

ASSUME DeviceAssumption ==
    /\ ParentPF \in [VFs -> PFs] /\ PFs \cap VFs = {}
    /\ IsFiniteSet(VFs) /\ VFSets \subseteq SUBSET VFs
ASSUME AttributeAssumption ==
    /\ NoValue \notin Values /\ {"pf", "vf"} \subseteq Values
    /\ Reserved \subseteq Keys /\ "deviceType" \in Reserved
    /\ Discovery \in [Devices -> Attributes]
    /\ \A d \in Devices : \A k \in Keys \ Reserved : Discovery[d][k] = NoValue
    /\ \A d \in PFs : Discovery[d]["deviceType"] = "pf"
    /\ \A d \in VFs : Discovery[d]["deviceType"] \in {"vf", NoValue}
ASSUME ObjectAssumption ==
    /\ DOMAIN PolicySpecs \subseteq Nat /\ DOMAIN AttributeSpecs \subseteq Nat
    /\ IsFiniteSet(DOMAIN AttributeSpecs)
    \* the criteria of a filter are about what discovery found
    /\ \A n \in DOMAIN PolicySpecs : \A s \in PolicySpecs[n] : s # Absent =>
          /\ DOMAIN s.configs \subseteq Nat
          /\ \A i \in DOMAIN s.configs : \A f \in s.configs[i].resourceFilters :
                DOMAIN f.want \subseteq Reserved
    /\ \A n \in DOMAIN AttributeSpecs : \A s \in AttributeSpecs[n] :
          s = Absent \/ s.attributes \in Attributes
    /\ Faults \subseteq {"read", "publish"}
    /\ MaxFaults \in Nat /\ MaxChanges \in Nat /\ MaxCrashes \in Nat

VARIABLES
    node, policies, deviceAttributes,   \* the API objects
    hostVFs,          \* sysfs: the VFs that exist (sriov_numvfs)
    pending,          \* watch events in flight, the queued request
    slice,            \* the ResourceSlice
    pc,               \* where the process is
    allocatable,      \* Manager.allocatable: the devices
    attrs,            \* ... and their attributes
    advertised,       \* the keys of Manager.policyAttrKeys
    policyAttrKeys,   \* ... and its values
    seenNode, seenPolicies,             \* what Reconcile has read
    policyDevices,    \* the map it has computed
    faults, changes, crashes

objectVars == <<node, policies, deviceAttributes, hostVFs>>
managerVars == <<allocatable, attrs, advertised, policyAttrKeys>>
reconcileVars == <<seenNode, seenPolicies, policyDevices>>
vars == <<objectVars, pending, slice, pc, managerVars, reconcileVars,
          faults, changes, crashes>>

\* What the objects of one kind may be, each within its own specs.
ObjectStates(specs) ==
    {f \in [DOMAIN specs -> UNION {specs[n] : n \in DOMAIN specs}] :
        \A n \in DOMAIN specs : f[n] \in specs[n]}

TypeOK ==
    /\ node \in NodeStates
    /\ policies \in ObjectStates(PolicySpecs)
    /\ deviceAttributes \in ObjectStates(AttributeSpecs)
    /\ hostVFs \in VFSets
    /\ pending \subseteq {"watch", "queue"}
    /\ DOMAIN slice \subseteq Devices
    /\ \A d \in DOMAIN slice : slice[d] \in Attributes
    /\ pc \in {"down", "starting", "idle", "policies", "attributes", "update", "publish"}
    /\ allocatable \subseteq Devices
    /\ attrs \in [Devices -> Attributes]
    /\ advertised \subseteq allocatable
    /\ policyAttrKeys \in [Devices -> SUBSET Keys]
    /\ DOMAIN policyDevices \subseteq allocatable
    /\ \A d \in DOMAIN policyDevices : policyDevices[d] \in Attributes
    /\ faults \in Nat /\ changes \in Nat /\ crashes \in Nat

-----------------------------------------------------------------------------
(* Matching *)

\* The terms of a node selector are ORed; no terms match every node.
matchesNodeSelector(labels, terms) ==
    terms = {} \/ \E term \in terms : term \subseteq labels

deviceTypeOf(d) ==
    IF attrs[d]["deviceType"] = NoValue THEN "vf" ELSE attrs[d]["deviceType"]

\* numVFs as discovery counts it.
deviceNumVFs(d) == Cardinality({v \in allocatable \cap VFs : ParentPF[v] = d})

\* Every criterion of a filter that is set must hold; the driver criterion is
\* not implemented.  Mutant: the device type is not compared.
deviceMatchesFilterAnyType(d, filter) ==
    \A k \in DOMAIN filter.want :
        filter.want[k] # {} => attrs[d][k] \in filter.want[k]
deviceMatchesFilter(d, filter) ==
    /\ filter.deviceType = deviceTypeOf(d)
    /\ \A k \in DOMAIN filter.want :
          filter.want[k] # {} => attrs[d][k] \in filter.want[k]

deviceMatchesFilters(d, filters) ==
    IF filters = {} THEN deviceTypeOf(d) = "vf"
    ELSE \E filter \in filters : deviceMatchesFilter(d, filter)

\* A PF with VFs is refused whatever matches it.  Mutant: it is not.
AdvertiseAnyPF(d) == TRUE
MayAdvertise(d) == deviceTypeOf(d) = "pf" => deviceNumVFs(d) = 0

\* The attributes of the objects a selector matches; {} is no selector, and
\* the last name wins.
resolveDeviceAttributes(selector, objects) ==
    LET matched == {n \in DOMAIN objects :
            objects[n] # Absent /\ \E s \in selector : s \subseteq objects[n].labels}
        With(k) == {n \in matched : objects[n].attributes[k] # NoValue}
        Last(S) == CHOOSE n \in S : \A m \in S : m <= n
    IN [k \in Keys |-> IF With(k) = {} THEN NoValue
                       ELSE objects[Last(With(k))].attributes[k]]

\* The configs of the policies that match the node, as <<policy, index>>.
Configs(labels, ps) ==
    UNION {{n} \X (DOMAIN ps[n].configs) :
            n \in {m \in DOMAIN ps : /\ ps[m] # Absent
                                    /\ matchesNodeSelector(labels, ps[m].nodeSelector)}}

Matching(d, labels, ps) ==
    {c \in Configs(labels, ps) :
        deviceMatchesFilters(d, ps[c[1]].configs[c[2]].resourceFilters)}

Before(c, e) == c[1] < e[1] \/ (c[1] = e[1] /\ c[2] <= e[2])

\* The first config that matches a device wins.  Mutant: devices that discovery
\* has not found are matched too.
AnyDeviceMap(labels, ps, objects) ==
    [d \in {x \in Devices : Matching(x, labels, ps) # {} /\ MayAdvertise(x)} |->
        resolveDeviceAttributes({}, objects)]
getPolicyDeviceMap(labels, ps, objects) ==
    LET first(d) == CHOOSE c \in Matching(d, labels, ps) :
                        \A e \in Matching(d, labels, ps) : Before(c, e)
        selector(c) == ps[c[1]].configs[c[2]].deviceAttributesSelector
    IN [d \in {x \in allocatable : Matching(x, labels, ps) # {} /\ MayAdvertise(x)} |->
            resolveDeviceAttributes(selector(first(d)), objects)]

-----------------------------------------------------------------------------
(* The device state manager and the driver *)

\* The keys a map of attributes may set.  Mutant: the built-in ones too.
AnyPolicyKey(as) == {k \in Keys : as[k] # NoValue}
PolicyKeys(as) == {k \in Keys \ Reserved : as[k] # NoValue}

\* clearPolicyAttributes reports a change only when it cleared an attribute.
\* Mutant: it never does.
ClearsNothing(gone) == FALSE
Clears(gone) == \E d \in gone : policyAttrKeys[d] # {}
StaleKeys(d) ==
    policyAttrKeys[d] \
        IF d \in DOMAIN policyDevices THEN PolicyKeys(policyDevices[d]) ELSE {}

NewAttributes(d) ==
    [k \in Keys |->
        IF d \in DOMAIN policyDevices /\ k \in PolicyKeys(policyDevices[d])
          THEN policyDevices[d][k]
        ELSE IF d \in advertised /\ k \in StaleKeys(d) THEN NoValue ELSE attrs[d][k]]

\* Devices that are no longer matched lose their keys before the advertised
\* set is compared with the new one.
ChangesMade ==
    LET gone == advertised \ DOMAIN policyDevices
    IN \/ Clears(gone)
       \/ advertised \ gone # DOMAIN policyDevices
       \/ \E d \in DOMAIN policyDevices : NewAttributes(d) # attrs[d]

UpdatePolicyDevices ==
    /\ pc = "update"
    /\ attrs' = [d \in Devices |-> NewAttributes(d)]
    /\ advertised' = DOMAIN policyDevices
    /\ policyAttrKeys' = [d \in Devices |->
          IF d \in DOMAIN policyDevices THEN PolicyKeys(policyDevices[d]) ELSE {}]
    /\ pc' = IF ChangesMade THEN "publish" ELSE "idle"
    /\ UNCHANGED <<objectVars, pending, slice, allocatable, reconcileVars, faults,
                   changes, crashes>>

PublishResources == slice' = [d \in advertised |-> attrs[d]]

-----------------------------------------------------------------------------
(* Reconcile *)

Fault(kind) == kind \in Faults /\ faults < MaxFaults /\ faults' = faults + 1
NoFault == UNCHANGED faults

\* Reconcile returns an error: the request is queued again.  Mutant: it is
\* taken as handled.
GiveUp == pc' = "idle" /\ pending' = pending \ {"queue"}
Requeue == pc' = "idle" /\ pending' = pending \cup {"queue"}

GetNode ==
    /\ pc = "idle" /\ "queue" \in pending
    /\ UNCHANGED <<objectVars, slice, managerVars, seenPolicies, policyDevices,
                   changes, crashes>>
    /\ \/ /\ node # NoNode /\ NoFault
          /\ seenNode' = node /\ pc' = "policies"
          /\ pending' = pending \ {"queue"}
       \/ /\ IF node = NoNode THEN NoFault ELSE Fault("read")
          /\ Requeue /\ UNCHANGED seenNode

ListPolicies ==
    /\ pc = "policies"
    /\ UNCHANGED <<objectVars, slice, managerVars, seenNode, policyDevices,
                   changes, crashes>>
    /\ \/ /\ seenPolicies' = policies /\ pc' = "attributes"
          /\ NoFault /\ UNCHANGED pending
       \/ Fault("read") /\ Requeue /\ UNCHANGED seenPolicies

ListDeviceAttributes ==
    /\ pc = "attributes"
    /\ UNCHANGED <<objectVars, slice, managerVars, seenNode, seenPolicies,
                   changes, crashes>>
    /\ \/ /\ policyDevices' =
                getPolicyDeviceMap(seenNode, seenPolicies, deviceAttributes)
          /\ pc' = "update" /\ NoFault /\ UNCHANGED pending
       \/ Fault("read") /\ Requeue /\ UNCHANGED policyDevices

Republish ==
    /\ pc = "publish"
    /\ UNCHANGED <<objectVars, managerVars, reconcileVars, changes, crashes>>
    /\ \/ PublishResources /\ pc' = "idle" /\ NoFault /\ UNCHANGED pending
       \/ Fault("publish") /\ Requeue /\ UNCHANGED slice

\* The watch announces a change; the request waits in the work queue while
\* another one is being handled.
WatchEvent ==
    /\ pc \notin {"down", "starting"} /\ "watch" \in pending
    /\ pending' = (pending \ {"watch"}) \cup {"queue"}
    /\ UNCHANGED <<objectVars, slice, pc, managerVars, reconcileVars, faults,
                   changes, crashes>>

-----------------------------------------------------------------------------
(* Start, crash, and the administrator *)

\* NewManager discovers the devices; no policy has been seen.
NewManager ==
    /\ pc = "down"
    /\ allocatable' = PFs \cup hostVFs
    /\ attrs' = Discovery
    /\ advertised' = {} /\ policyAttrKeys' = [d \in Devices |-> {}]
    /\ policyDevices' = [d \in {} |-> NoAttributes]
    /\ pc' = "starting"
    /\ UNCHANGED <<objectVars, pending, slice, seenNode, seenPolicies, faults,
                   changes, crashes>>

\* Start publishes what is advertised; then the controller starts and queues
\* its first request.
Start ==
    /\ pc = "starting"
    /\ UNCHANGED <<objectVars, managerVars, reconcileVars, changes, crashes>>
    /\ \/ /\ PublishResources /\ pc' = "idle" /\ pending' = {"queue"} /\ NoFault
       \/ Fault("publish") /\ pc' = "down" /\ UNCHANGED <<slice, pending>>

Crash ==
    /\ pc # "down" /\ crashes < MaxCrashes /\ crashes' = crashes + 1
    /\ pc' = "down"
    /\ UNCHANGED <<objectVars, pending, slice, managerVars, reconcileVars, faults,
                   changes>>

Change ==
    /\ changes < MaxChanges /\ changes' = changes + 1
    /\ UNCHANGED <<slice, pc, managerVars, reconcileVars, faults, crashes>>

ChangePolicy(n) ==
    /\ Change
    /\ \E s \in PolicySpecs[n] \ {policies[n]} :
          policies' = [policies EXCEPT ![n] = s]
    /\ pending' = pending \cup {"watch"}
    /\ UNCHANGED <<node, deviceAttributes, hostVFs>>

ChangeDeviceAttributes(n) ==
    /\ Change
    /\ \E s \in AttributeSpecs[n] \ {deviceAttributes[n]} :
          deviceAttributes' = [deviceAttributes EXCEPT ![n] = s]
    /\ pending' = pending \cup {"watch"}
    /\ UNCHANGED <<node, policies, hostVFs>>

ChangeNode ==
    /\ Change
    /\ node' \in NodeStates \ {node}
    /\ pending' = pending \cup {"watch"}
    /\ UNCHANGED <<policies, deviceAttributes, hostVFs>>

\* The operator writes sriov_numvfs: nothing tells the driver.
ConfigureVFs ==
    /\ Change
    /\ hostVFs' \in VFSets \ {hostVFs}
    /\ UNCHANGED <<node, policies, deviceAttributes, pending>>

-----------------------------------------------------------------------------

Init ==
    /\ node \in NodeStates
    /\ policies \in ObjectStates(PolicySpecs)
    /\ deviceAttributes \in ObjectStates(AttributeSpecs)
    /\ hostVFs \in VFSets
    /\ pending = {} /\ pc = "down" /\ slice = [d \in {} |-> NoAttributes]
    /\ allocatable = {} /\ attrs = Discovery /\ advertised = {}
    /\ policyAttrKeys = [d \in Devices |-> {}]
    /\ seenNode = node /\ seenPolicies = policies
    /\ policyDevices = [d \in {} |-> NoAttributes]
    /\ faults = 0 /\ changes = 0 /\ crashes = 0

ControllerStep ==
    \/ GetNode \/ ListPolicies \/ ListDeviceAttributes
    \/ UpdatePolicyDevices \/ Republish

Next ==
    \/ ControllerStep
    \/ WatchEvent
    \/ NewManager \/ Start
    \/ Crash
    \/ \E n \in DOMAIN PolicySpecs : ChangePolicy(n)
    \/ \E n \in DOMAIN AttributeSpecs : ChangeDeviceAttributes(n)
    \/ ChangeNode
    \/ ConfigureVFs

Spec == Init /\ [][Next]_vars

\* Watch events arrive, queued requests are handled, and the kubelet starts a
\* dead driver pod again.
Fairness ==
    /\ WF_vars(ControllerStep)
    /\ WF_vars(WatchEvent)
    /\ WF_vars(NewManager \/ Start)

FairSpec == Spec /\ Fairness

-----------------------------------------------------------------------------
(* Properties *)

\* The slice the objects of this moment ask for: the devices a policy matches,
\* with what discovery found and what the policy adds.
Wanted ==
    LET map == getPolicyDeviceMap(node, policies, deviceAttributes)
    IN [d \in DOMAIN map |-> [k \in Keys |->
            IF k \in Reserved THEN Discovery[d][k] ELSE map[d][k]]]

\* Once every change has been handled, the ResourceSlice is what the policies,
\* the attributes and the node ask for, in whatever order the changes and the
\* three reads of Reconcile interleaved.
SliceIsCurrent == pc = "idle" /\ pending = {} => slice = Wanted

\* A policy attribute never replaces or removes what discovery found, and a
\* device carries no policy attribute that UpdatePolicyDevices would not know
\* to clear.
AttributesTracked ==
    \A d \in Devices : \A k \in Keys :
        IF k \in Reserved THEN attrs[d][k] = Discovery[d][k]
        ELSE attrs[d][k] # NoValue <=> d \in advertised /\ k \in policyAttrKeys[d]

\* A PF is never in the slice together with one of its VFs, whatever is
\* configured on the host while the driver runs or is down.
NoPFWithItsVFs ==
    \A v \in DOMAIN slice \cap VFs : ParentPF[v] \notin DOMAIN slice

\* A PF is only advertised when a filter of a policy that exists asks for PFs,
\* once every change has been handled.
PFsOptIn ==
    pc = "idle" /\ pending = {} =>
        \A d \in DOMAIN slice \cap PFs :
            \E n \in DOMAIN policies :
                /\ policies[n] # Absent
                /\ \E i \in DOMAIN policies[n].configs :
                      \E f \in policies[n].configs[i].resourceFilters :
                          f.deviceType = "pf"

\* While the node exists, the slice catches up with the objects again and
\* again.
EventuallyCurrent == []<>(node = NoNode \/ slice = Wanted)
=============================================================================
