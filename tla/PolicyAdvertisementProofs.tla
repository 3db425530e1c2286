--------------------- MODULE PolicyAdvertisementProofs ---------------------
(***************************************************************************)
(* What holds of every advertisement, for every set of devices, policies   *)
(* and attribute objects: policy attributes are tracked and never touch    *)
(* what discovery found, hence the device type that gates PFs can be       *)
(* trusted, hence a PF is never in the slice with one of its VFs.  And,    *)
(* where UpdatePolicyDevices can see every change: once all is quiet, the  *)
(* slice is what the objects ask for.                                      *)
(***************************************************************************)
EXTENDS PolicyAdvertisement, FiniteSetTheorems, WellFoundedInduction, TLAPS

\* No PF is in S together with one of its VFs.
Apart(S) == \A v \in S \cap VFs : ParentPF[v] \notin S

\* The inductive invariant.
AdvertInv ==
    /\ AttributesTracked
    /\ \A d \in Devices : policyAttrKeys[d] \cap Reserved = {}
    /\ Apart(advertised) /\ Apart(DOMAIN policyDevices) /\ Apart(DOMAIN slice)

\* getPolicyDeviceMap never picks a PF and one of its VFs: the reserved
\* deviceType attribute tells the PF, and its numVFs refuse it.
LEMMA MapApart ==
  ASSUME AdvertInv, NEW labels, NEW ps, NEW objects
  PROVE  Apart(DOMAIN getPolicyDeviceMap(labels, ps, objects))
<1> DEFINE S == DOMAIN getPolicyDeviceMap(labels, ps, objects)
<1> SUFFICES ASSUME NEW v \in S \cap VFs, ParentPF[v] \in S PROVE FALSE
  BY DEF Apart
<1> DEFINE pf == ParentPF[v]
           children == {x \in allocatable \cap VFs : ParentPF[x] = pf}
<1>1. v \in allocatable /\ MayAdvertise(pf)
  <2>1. S = {x \in allocatable : Matching(x, labels, ps) # {} /\ MayAdvertise(x)}
    BY DEF getPolicyDeviceMap
  <2> QED
    BY <2>1
<1>2. pf \in PFs
  BY DeviceAssumption
<1>3. deviceTypeOf(pf) = "pf"
  BY <1>2, AttributeAssumption DEF AdvertInv, AttributesTracked, deviceTypeOf, Devices
<1>4. Cardinality(children) = 0
  BY <1>1, <1>3 DEF MayAdvertise, deviceNumVFs
<1>5. IsFiniteSet(children)
  <2>1. children \subseteq VFs
    OBVIOUS
  <2> QED
    BY <2>1, DeviceAssumption, FS_Subset
<1>6. children = {}
  BY <1>4, <1>5, FS_EmptySet
<1> QED
  BY <1>1, <1>6

\* UpdatePolicyDevices keeps what discovery found and forgets no key it set.
LEMMA UpdateTracks ==
  ASSUME AdvertInv, UpdatePolicyDevices
  PROVE  AttributesTracked' /\ \A d \in Devices : policyAttrKeys'[d] \cap Reserved = {}
<1>1. ASSUME NEW d \in Devices
      PROVE  policyAttrKeys'[d] \cap Reserved = {}
  BY DEF UpdatePolicyDevices, PolicyKeys
<1>2. ASSUME NEW d \in Devices, NEW k \in Reserved, k \in Keys
      PROVE  attrs'[d][k] = Discovery[d][k]
  <2>1. k \notin StaleKeys(d)
    BY <1>2 DEF AdvertInv, StaleKeys
  <2>2. d \in DOMAIN policyDevices => k \notin PolicyKeys(policyDevices[d])
    BY <1>2 DEF PolicyKeys
  <2> QED
    BY <1>2, <2>1, <2>2
       DEF UpdatePolicyDevices, NewAttributes, AdvertInv, AttributesTracked
<1>3. ASSUME NEW d \in Devices, NEW k \in Keys \ Reserved
      PROVE  attrs'[d][k] # NoValue <=> d \in advertised' /\ k \in policyAttrKeys'[d]
  <2>1. CASE d \in DOMAIN policyDevices /\ k \in PolicyKeys(policyDevices[d])
    BY <2>1 DEF UpdatePolicyDevices, NewAttributes, PolicyKeys
  <2>2. CASE ~(d \in DOMAIN policyDevices /\ k \in PolicyKeys(policyDevices[d]))
    <3>1. ~(d \in advertised' /\ k \in policyAttrKeys'[d])
      BY <2>2 DEF UpdatePolicyDevices
    <3>2. attrs'[d][k] = IF d \in advertised /\ k \in StaleKeys(d) THEN NoValue
                         ELSE attrs[d][k]
      BY <2>2 DEF UpdatePolicyDevices, NewAttributes
    <3>3. attrs[d][k] # NoValue => d \in advertised /\ k \in StaleKeys(d)
      BY <2>2 DEF AdvertInv, AttributesTracked, StaleKeys
    <3> QED
      BY <3>1, <3>2, <3>3
  <2> QED
    BY <2>1, <2>2
<1> QED
  BY <1>1, <1>2, <1>3 DEF AttributesTracked

\* Every step keeps the invariant.
LEMMA AdvertStep ==
  ASSUME AdvertInv, [Next]_vars
  PROVE  AdvertInv'
<1> USE DEF objectVars, managerVars, reconcileVars
<1>1. CASE GetNode \/ ListPolicies \/ WatchEvent \/ Crash \/ ChangeNode \/ ConfigureVFs
           \/ UNCHANGED vars
  BY <1>1 DEF AdvertInv, AttributesTracked, Apart, GetNode, ListPolicies, WatchEvent,
     Crash, ChangeNode, ConfigureVFs, Change, vars
<1>2. CASE ListDeviceAttributes
  <2>1. \/ UNCHANGED policyDevices
        \/ policyDevices' = getPolicyDeviceMap(seenNode, seenPolicies, deviceAttributes)
    BY <1>2 DEF ListDeviceAttributes
  <2>2. Apart(DOMAIN policyDevices)'
    BY <2>1, MapApart DEF AdvertInv, Apart
  <2> QED
    BY <1>2, <2>2 DEF ListDeviceAttributes, AdvertInv, AttributesTracked, Apart
<1>3. CASE UpdatePolicyDevices
  <2>1. /\ advertised' = DOMAIN policyDevices
        /\ UNCHANGED <<policyDevices, slice>>
    BY <1>3 DEF UpdatePolicyDevices
  <2> QED
    BY <1>3, <2>1, UpdateTracks DEF AdvertInv, Apart
<1>4. CASE Republish \/ Start
  <2>1. DOMAIN slice' = DOMAIN slice \/ DOMAIN slice' = advertised
    BY <1>4 DEF Republish, Start, PublishResources
  <2> QED
    BY <1>4, <2>1 DEF Republish, Start, AdvertInv, AttributesTracked, Apart
<1>5. CASE NewManager
  BY <1>5, AttributeAssumption DEF NewManager, AdvertInv, AttributesTracked, Apart
<1>6. ASSUME NEW n, ChangePolicy(n) \/ ChangeDeviceAttributes(n) PROVE AdvertInv'
  BY <1>6 DEF ChangePolicy, ChangeDeviceAttributes, Change, AdvertInv,
     AttributesTracked, Apart
<1> QED
  BY <1>1, <1>2, <1>3, <1>4, <1>5, <1>6 DEF Next, ControllerStep

\* The inductive invariant holds of every behaviour.
THEOREM AdvertInvCorrect == Spec => []AdvertInv
<1>1. Init => AdvertInv
  BY AttributeAssumption DEF Init, AdvertInv, AttributesTracked, Apart
<1>2. AdvertInv /\ [Next]_vars => AdvertInv'
  BY AdvertStep
<1> QED
  BY <1>1, <1>2, PTL DEF Spec

\* UpdatePolicyDevices never lets a policy touch what discovery found, and
\* never leaves a policy attribute behind that it does not track.
THEOREM AttributesTrackedCorrect == Spec => []AttributesTracked
<1>1. AdvertInv => AttributesTracked
  BY DEF AdvertInv
<1> QED
  BY <1>1, AdvertInvCorrect, PTL

\* The ResourceSlice never offers a PF together with one of its VFs.
THEOREM NoPFWithItsVFsCorrect == Spec => []NoPFWithItsVFs
<1>1. AdvertInv => NoPFWithItsVFs
  BY DEF AdvertInv, Apart, NoPFWithItsVFs
<1> QED
  BY <1>1, AdvertInvCorrect, PTL

-----------------------------------------------------------------------------
(* Types *)

\* A set of natural numbers has a least element.
LEMMA LeastNumber ==
  ASSUME NEW T \in SUBSET Nat, T # {}
  PROVE  \E x \in T : \A y \in T : x <= y
<1> DEFINE R == {ss \in Nat \X Nat : ss[1] < ss[2]}
<1>1. IsWellFoundedOn(R, Nat)
  BY NatLessThanWellFounded DEF OpToRel
<1> HIDE DEF R
<1>2. PICK x \in T : \A y \in T : ~(<<y, x>> \in R)
  BY <1>1, WFMin
<1>3. \A m, n \in Nat : <<n, m>> \in R <=> n < m
  BY DEF R
<1>4. ASSUME NEW y \in T PROVE x <= y
  <2>1. x \in Nat /\ y \in Nat
    OBVIOUS
  <2>2. <<y, x>> \notin R
    BY <1>2
  <2>3. ~(y < x)
    BY <1>3, <2>1, <2>2
  <2> QED
    BY <2>1, <2>3
<1> QED
  BY <1>4

\* A finite set of names has a last one: a smallest counterexample would be
\* one without one of its elements.
LEMMA LastName ==
  ASSUME NEW S \in SUBSET Nat, IsFiniteSet(S), S # {}
  PROVE  \E n \in S : \A m \in S : m <= n
<1> DEFINE F == {T \in SUBSET S : T # {} /\ ~\E n \in T : \A m \in T : m <= n}
           C == {Cardinality(T) : T \in F}
<1> SUFFICES ASSUME F # {} PROVE FALSE
  OBVIOUS
<1>1. \A T \in SUBSET S : IsFiniteSet(T) /\ Cardinality(T) \in Nat
  BY FS_Subset, FS_CardinalityType
<1>2. C \in SUBSET Nat /\ C # {}
  BY <1>1
<1> HIDE DEF C
<1>3. PICK k \in C : \A j \in C : k <= j
  BY <1>2, LeastNumber
<1> USE DEF C
<1>4. PICK T \in F : Cardinality(T) = k
  BY <1>3
<1>5. PICK x \in T : TRUE
  OBVIOUS
<1> DEFINE U == T \ {x}
<1>6. Cardinality(U) = Cardinality(T) - 1
  BY <1>1, <1>5, FS_RemoveElement
<1>7. U \notin F
  <2> SUFFICES ASSUME U \in F PROVE FALSE
    OBVIOUS
  <2>1. k <= Cardinality(U)
    BY <1>3
  <2>2. Cardinality(T) \in Nat /\ k = Cardinality(T)
    BY <1>1, <1>4
  <2> HIDE DEF U
  <2> QED
    BY <1>6, <2>1, <2>2
<1>8. CASE U = {}
  BY <1>5, <1>8
<1>9. CASE U # {}
  <2>1. PICK n \in U : \A m \in U : m <= n
    BY <1>7, <1>9
  <2>2. n \in Nat /\ x \in Nat
    OBVIOUS
  <2> QED
    BY <1>5, <2>1, <2>2
<1> QED
  BY <1>8, <1>9

\* resolveDeviceAttributes takes each attribute from an object that sets it.
LEMMA ResolveType ==
  ASSUME NEW selector, NEW objects \in ObjectStates(AttributeSpecs)
  PROVE  resolveDeviceAttributes(selector, objects) \in Attributes
<1> DEFINE matched == {n \in DOMAIN objects :
               objects[n] # Absent /\ \E s \in selector : s \subseteq objects[n].labels}
           With(k) == {n \in matched : objects[n].attributes[k] # NoValue}
           Last(S) == CHOOSE n \in S : \A m \in S : m <= n
           Value(k) == IF With(k) = {} THEN NoValue ELSE objects[Last(With(k))].attributes[k]
<1>1. DOMAIN objects = DOMAIN AttributeSpecs
      /\ \A n \in DOMAIN objects : objects[n] \in AttributeSpecs[n]
  BY DEF ObjectStates
<1>2. ASSUME NEW k \in Keys PROVE Value(k) \in Values \cup {NoValue}
  <2>1. CASE With(k) = {}
    BY <2>1
  <2>2. CASE With(k) # {}
    <3>1. With(k) \in SUBSET DOMAIN AttributeSpecs
      BY <1>1
    <3> HIDE DEF With
    <3>2. With(k) \in SUBSET Nat /\ IsFiniteSet(With(k))
      BY <3>1, ObjectAssumption, FS_Subset
    <3>3. \E n \in With(k) : \A m \in With(k) : m <= n
      BY <2>2, <3>2, LastName
    <3>4. Last(With(k)) \in With(k)
      BY <3>3
    <3> DEFINE n == Last(With(k))
    <3> HIDE DEF Last, n
    <3>5. n \in With(k)
      BY <3>4 DEF n
    <3>6. n \in matched
      BY <3>5 DEF With
    <3>7. objects[n].attributes \in Attributes
      BY <1>1, <3>6, ObjectAssumption
    <3>8. Value(k) = objects[n].attributes[k]
      BY <2>2 DEF n
    <3> QED
      BY <3>7, <3>8 DEF Attributes
  <2> QED
    BY <2>1, <2>2
<1>3. resolveDeviceAttributes(selector, objects) = [k \in Keys |-> Value(k)]
  BY DEF resolveDeviceAttributes
<1> HIDE DEF Value
<1> QED
  BY <1>2, <1>3 DEF Attributes

\* What a computed map gives to the devices.
LEMMA MapType ==
  ASSUME NEW labels, NEW ps, NEW objects \in ObjectStates(AttributeSpecs)
  PROVE  LET map == getPolicyDeviceMap(labels, ps, objects)
         IN  /\ DOMAIN map \subseteq allocatable
             /\ \A d \in DOMAIN map : map[d] \in Attributes
BY ResolveType DEF getPolicyDeviceMap

\* An API object is replaced by another one that its name allows.
LEMMA ObjectChange ==
  ASSUME NEW specs, NEW f \in ObjectStates(specs), NEW n \in DOMAIN specs, NEW s \in specs[n]
  PROVE  [f EXCEPT ![n] = s] \in ObjectStates(specs)
BY DEF ObjectStates

\* Every step keeps the types.
LEMMA TypeStep ==
  ASSUME TypeOK, [Next]_vars
  PROVE  TypeOK'
<1> USE DEF objectVars, managerVars, reconcileVars, Fault, NoFault
<1>0. /\ faults \in Nat /\ changes \in Nat /\ crashes \in Nat
      /\ pending \subseteq {"watch", "queue"} /\ node \in NodeStates /\ hostVFs \in VFSets
  BY DEF TypeOK
<1>1. CASE GetNode \/ ListPolicies \/ WatchEvent \/ Crash
  <2>1. UNCHANGED <<node, policies, deviceAttributes, hostVFs, slice, allocatable, attrs,
                    advertised, policyAttrKeys, policyDevices, changes>>
    BY <1>1 DEF GetNode, ListPolicies, WatchEvent, Crash
  <2>2. faults' \in Nat /\ crashes' \in Nat
    BY <1>0, <1>1 DEF GetNode, ListPolicies, WatchEvent, Crash
  <2>3. /\ pc' = pc \/ pc' \in {"down", "idle", "policies", "attributes"}
        /\ pending' \subseteq {"watch", "queue"}
    BY <1>0, <1>1 DEF GetNode, ListPolicies, WatchEvent, Crash, Requeue
  <2> QED
    BY <2>1, <2>2, <2>3 DEF TypeOK
<1>2. CASE UNCHANGED vars
  BY <1>2 DEF TypeOK, vars
<1>3. CASE ListDeviceAttributes
  <2>1. /\ UNCHANGED <<objectVars, slice, managerVars, changes, crashes>>
        /\ pc' \in {"update", "idle"} /\ pending' \subseteq {"watch", "queue"}
    BY <1>0, <1>3 DEF ListDeviceAttributes, Requeue
  <2>2. faults' \in Nat
    BY <1>0, <1>3 DEF ListDeviceAttributes
  <2>3. \/ UNCHANGED policyDevices
        \/ policyDevices' = getPolicyDeviceMap(seenNode, seenPolicies, deviceAttributes)
    BY <1>3 DEF ListDeviceAttributes
  <2>4. DOMAIN policyDevices' \subseteq allocatable
        /\ \A d \in DOMAIN policyDevices' : policyDevices'[d] \in Attributes
    BY <2>3, MapType DEF TypeOK
  <2> QED
    BY <2>1, <2>2, <2>4 DEF TypeOK
<1>4. CASE UpdatePolicyDevices
  <2>1. /\ UNCHANGED <<objectVars, pending, slice, allocatable, reconcileVars, faults,
                       changes, crashes>>
        /\ pc' \in {"publish", "idle"} /\ advertised' = DOMAIN policyDevices
    BY <1>4 DEF UpdatePolicyDevices
  <2>2. policyAttrKeys' \in [Devices -> SUBSET Keys]
    BY <1>4 DEF UpdatePolicyDevices, PolicyKeys
  <2>3. ASSUME NEW d \in Devices PROVE NewAttributes(d) \in Attributes
    BY DEF TypeOK, NewAttributes, PolicyKeys, Attributes
  <2>4. attrs' \in [Devices -> Attributes]
    BY <1>4, <2>3 DEF UpdatePolicyDevices
  <2> QED
    BY <2>1, <2>2, <2>4 DEF TypeOK
<1>5. CASE Republish \/ Start
  <2>1. /\ UNCHANGED <<objectVars, managerVars, reconcileVars, changes, crashes>>
        /\ pc' \in {"idle", "down"} /\ pending' \subseteq {"watch", "queue"}
    BY <1>0, <1>5 DEF Republish, Start, Requeue
  <2>2. faults' \in Nat
    BY <1>0, <1>5 DEF Republish, Start
  <2>3. slice' = slice \/ slice' = [d \in advertised |-> attrs[d]]
    BY <1>5 DEF Republish, Start, PublishResources
  <2>4. DOMAIN slice' \subseteq Devices /\ \A d \in DOMAIN slice' : slice'[d] \in Attributes
    BY <2>3 DEF TypeOK
  <2> QED
    BY <2>1, <2>2, <2>4 DEF TypeOK
<1>6. CASE NewManager
  BY <1>6, DeviceAssumption, AttributeAssumption DEF TypeOK, NewManager, Devices
<1>7. CASE ChangeNode \/ ConfigureVFs
  <2>1. UNCHANGED <<policies, deviceAttributes, slice, pc, managerVars, reconcileVars, faults,
                    crashes>>
    BY <1>7 DEF ChangeNode, ConfigureVFs, Change
  <2>2. /\ node' \in NodeStates /\ hostVFs' \in VFSets
        /\ pending' \subseteq {"watch", "queue"}
    BY <1>0, <1>7 DEF ChangeNode, ConfigureVFs
  <2>3. changes' \in Nat
    BY <1>0, <1>7 DEF ChangeNode, ConfigureVFs, Change
  <2> QED
    BY <2>1, <2>2, <2>3 DEF TypeOK
<1>8. ASSUME NEW n \in DOMAIN PolicySpecs, ChangePolicy(n) PROVE TypeOK'
  <2>1. policies' \in ObjectStates(PolicySpecs)
    <3>1. PICK s \in PolicySpecs[n] : policies' = [policies EXCEPT ![n] = s]
      BY <1>8 DEF ChangePolicy
    <3>2. policies \in ObjectStates(PolicySpecs)
      BY DEF TypeOK
    <3> QED
      BY <3>1, <3>2, ObjectChange
  <2>2. /\ changes' \in Nat /\ pending' \subseteq {"watch", "queue"}
        /\ UNCHANGED <<slice, pc, managerVars, reconcileVars, faults, crashes, node, hostVFs>>
    BY <1>0, <1>8 DEF ChangePolicy, Change
  <2> QED
    BY <1>8, <2>1, <2>2 DEF TypeOK, ChangePolicy
<1>9. ASSUME NEW n \in DOMAIN AttributeSpecs, ChangeDeviceAttributes(n) PROVE TypeOK'
  <2>1. deviceAttributes' \in ObjectStates(AttributeSpecs)
    <3>1. PICK s \in AttributeSpecs[n] : deviceAttributes' = [deviceAttributes EXCEPT ![n] = s]
      BY <1>9 DEF ChangeDeviceAttributes
    <3>2. deviceAttributes \in ObjectStates(AttributeSpecs)
      BY DEF TypeOK
    <3> QED
      BY <3>1, <3>2, ObjectChange
  <2>2. /\ changes' \in Nat /\ pending' \subseteq {"watch", "queue"}
        /\ UNCHANGED <<slice, pc, managerVars, reconcileVars, faults, crashes, node, hostVFs>>
    BY <1>0, <1>9 DEF ChangeDeviceAttributes, Change
  <2> QED
    BY <1>9, <2>1, <2>2 DEF TypeOK, ChangeDeviceAttributes
<1> QED
  BY <1>1, <1>2, <1>3, <1>4, <1>5, <1>6, <1>7, <1>8, <1>9 DEF Next, ControllerStep

\* The controller, the manager and the slice keep their types; in particular
\* only devices that were discovered are ever matched or advertised.
THEOREM AdvertTypes == Spec => []TypeOK
<1>1. Init => TypeOK
  BY AttributeAssumption DEF Init, TypeOK
<1>2. TypeOK /\ [Next]_vars => TypeOK'
  BY TypeStep
<1> QED
  BY <1>1, <1>2, PTL DEF Spec

-----------------------------------------------------------------------------
(* The slice is current *)

\* Publishing does not fail, and whatever the policies select sets at least one
\* attribute of its own (a resource name): the cases in which UpdatePolicyDevices
\* sees every change it has to publish.
NamedPolicies ==
    /\ "publish" \notin Faults
    /\ \A n \in DOMAIN PolicySpecs : \A s \in PolicySpecs[n] : s # Absent =>
          \A i \in DOMAIN s.configs : \A objects \in ObjectStates(AttributeSpecs) :
              PolicyKeys(resolveDeviceAttributes(s.configs[i].deviceAttributesSelector,
                                                 objects)) # {}

\* What the manager advertises at this moment.
Offered == [d \in advertised |-> attrs[d]]

\* What Reconcile has read and computed is of this moment, or another request
\* is on its way; what is advertised is published before the next read.
FreshInv ==
    /\ seenPolicies \in ObjectStates(PolicySpecs)
    /\ \A d \in advertised : policyAttrKeys[d] # {}
    /\ \A d \in DOMAIN policyDevices : PolicyKeys(policyDevices[d]) # {}
    /\ pc \in {"idle", "policies", "attributes", "update"} => slice = Offered
    /\ pending = {} =>
          /\ pc = "policies" => seenNode = node
          /\ pc = "attributes" => seenNode = node /\ seenPolicies = policies
          /\ pc = "update" =>
                policyDevices = getPolicyDeviceMap(node, policies, deviceAttributes)
          /\ pc \in {"publish", "idle"} => Offered = Wanted

\* The attributes the first config of a set gives.
FirstOf(configs, ps, objects) ==
    LET first == CHOOSE c \in configs : \A e \in configs : Before(c, e)
    IN  resolveDeviceAttributes(ps[first[1]].configs[first[2]].deviceAttributesSelector, objects)

\* getPolicyDeviceMap in terms of the configs that match.
LEMMA MapIs ==
  ASSUME NEW labels, NEW ps, NEW objects
  PROVE  getPolicyDeviceMap(labels, ps, objects) =
           [d \in {x \in allocatable : Matching(x, labels, ps) # {} /\ MayAdvertise(x)} |->
               FirstOf(Matching(d, labels, ps), ps, objects)]
BY DEF getPolicyDeviceMap, FirstOf

\* Policies never change which configs match a device, as filters are about the
\* attributes discovery found.
LEMMA MatchingStable ==
  ASSUME AdvertInv, AdvertInv', NEW d \in Devices, NEW labels,
         NEW ps \in ObjectStates(PolicySpecs)
  PROVE  Matching(d, labels, ps)' = Matching(d, labels, ps) /\ deviceTypeOf(d)' = deviceTypeOf(d)
<1>1. \A k \in Reserved : attrs'[d][k] = attrs[d][k]
  BY AttributeAssumption DEF AdvertInv, AttributesTracked
<1>2. deviceTypeOf(d)' = deviceTypeOf(d)
  BY <1>1, AttributeAssumption DEF deviceTypeOf
<1>3. ASSUME NEW c \in Configs(labels, ps)
      PROVE  LET filters == ps[c[1]].configs[c[2]].resourceFilters
             IN  deviceMatchesFilters(d, filters)' <=> deviceMatchesFilters(d, filters)
  <2> DEFINE filters == ps[c[1]].configs[c[2]].resourceFilters
  <2>1. c[1] \in DOMAIN ps /\ ps[c[1]] # Absent /\ c[2] \in DOMAIN ps[c[1]].configs
    BY DEF Configs
  <2>2. c[1] \in DOMAIN PolicySpecs /\ ps[c[1]] \in PolicySpecs[c[1]]
    BY <2>1 DEF ObjectStates
  <2>3. \A f \in filters : DOMAIN f.want \subseteq Reserved
    BY <2>1, <2>2, ObjectAssumption
  <2> HIDE DEF filters
  <2>4. \A f \in filters : deviceMatchesFilter(d, f)' <=> deviceMatchesFilter(d, f)
    <3> SUFFICES ASSUME NEW f \in filters
                 PROVE  deviceMatchesFilter(d, f)' <=> deviceMatchesFilter(d, f)
      OBVIOUS
    <3>1. \A k \in DOMAIN f.want : attrs'[d][k] = attrs[d][k]
      BY <1>1, <2>3
    <3> QED
      BY <1>2, <3>1 DEF deviceMatchesFilter
  <2>5. deviceMatchesFilters(d, filters)' <=> deviceMatchesFilters(d, filters)
    BY <1>2, <2>4 DEF deviceMatchesFilters
  <2> QED
    BY <2>5 DEF filters
<1>4. Matching(d, labels, ps)' = Matching(d, labels, ps)
  BY <1>3 DEF Matching
<1> QED
  BY <1>2, <1>4

\* What the objects ask for only changes with the objects and with a discovery.
LEMMA WantedStable ==
  ASSUME TypeOK, AdvertInv, AdvertInv',
         UNCHANGED <<node, policies, deviceAttributes, allocatable>>
  PROVE  /\ getPolicyDeviceMap(node, policies, deviceAttributes)' =
              getPolicyDeviceMap(node, policies, deviceAttributes)
         /\ Wanted' = Wanted
<1>1. PICK labels, ps, objects : labels = node /\ ps = policies /\ objects = deviceAttributes
  OBVIOUS
<1>2. ps \in ObjectStates(PolicySpecs) /\ allocatable \subseteq Devices
  BY <1>1 DEF TypeOK
<1>3. \A d \in allocatable :
         Matching(d, labels, ps)' = Matching(d, labels, ps) /\ MayAdvertise(d)' = MayAdvertise(d)
  <2> SUFFICES ASSUME NEW d \in allocatable
               PROVE  /\ Matching(d, labels, ps)' = Matching(d, labels, ps)
                      /\ MayAdvertise(d)' = MayAdvertise(d)
    OBVIOUS
  <2>1. /\ Matching(d, labels, ps)' = Matching(d, labels, ps)
        /\ deviceTypeOf(d)' = deviceTypeOf(d)
    BY <1>2, MatchingStable
  <2>2. deviceNumVFs(d)' = deviceNumVFs(d)
    BY DEF deviceNumVFs
  <2> QED
    BY <2>1, <2>2 DEF MayAdvertise
<1> DEFINE map == getPolicyDeviceMap(labels, ps, objects)
<1>4. map' = [d \in {x \in allocatable' : Matching(x, labels, ps)' # {} /\ MayAdvertise(x)'} |->
                FirstOf(Matching(d, labels, ps)', ps, objects)]
  BY DEF getPolicyDeviceMap, FirstOf
<1>5. map' = map
  BY <1>3, <1>4, MapIs
<1>6. /\ getPolicyDeviceMap(node, policies, deviceAttributes)' = map'
      /\ getPolicyDeviceMap(node, policies, deviceAttributes) = map
  <2>1. node' = labels /\ policies' = ps /\ deviceAttributes' = objects
    BY <1>1
  <2> QED
    BY <1>1, <2>1 DEF getPolicyDeviceMap
<1> QED
  BY <1>5, <1>6 DEF Wanted

\* Of the configs that match a device one is the first.
LEMMA FirstConfig ==
  ASSUME NEW labels, NEW ps \in ObjectStates(PolicySpecs),
         NEW S \in SUBSET Configs(labels, ps), S # {}
  PROVE  \E c \in S : \A e \in S : Before(c, e)
<1>1. \A c \in S : c[1] \in Nat /\ c[2] \in Nat
  <2> SUFFICES ASSUME NEW c \in S PROVE c[1] \in Nat /\ c[2] \in Nat
    OBVIOUS
  <2>1. c[1] \in DOMAIN ps /\ ps[c[1]] # Absent /\ c[2] \in DOMAIN ps[c[1]].configs
    BY DEF Configs
  <2>2. c[1] \in DOMAIN PolicySpecs /\ ps[c[1]] \in PolicySpecs[c[1]]
    BY <2>1 DEF ObjectStates
  <2> QED
    BY <2>1, <2>2, ObjectAssumption
<1> DEFINE N == {c[1] : c \in S}
<1>2. N \in SUBSET Nat /\ N # {}
  BY <1>1
<1> HIDE DEF N
<1>3. PICK n \in N : \A m \in N : n <= m
  BY <1>2, LeastNumber
<1> DEFINE I == {c[2] : c \in {x \in S : x[1] = n}}
<1>4. I \in SUBSET Nat /\ I # {}
  BY <1>1, <1>3 DEF N
<1> HIDE DEF I
<1>5. PICK i \in I : \A j \in I : i <= j
  BY <1>4, LeastNumber
<1>6. PICK c \in S : c[1] = n /\ c[2] = i
  BY <1>5 DEF I
<1>7. ASSUME NEW e \in S PROVE Before(c, e)
  <2>1. n <= e[1] /\ n \in Nat /\ e[1] \in Nat
    BY <1>1, <1>2, <1>3 DEF N
  <2>2. e[1] = n => i <= e[2]
    BY <1>5 DEF I
  <2> QED
    BY <1>6, <2>1, <2>2 DEF Before
<1> QED
  BY <1>7

\* The map names every device it holds: each gets attributes some config selects.
LEMMA MapNamed ==
  ASSUME NamedPolicies, NEW labels, NEW ps \in ObjectStates(PolicySpecs),
         NEW objects \in ObjectStates(AttributeSpecs)
  PROVE  LET map == getPolicyDeviceMap(labels, ps, objects)
         IN  \A d \in DOMAIN map : PolicyKeys(map[d]) # {}
<1> DEFINE map == getPolicyDeviceMap(labels, ps, objects)
<1> SUFFICES ASSUME NEW d \in DOMAIN map PROVE PolicyKeys(map[d]) # {}
  OBVIOUS
<1> DEFINE S == Matching(d, labels, ps)
           first == CHOOSE c \in S : \A e \in S : Before(c, e)
<1>1. S # {} /\ map[d] = FirstOf(S, ps, objects)
  BY MapIs
<1>2. S \in SUBSET Configs(labels, ps)
  BY DEF Matching
<1> HIDE DEF S, map
<1>3. first \in S
  BY <1>1, <1>2, FirstConfig
<1>4. map[d] = resolveDeviceAttributes(ps[first[1]].configs[first[2]].deviceAttributesSelector,
                                       objects)
  BY <1>1 DEF FirstOf
<1> HIDE DEF first
<1>5. first[1] \in DOMAIN ps /\ ps[first[1]] # Absent /\ first[2] \in DOMAIN ps[first[1]].configs
  BY <1>2, <1>3 DEF Configs
<1>6. first[1] \in DOMAIN PolicySpecs /\ ps[first[1]] \in PolicySpecs[first[1]]
  BY <1>5 DEF ObjectStates
<1> QED
  BY <1>4, <1>5, <1>6 DEF NamedPolicies

\* What UpdatePolicyDevices makes of a map: the advertised devices with what
\* discovery found and what the map adds.
LEMMA UpdateOffers ==
  ASSUME TypeOK, AdvertInv, AdvertInv', FreshInv, UpdatePolicyDevices
  PROVE  /\ Offered' = [d \in DOMAIN policyDevices |-> [k \in Keys |->
                           IF k \in Reserved THEN Discovery[d][k] ELSE policyDevices[d][k]]]
         /\ ~ChangesMade => Offered' = Offered
<1>1. /\ advertised' = DOMAIN policyDevices /\ DOMAIN policyDevices \subseteq Devices
      /\ attrs' = [d \in Devices |-> NewAttributes(d)]
  BY DEF UpdatePolicyDevices, TypeOK
<1>2. ASSUME NEW d \in DOMAIN policyDevices, NEW k \in Keys
      PROVE  NewAttributes(d)[k] =
               IF k \in Reserved THEN Discovery[d][k] ELSE policyDevices[d][k]
  <2>1. d \in Devices
    BY <1>1
  <2>2. CASE k \in Reserved
    BY <1>1, <2>1, <2>2 DEF AdvertInv, AttributesTracked
  <2>3. CASE k \notin Reserved
    <3>1. CASE policyDevices[d][k] # NoValue
      BY <2>3, <3>1 DEF NewAttributes, PolicyKeys
    <3>2. CASE policyDevices[d][k] = NoValue
      <4>1. k \notin PolicyKeys(policyDevices[d])
        BY <3>2 DEF PolicyKeys
      <4>2. attrs[d][k] # NoValue <=> d \in advertised /\ k \in policyAttrKeys[d]
        BY <2>1, <2>3 DEF AdvertInv, AttributesTracked
      <4> QED
        BY <2>3, <3>2, <4>1, <4>2 DEF NewAttributes, StaleKeys
    <3> QED
      BY <3>1, <3>2
  <2> QED
    BY <2>2, <2>3
<1>3. \A d \in DOMAIN policyDevices :
         NewAttributes(d) = [k \in Keys |->
             IF k \in Reserved THEN Discovery[d][k] ELSE policyDevices[d][k]]
  BY <1>2 DEF NewAttributes
<1>4. Offered' = [d \in DOMAIN policyDevices |-> NewAttributes(d)]
  BY <1>1 DEF Offered
<1>5. ASSUME ~ChangesMade PROVE Offered' = Offered
  <2>1. advertised \ DOMAIN policyDevices = {}
    BY <1>5 DEF ChangesMade, Clears, FreshInv
  <2>2. advertised = DOMAIN policyDevices
    BY <1>5, <2>1 DEF ChangesMade
  <2>3. \A d \in DOMAIN policyDevices : NewAttributes(d) = attrs[d]
    BY <1>5 DEF ChangesMade
  <2> QED
    BY <1>4, <2>2, <2>3 DEF Offered
<1> QED
  BY <1>3, <1>4, <1>5

\* Every step keeps what is read and published current.
LEMMA FreshStep ==
  ASSUME NamedPolicies, TypeOK, TypeOK', AdvertInv, AdvertInv', FreshInv, [Next]_vars
  PROVE  FreshInv'
<1> USE DEF objectVars, managerVars, reconcileVars
<1>0. ~Fault("publish")
  BY DEF NamedPolicies, Fault
<1> DEFINE MapNow == getPolicyDeviceMap(node, policies, deviceAttributes)
<1>1. ASSUME UNCHANGED <<node, policies, deviceAttributes, allocatable>>
      PROVE  Wanted' = Wanted /\ MapNow' = MapNow
  BY <1>1, WantedStable
<1>2. ASSUME UNCHANGED <<advertised, attrs>> PROVE Offered' = Offered
  BY <1>2 DEF Offered
<1> HIDE DEF MapNow
<1>3. CASE GetNode \/ ListPolicies \/ WatchEvent \/ Crash \/ UNCHANGED vars
  <2>1. UNCHANGED <<node, policies, deviceAttributes, slice, allocatable, attrs, advertised,
                    policyAttrKeys, policyDevices>>
    BY <1>3 DEF GetNode, ListPolicies, WatchEvent, Crash, vars
  <2>2. Wanted' = Wanted /\ MapNow' = MapNow /\ Offered' = Offered
    BY <1>1, <1>2, <2>1
  <2>3. CASE GetNode
    BY <2>1, <2>2, <2>3 DEF GetNode, Requeue, FreshInv
  <2>4. CASE ListPolicies
    BY <2>1, <2>2, <2>4 DEF ListPolicies, Requeue, FreshInv, TypeOK
  <2>5. CASE WatchEvent
    BY <2>1, <2>2, <2>5 DEF WatchEvent, FreshInv
  <2>6. CASE Crash
    BY <2>1, <2>2, <2>6 DEF Crash, FreshInv
  <2>7. CASE UNCHANGED vars
    BY <2>1, <2>2, <2>7 DEF vars, FreshInv, MapNow
  <2> QED
    BY <1>3, <2>3, <2>4, <2>5, <2>6, <2>7
<1>4. CASE ListDeviceAttributes
  <2>1. UNCHANGED <<node, policies, deviceAttributes, slice, allocatable, attrs, advertised,
                    policyAttrKeys, seenNode, seenPolicies>> /\ pc = "attributes"
    BY <1>4 DEF ListDeviceAttributes
  <2>2. Wanted' = Wanted /\ MapNow' = MapNow /\ Offered' = Offered
    BY <1>1, <1>2, <2>1
  <2>3. CASE Requeue /\ UNCHANGED policyDevices
    BY <2>1, <2>2, <2>3 DEF Requeue, FreshInv
  <2>4. CASE /\ policyDevices' = getPolicyDeviceMap(seenNode, seenPolicies, deviceAttributes)
             /\ pc' = "update" /\ pending' = pending
    <3>1. \A d \in DOMAIN policyDevices' : PolicyKeys(policyDevices'[d]) # {}
      BY <2>4, MapNamed DEF FreshInv, TypeOK
    <3>2. pending' = {} => policyDevices' = MapNow'
      BY <2>1, <2>2, <2>4 DEF FreshInv, MapNow
    <3> QED
      BY <2>1, <2>2, <2>4, <3>1, <3>2 DEF FreshInv, MapNow
  <2> QED
    BY <1>4, <2>3, <2>4 DEF ListDeviceAttributes
<1>5. CASE UpdatePolicyDevices
  <2>1. /\ UNCHANGED <<node, policies, deviceAttributes, slice, allocatable, pending,
                       policyDevices, seenNode, seenPolicies>>
        /\ pc = "update" /\ pc' = IF ChangesMade THEN "publish" ELSE "idle"
        /\ advertised' = DOMAIN policyDevices
    BY <1>5 DEF UpdatePolicyDevices
  <2>2. Wanted' = Wanted
    BY <1>1, <2>1
  <2>3. ASSUME NEW d \in advertised' PROVE policyAttrKeys'[d] # {}
    BY <1>5, <2>1 DEF UpdatePolicyDevices, FreshInv, TypeOK
  <2>4. pc' = "idle" => slice' = Offered'
    BY <1>5, <2>1, UpdateOffers DEF FreshInv
  <2>5. pending' = {} => Offered' = Wanted'
    <3> SUFFICES ASSUME pending' = {} PROVE Offered' = Wanted
      BY <2>2
    <3>1. policyDevices = getPolicyDeviceMap(node, policies, deviceAttributes)
      BY <2>1 DEF FreshInv
    <3> QED
      BY <1>5, <3>1, UpdateOffers DEF Wanted
  <2> QED
    BY <2>1, <2>3, <2>4, <2>5 DEF FreshInv
<1>6. CASE Republish
  <2>1. /\ UNCHANGED <<node, policies, deviceAttributes, allocatable, attrs, advertised,
                       policyAttrKeys, policyDevices, seenNode, seenPolicies, pending>>
        /\ pc = "publish" /\ pc' = "idle" /\ slice' = Offered
    BY <1>0, <1>6 DEF Republish, PublishResources, Offered
  <2>2. Wanted' = Wanted /\ Offered' = Offered
    BY <1>1, <1>2, <2>1
  <2> QED
    BY <2>1, <2>2 DEF FreshInv
<1>7. CASE Start
  <2>1. /\ UNCHANGED <<allocatable, attrs, advertised, policyAttrKeys, policyDevices,
                       seenNode, seenPolicies>>
        /\ pc' = "idle" /\ slice' = Offered /\ pending' = {"queue"}
    BY <1>0, <1>7 DEF Start, PublishResources, Offered
  <2>2. Offered' = Offered
    BY <1>2, <2>1
  <2> QED
    BY <2>1, <2>2 DEF FreshInv
<1>8. CASE NewManager
  BY <1>8 DEF NewManager, FreshInv
<1>9. ASSUME NEW n, ChangePolicy(n) \/ ChangeDeviceAttributes(n) PROVE FreshInv'
  <2>1. UNCHANGED <<allocatable, attrs, advertised, policyAttrKeys, policyDevices,
                    seenNode, seenPolicies, slice, pc>> /\ pending' # {}
    BY <1>9 DEF ChangePolicy, ChangeDeviceAttributes, Change
  <2> QED
    BY <1>2, <2>1 DEF FreshInv
<1>10. CASE ChangeNode
  <2>1. UNCHANGED <<allocatable, attrs, advertised, policyAttrKeys, policyDevices,
                    seenNode, seenPolicies, slice, pc>> /\ pending' # {}
    BY <1>10 DEF ChangeNode, Change
  <2> QED
    BY <1>2, <2>1 DEF FreshInv
<1>11. CASE ConfigureVFs
  <2>1. UNCHANGED <<node, policies, deviceAttributes, allocatable, attrs, advertised,
                    policyAttrKeys, policyDevices, seenNode, seenPolicies, slice, pc, pending>>
    BY <1>11 DEF ConfigureVFs, Change
  <2>2. Wanted' = Wanted /\ MapNow' = MapNow /\ Offered' = Offered
    BY <1>1, <1>2, <2>1
  <2> QED
    BY <2>1, <2>2 DEF FreshInv, MapNow
<1> QED
  BY <1>3, <1>4, <1>5, <1>6, <1>7, <1>8, <1>9, <1>10, <1>11 DEF Next, ControllerStep

\* The inductive invariant of a controller whose policies name their devices.
THEOREM FreshInvCorrect == ASSUME NamedPolicies PROVE Spec => []FreshInv
<1>1. Init => FreshInv
  BY DEF Init, FreshInv
<1>2. TypeOK /\ TypeOK' /\ AdvertInv /\ AdvertInv' /\ FreshInv /\ [Next]_vars => FreshInv'
  BY FreshStep
<1> QED
  BY <1>1, <1>2, AdvertTypes, AdvertInvCorrect, PTL DEF Spec

\* Once every change has been handled, the ResourceSlice is what the objects ask
\* for: no order in which the changes, the three reads of Reconcile, failed
\* reads and crashes interleave leaves a stale one, when publishing does not
\* fail and the policies name their devices.
THEOREM SliceIsCurrentCorrect == ASSUME NamedPolicies PROVE Spec => []SliceIsCurrent
<1>1. FreshInv => SliceIsCurrent
  BY DEF FreshInv, SliceIsCurrent
<1> QED
  BY <1>1, FreshInvCorrect, PTL

\* A PF in a slice without pending changes was asked for by a filter for PFs of
\* a policy that exists, under the same hypothesis.
THEOREM PFsOptInCorrect == ASSUME NamedPolicies PROVE Spec => []PFsOptIn
<1>1. AdvertInv /\ SliceIsCurrent => PFsOptIn
  <2> SUFFICES ASSUME AdvertInv, slice = Wanted, NEW d \in DOMAIN slice \cap PFs
               PROVE  \E n \in DOMAIN policies :
                         /\ policies[n] # Absent
                         /\ \E i \in DOMAIN policies[n].configs :
                               \E f \in policies[n].configs[i].resourceFilters :
                                   f.deviceType = "pf"
    BY DEF SliceIsCurrent, PFsOptIn
  <2>1. d \in DOMAIN getPolicyDeviceMap(node, policies, deviceAttributes)
    BY DEF Wanted
  <2>2. Matching(d, node, policies) # {}
    BY <2>1 DEF getPolicyDeviceMap
  <2>3. PICK c \in Configs(node, policies) :
           deviceMatchesFilters(d, policies[c[1]].configs[c[2]].resourceFilters)
    BY <2>2 DEF Matching
  <2>4. /\ c[1] \in DOMAIN policies /\ policies[c[1]] # Absent
        /\ c[2] \in DOMAIN policies[c[1]].configs
    BY DEF Configs
  <2>5. deviceTypeOf(d) = "pf"
    BY AttributeAssumption DEF AdvertInv, AttributesTracked, deviceTypeOf, Devices
  <2>6. \E f \in policies[c[1]].configs[c[2]].resourceFilters : f.deviceType = "pf"
    BY <2>3, <2>5 DEF deviceMatchesFilters, deviceMatchesFilter
  <2> QED
    BY <2>4, <2>6
<1> QED
  BY <1>1, SliceIsCurrentCorrect, AdvertInvCorrect, PTL
=============================================================================
