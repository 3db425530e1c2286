------------------------ MODULE ClaimLifecycleProofs ------------------------
(***************************************************************************)
(* Proofs about ClaimLifecycle for every set of pods, claims and devices:  *)
(* the type invariant, the names of interfaces (NameInv) and what is left  *)
(* behind when a claim is undone (UndoInv).                                *)
(***************************************************************************)
EXTENDS ClaimLifecycleInv, TLAPS

\* What the driver operators return is a driver or no driver.
LEMMA BindTypes ==
  ASSUME TypeOK, NEW d \in Devices, NEW w \in ConfigDriver
  PROVE  /\ BindTarget(d, w) \in BoundDriver
         /\ OriginalDriver(d, w) \in BoundDriver
BY DriverAssumption
   DEF TypeOK, BindTarget, OriginalDriver, DefaultFrom, BoundDriver,
       ConfigDriver, NoDriver, DefaultDriver

\* So is the driver a restore ends with.
LEMMA RestoreTypes ==
  ASSUME NEW d \in Devices, NEW b \in BoundDriver, NEW o \in BoundDriver
  PROVE  RestoreTarget(d, o, b) \in BoundDriver
BY DriverAssumption DEF RestoreTarget, DefaultFrom, BoundDriver

\* What is read off a set of records has its type.
LEMMA RecordTypes ==
  ASSUME NEW rs \in SUBSET PreparedDevice
  PROVE  /\ \A r \in rs : /\ r.pod \in Pods /\ r.claim \in Claims
                          /\ r.dev \in Devices /\ r.orig \in BoundDriver
         /\ DevicesIn(rs) \subseteq Devices
         /\ ToRestore(rs) \subseteq DevicesIn(rs)
         /\ InfoFiles(rs) \subseteq DevicesIn(rs)
BY DEF PreparedDevice, DevicesIn, ToRestore, InfoFiles

\* Every step keeps the types.
LEMMA TypeStep ==
  ASSUME TypeOK, [Next]_vars
  PROVE  TypeOK'
<1> USE SentinelAssumption, AllocationAssumption, BoundAssumption
<1>1. ASSUME NEW p \in Pods, PrepareResourceClaims(p) PROVE TypeOK'
  BY <1>1 DEF TypeOK, PrepareResourceClaims, MayPrepare, Stages, Fault,
     NoFault, hostVars, recVars, specVars
<1>2. ASSUME NEW c \in Claims, PrepareResourceClaim(c) PROVE TypeOK'
  BY <1>2 DEF TypeOK, PrepareResourceClaim, AlreadyPrepared, SharedIndex, Stages, Fault,
     NoFault, hostVars, recVars, specVars, envVars
<1>3. ASSUME NEW d \in Devices, ApplyConfigOnDevice(d) PROVE TypeOK'
  BY <1>3, BindTypes DEF TypeOK, ApplyConfigOnDevice, NextIndex, Prepared, PreparedDevice, TakesIndex,
     NoIndex, Stages, NoFault, callVars, recVars, specVars, envVars
<1>4. ASSUME NEW d \in Devices, ApplyConfigOnDeviceFails(d) PROVE TypeOK'
  <2> DEFINE w == Config[claim][d]
             b == BindTarget(d, w)
             r == RestoreTarget(d, OriginalDriver(d, w), b)
  <2>a. claim \in Claims /\ w \in ConfigDriver /\ drv[d] \in BoundDriver
    BY <1>4 DEF TypeOK, ApplyConfigOnDeviceFails
  <2>b. b \in BoundDriver /\ OriginalDriver(d, w) \in BoundDriver
    BY <2>a, BindTypes
  <2>c. r \in BoundDriver
    BY <2>b, RestoreTypes
  <2>d. UNCHANGED drv \/ \E x \in {drv[d], NoDriver, b, r} :
           drv' = [drv EXCEPT ![d] = x]
    BY <1>4 DEF ApplyConfigOnDeviceFails, FailedApply, FailedBind
  <2> HIDE DEF w, b, r
  <2>1. drv' \in [Devices -> BoundDriver]
    BY <2>a, <2>b, <2>c, <2>d DEF TypeOK, BoundDriver
  <2>2. faults' \in Nat
    BY <1>4 DEF TypeOK, ApplyConfigOnDeviceFails, FailedApply, Fault, NoFault
  <2> QED
    BY <1>4, <2>1, <2>2, RecordTypes DEF TypeOK, ApplyConfigOnDeviceFails,
       Undo, Stages, recVars, specVars, envVars
<1>5. CASE NoPreparedDevices
  BY <1>5 DEF TypeOK, NoPreparedDevices, NextClaim, Stages, NoFault,
     hostVars, recVars, specVars, envVars
<1>6. CASE SyncDeviceInfoFiles
  BY <1>6, RecordTypes DEF TypeOK, SyncDeviceInfoFiles, Undo,
     Stages, Fault, NoFault, recVars, specVars, envVars
<1>7. CASE CreateClaimSpecFile
  BY <1>7 DEF TypeOK, CreateClaimSpecFile, Undo, Stages, Fault, NoFault,
     hostVars, recVars, envVars
<1>8. CASE SetClaim
  BY <1>8 DEF TypeOK, SetClaim, SyncToCheckpoint, NextClaim, Undo, Get,
     Stages, Fault, NoFault, hostVars, specVars, envVars
<1>9. CASE CreateGlobalPodSpecFile
  <2>1. DevicesIn(GetDevicesByPodUID(pod)) \subseteq Devices
    BY RecordTypes DEF TypeOK, GetDevicesByPodUID
  <2>a. \/ podSpec' = podSpec
        \/ podSpec' = [podSpec EXCEPT ![pod] =
                           DevicesIn(GetDevicesByPodUID(pod))]
    BY <1>9 DEF CreateGlobalPodSpecFile, Rollback
  <2>2. podSpec' \in [Pods -> SUBSET Devices]
    BY <2>1, <2>a DEF TypeOK
  <2>3. faults' \in Nat
    BY <1>9 DEF TypeOK, CreateGlobalPodSpecFile, Fault, NoFault
  <2>4. /\ stage' \in {"claims", "reply"} /\ todo' \in SUBSET Claims
        /\ op' \in {"prepare", "rollback"} /\ result' \in {"ok", "error"}
    BY <1>9 DEF TypeOK, CreateGlobalPodSpecFile, Rollback
  <2> QED
    BY <1>9, <2>2, <2>3, <2>4 DEF TypeOK, CreateGlobalPodSpecFile, Stages,
       claimVars, hostVars, recVars, envVars
<1>10. ASSUME NEW p \in Pods, UnprepareResourceClaims(p) PROVE TypeOK'
  BY <1>10 DEF TypeOK, UnprepareResourceClaims, Stages, claimVars, hostVars,
     recVars, specVars, envVars
<1>11. ASSUME NEW c \in Claims, UnprepareResourceClaim(c) PROVE TypeOK'
  BY <1>11 DEF TypeOK, UnprepareResourceClaim, UnknownClaim, GetByClaim, Get,
     Stages, hostVars, recVars, specVars, envVars
<1>12. CASE CleanDeviceInfoFiles
  BY <1>12, RecordTypes DEF TypeOK, CleanDeviceInfoFiles, Stages, Fault,
     NoFault, recVars, specVars, envVars
<1>13. ASSUME NEW d \in Devices, RestoreDeviceDriver(d) PROVE TypeOK'
  <2>1. drv' \in [Devices -> BoundDriver]
    <3> PICK r \in cur :
           /\ r.dev = d
           /\ \/ drv' = [drv EXCEPT ![d] = RestoreTarget(d, r.orig, drv[d])]
              \/ \E x \in FailedBind(drv[d], RestoreTarget(d, r.orig, drv[d])) :
                    drv' = [drv EXCEPT ![d] = x]
      BY <1>13 DEF RestoreDeviceDriver
    <3>1. r.orig \in BoundDriver /\ drv[d] \in BoundDriver
      BY RecordTypes DEF TypeOK
    <3>2. RestoreTarget(d, r.orig, drv[d]) \in BoundDriver
      BY <3>1, RestoreTypes
    <3>3. PICK x \in BoundDriver : drv' = [drv EXCEPT ![d] = x]
      BY <3>1, <3>2 DEF FailedBind, BoundDriver
    <3> QED
      BY <3>3 DEF TypeOK
  <2> QED
    BY <1>13, <2>1 DEF TypeOK, RestoreDeviceDriver, Stages, Fault, NoFault,
       callVars, recVars, specVars, envVars
<1>14. CASE DevicesUndone
  BY <1>14 DEF TypeOK, DevicesUndone, NextClaim, Stages, hostVars, recVars,
     specVars, envVars
<1>15. CASE DeleteSpecFiles
  BY <1>15 DEF TypeOK, DeleteSpecFiles, NextClaim, Stages, Fault, NoFault,
     hostVars, recVars, envVars
<1>16. CASE DeleteClaim
  BY <1>16 DEF TypeOK, DeleteClaim, SyncToCheckpoint, Forgotten, NextClaim,
     GetDevicesByPodUID, Stages, Fault, NoFault, hostVars, specVars, envVars
<1>17. CASE UnprepareDone
  BY <1>17 DEF TypeOK, UnprepareDone, Stages, claimVars, hostVars, recVars,
     specVars, envVars
<1>18. CASE Reply
  BY <1>18 DEF TypeOK, Reply, Idle, Stages, Fault, NoFault, hostVars, recVars,
     specVars
<1>19. ASSUME NEW p \in Pods, Admit(p) \/ Terminate(p) PROVE TypeOK'
  BY <1>19 DEF TypeOK, Admit, Terminate, hostVars, recVars, specVars, callVars,
     claimVars
<1>20. ASSUME NEW p \in Pods, UpdatePreparedDeviceNetworkData(p) PROVE TypeOK'
  BY <1>20 DEF TypeOK, UpdatePreparedDeviceNetworkData, SyncToCheckpoint,
     hostVars, specVars, callVars, claimVars, envVars
<1>21. CASE CrashRestart
  BY <1>21 DEF TypeOK, CrashRestart, Restart, Idle, Stages, hostVars, specVars
<1>22. CASE Reboot
  BY <1>22, DriverAssumption DEF TypeOK, Reboot, Restart, Idle, Stages, BoundDriver
<1>23. CASE UNCHANGED vars
  BY <1>23 DEF TypeOK, vars, hostVars, recVars, specVars, callVars, claimVars,
     envVars
<1> QED
  BY <1>1, <1>2, <1>3, <1>4, <1>5, <1>6, <1>7, <1>8, <1>9, <1>10, <1>11,
     <1>12, <1>13, <1>14, <1>15, <1>16, <1>17, <1>18, <1>19, <1>20, <1>21,
     <1>22, <1>23 DEF Next, DriverStep, KubeletStep

\* The type invariant: every value the driver, the kubelet and the node keep
\* has its type in every reachable state.
THEOREM TypeCorrect == Spec => []TypeOK
<1>1. Init => TypeOK
  BY SentinelAssumption, DriverAssumption, BoundAssumption
     DEF Init, TypeOK, Stages, BoundDriver
<1>2. TypeOK /\ [Next]_vars => TypeOK'
  BY TypeStep
<1> QED
  BY <1>1, <1>2, PTL DEF Spec

-----------------------------------------------------------------------------
(* NameInv *)

\* Records that only go, or come back from the file, keep their names.
LEMMA NameRecordsLocal ==
  ASSUME NameRecords, resumed \subseteq resumed',
         mem' \subseteq mem \/ mem' \subseteq ckpt, ckpt' = ckpt \/ ckpt' = mem'
  PROVE  NameRecords'
BY DEF NameRecords, NamesDistinct

\* NameInv is kept by every step that adds neither a record nor a device to the
\* claim at hand and starts no prepare.
LEMMA NameLocal ==
  ASSUME TypeOK, NameInv, resumed' = resumed,
         mem' \subseteq mem \/ mem' \subseteq ckpt, ckpt' = ckpt \/ ckpt' = mem',
         stage' # "idle" => todo' \subseteq ClaimsOf[pod'],
         claim' # NoClaim => claim' \in ClaimsOf[pod'],
         stage' = "forget" => op' # "prepare",
         op' = "prepare" => op = "prepare" /\ UNCHANGED <<pod, mem, ifNameIndex>>,
         stage' \in {"devices", "claimSpec", "record"} =>
            /\ op' = "prepare"
            /\ \/ cur' = {} /\ ~Recorded(pod, claim)'
               \/ /\ stage \in {"devices", "claimSpec", "record"}
                  /\ UNCHANGED <<cur, claim>>
  PROVE  NameInv'
<1>1. NameRecords'
  BY NameRecordsLocal DEF NameInv
<1>2. NameCall'
  BY DEF NameInv, NameCall, Recorded
<1>3. NameWork'
  <2> SUFFICES ASSUME stage' \in {"devices", "claimSpec", "record"} PROVE NameWork'
    BY DEF NameWork
  <2>1. CASE cur' = {} /\ ~Recorded(pod, claim)'
    BY <2>1 DEF NameWork, NamesDistinct
  <2>2. CASE /\ stage \in {"devices", "claimSpec", "record"}
             /\ UNCHANGED <<cur, claim, pod, mem, ifNameIndex, resumed>> /\ op' = "prepare"
    BY <2>2 DEF NameInv, NameWork, NamesDistinct, Recorded
  <2> QED
    BY <2>1, <2>2
<1> QED
  BY <1>1, <1>2, <1>3 DEF NameInv

\* A call that starts finds all claims recorded, or none, or is a resumed one.
LEMMA NamePrepare ==
  ASSUME TypeOK, NameInv, NEW p \in Pods, PrepareResourceClaims(p)
  PROVE  NameInv'
<1>1. /\ UNCHANGED <<mem, ckpt, claim>> /\ pod' = p /\ claim = NoClaim
      /\ stage' \in {"claims", "reply"} /\ todo' \subseteq ClaimsOf[p]
      /\ resumed' = IF PartlyPrepared(p) THEN resumed \cup {p} ELSE resumed
  BY DEF PrepareResourceClaims, MayPrepare, TypeOK, recVars
<1>2. NameRecords'
  BY <1>1, NameRecordsLocal DEF NameInv
<1>3. ASSUME p \notin resumed'
      PROVE  \/ \A c \in ClaimsOf[p] : Recorded(p, c)'
             \/ \A r \in mem' : r.pod # p
  <2>1. ~PartlyPrepared(p)
    BY <1>1, <1>3
  <2>2. \A r \in mem : r.pod = p => r.claim \in ClaimsOf[p]
    BY DEF NameInv, NameRecords
  <2> QED
    BY <1>1, <2>1, <2>2 DEF PartlyPrepared, Get, Recorded
<1>4. NameCall'
  BY <1>1, <1>3 DEF NameCall
<1> QED
  BY <1>1, <1>2, <1>4 DEF NameInv, NameWork

\* A device gets the next free index of the call.
LEMMA NameApply ==
  ASSUME TypeOK, NameInv, NEW d \in Devices, ApplyConfigOnDevice(d)
  PROVE  NameInv'
<1> USE DEF ApplyConfigOnDevice
<1>1. /\ UNCHANGED <<mem, ckpt, stage, todo, pod, claim, op, resumed>> /\ stage = "devices"
      /\ ifNameIndex' = IF TakesIndex THEN ifNameIndex + 1 ELSE ifNameIndex
      /\ ifNameIndex \in Nat
  BY DEF callVars, recVars, envVars, NextIndex, TypeOK
<1>2. PICK x : /\ cur' = cur \cup {x}
               /\ x.pod = pod /\ x.claim = claim /\ x.dev = d
               /\ x.ifname = IF TakesIndex THEN ifNameIndex ELSE NoIndex
  <2> DEFINE i == IF TakesIndex THEN ifNameIndex ELSE NoIndex
  <2>1. PICK info : cur' = cur \cup {Prepared(d, i, info)}
    OBVIOUS
  <2>2. /\ Prepared(d, i, info).pod = pod /\ Prepared(d, i, info).claim = claim
        /\ Prepared(d, i, info).dev = d /\ Prepared(d, i, info).ifname = i
    BY DEF Prepared
  <2> QED
    BY <2>1, <2>2
<1> HIDE DEF ApplyConfigOnDevice
<1>3. \A r \in cur \cup mem : r.ifname \in Int
  BY DEF TypeOK, PreparedDevice
<1>4. NameWork
  BY DEF NameInv
<1>5. \A r \in cur' : r.pod = pod /\ r.claim = claim /\ r.ifname < ifNameIndex'
  BY <1>1, <1>2, <1>3, <1>4 DEF NameWork, NoIndex
<1>6. NamesDistinct(cur)'
  <2>1. \A r \in cur : r.ifname < ifNameIndex
    BY <1>1, <1>4 DEF NameWork
  <2>2. \A r \in cur : r.ifname # NoIndex => r.ifname # x.ifname
    BY <1>1, <1>2, <1>3, <2>1
  <2>3. NamesDistinct(cur)
    BY <1>1, <1>4 DEF NameWork
  <2> QED
    BY <1>1, <1>2, <2>2, <2>3 DEF NamesDistinct
<1>7. ~Recorded(pod, claim) /\ op = "prepare" /\ claim \in ClaimsOf[pod]
  BY <1>1, <1>4 DEF NameWork, NameInv, NameCall, TypeOK
<1>8. ASSUME pod \notin resumed
      PROVE  \A r \in mem : r.pod = pod => r.ifname < ifNameIndex
  BY <1>7, <1>8 DEF NameInv, NameCall
<1>9. ASSUME pod \notin resumed, NEW r \in cur', NEW y \in mem, y.pod = pod, r.ifname # NoIndex
      PROVE  y.ifname < r.ifname
  <2>1. CASE r \in cur
    BY <1>1, <1>4, <1>9, <2>1 DEF NameWork
  <2>2. CASE r = x
    BY <1>2, <1>8, <1>9, <2>2
  <2> QED
    BY <1>2, <2>1, <2>2
<1>10. NameWork'
  BY <1>1, <1>5, <1>6, <1>7, <1>9 DEF NameWork, Recorded
<1>11. NameCall'
  BY <1>1, <1>3, <1>7, <1>8 DEF NameInv, NameCall, Recorded
<1> QED
  BY <1>1, <1>10, <1>11, NameRecordsLocal DEF NameInv

\* The records of a claim are new, and their names are above those of the claims
\* that this call, or nobody, has recorded.
LEMMA NameSet ==
  ASSUME TypeOK, NameInv, SetClaim
  PROVE  NameInv'
<1>1. /\ stage = "record" /\ pod \in Pods /\ claim \in ClaimsOf[pod] /\ claim # NoClaim
      /\ todo \subseteq ClaimsOf[pod]
      /\ ckpt' = mem' \/ ckpt' = ckpt
      /\ stage' \in {"claims", "clean"} /\ pod' = pod /\ todo' = todo
      /\ claim' \in {NoClaim, claim} /\ op' = op
      /\ ifNameIndex' = ifNameIndex /\ resumed' = resumed
  BY SentinelAssumption DEF TypeOK, NameInv, NameCall, SetClaim, SyncToCheckpoint, NextClaim,
     Undo, envVars
<1>2. /\ op = "prepare" /\ ~Recorded(pod, claim) /\ NamesDistinct(cur)
      /\ \A r \in cur : r.pod = pod /\ r.claim = claim /\ r.ifname < ifNameIndex
      /\ pod \notin resumed =>
            \A r \in cur, x \in mem : x.pod = pod /\ r.ifname # NoIndex => x.ifname < r.ifname
  BY <1>1 DEF NameInv, NameWork
<1>3. mem' = mem \cup cur
  BY <1>2 DEF SetClaim, Get, Recorded
<1>4. \A r \in cur \cup mem : r.ifname \in Int
  BY DEF TypeOK, PreparedDevice
<1>5. NamesDistinct(mem)'
  <2>1. NamesDistinct(mem)
    BY DEF NameInv, NameRecords
  <2>2. \A r \in cur, x \in mem :
           r.pod = x.pod /\ r.pod \notin resumed /\ r.ifname # NoIndex => r.ifname # x.ifname
    BY <1>2, <1>4
  <2> QED
    BY <1>1, <1>2, <1>3, <2>1, <2>2 DEF NamesDistinct
<1>6. NamesDistinct(ckpt)'
  BY <1>1, <1>5 DEF NameInv, NameRecords, NamesDistinct
<1>7. \A r \in (mem \cup ckpt)' : r.claim \in ClaimsOf[r.pod]
  BY <1>1, <1>2, <1>3 DEF NameInv, NameRecords
<1>8. ASSUME pod \notin resumed
      PROVE  \A r \in mem' : r.pod = pod => r.ifname < ifNameIndex
  BY <1>1, <1>2, <1>3, <1>8 DEF NameInv, NameCall
<1>9. NameCall'
  BY <1>1, <1>8 DEF NameCall
<1> QED
  BY <1>1, <1>5, <1>6, <1>7, <1>9 DEF NameInv, NameRecords, NameWork

\* Every step keeps NameInv.
LEMMA NameStep ==
  ASSUME TypeOK, NameInv, [Next]_vars
  PROVE  NameInv'
<1> USE SentinelAssumption, AllocationAssumption
<1> USE DEF TypeOK, NameInv, NameCall, NameWork, Recorded, envVars, recVars
<1>1. ASSUME NEW p \in Pods, UnprepareResourceClaims(p) \/ Admit(p) \/ Terminate(p)
      PROVE  NameInv'
  BY <1>1, NameLocal DEF UnprepareResourceClaims, Admit, Terminate, callVars, claimVars
<1>2. ASSUME NEW c \in Claims, PrepareResourceClaim(c) PROVE NameInv'
  <2>1. /\ UNCHANGED <<mem, ckpt, resumed, pod, op, ifNameIndex>> /\ op = "prepare"
        /\ todo' \subseteq ClaimsOf[pod'] /\ stage' # "forget"
        /\ claim' # NoClaim => claim' \in ClaimsOf[pod']
    BY <1>2 DEF PrepareResourceClaim, SharedIndex
  <2>2. stage' \in {"devices", "claimSpec", "record"} => cur' = {} /\ ~Recorded(pod, claim)'
    BY <1>2, <2>1 DEF PrepareResourceClaim, Get
  <2> HIDE DEF TypeOK, NameInv
  <2> QED
    BY <2>1, <2>2, NameLocal
<1>3. ASSUME NEW c \in Claims, UnprepareResourceClaim(c) PROVE NameInv'
  BY <1>3, NameLocal DEF UnprepareResourceClaim
<1>4. ASSUME NEW d \in Devices, ApplyConfigOnDeviceFails(d) \/ RestoreDeviceDriver(d) PROVE NameInv'
  BY <1>4, NameLocal DEF ApplyConfigOnDeviceFails, RestoreDeviceDriver, Undo, callVars
<1>5. CASE NoPreparedDevices \/ SyncDeviceInfoFiles \/ CreateClaimSpecFile
  <2>1. /\ UNCHANGED <<mem, ckpt, resumed, pod, op, todo, ifNameIndex>>
        /\ todo' \subseteq ClaimsOf[pod'] /\ op = "prepare" /\ stage' # "forget"
        /\ claim' # NoClaim => claim' \in ClaimsOf[pod']
    BY <1>5 DEF NoPreparedDevices, SyncDeviceInfoFiles, CreateClaimSpecFile, NextClaim, Undo
  <2>2. stage' \in {"devices", "claimSpec", "record"} =>
           stage \in {"devices", "claimSpec", "record"} /\ UNCHANGED <<cur, claim>>
    BY <1>5 DEF NoPreparedDevices, SyncDeviceInfoFiles, CreateClaimSpecFile, NextClaim, Undo
  <2> HIDE DEF TypeOK, NameInv
  <2> QED
    BY <2>1, <2>2, NameLocal
<1>6. CASE CreateGlobalPodSpecFile
  BY <1>6, NameLocal DEF CreateGlobalPodSpecFile, Rollback, claimVars
<1>7. CASE CleanDeviceInfoFiles \/ DevicesUndone \/ DeleteSpecFiles
  BY <1>7, NameLocal DEF CleanDeviceInfoFiles, DevicesUndone, DeleteSpecFiles, NextClaim
<1>8. CASE DeleteClaim
  BY <1>8, NameLocal DEF DeleteClaim, SyncToCheckpoint, NextClaim
<1>9. CASE UnprepareDone
  BY <1>9, NameLocal DEF UnprepareDone, claimVars
<1>10. CASE Reply
  BY <1>10, NameLocal DEF Reply, Idle
<1>11. ASSUME NEW p \in Pods, UpdatePreparedDeviceNetworkData(p) PROVE NameInv'
  BY <1>11, NameLocal DEF UpdatePreparedDeviceNetworkData, SyncToCheckpoint, callVars, claimVars
<1>12. CASE CrashRestart \/ Reboot
  BY <1>12, NameLocal DEF CrashRestart, Reboot, Restart, Idle
<1>13. CASE UNCHANGED vars
  BY <1>13, NameLocal DEF vars, callVars, claimVars
<1> QED
  BY <1>1, <1>2, <1>3, <1>4, <1>5, <1>6, <1>7, <1>8, <1>9, <1>10, <1>11, <1>12, <1>13,
     NamePrepare, NameApply, NameSet DEF Next, DriverStep, KubeletStep

\* Whatever fails, crashes or reboots, and however often a prepare is repeated,
\* no pod gets two interfaces of one name, over all the claims that share the
\* index of a call, unless a call found the pod partly prepared: an index that
\* starts at zero is above all names on record, or none is needed.
THEOREM IfNamesDistinctCorrect == Spec => []IfNamesDistinct
<1>1. Init => NameInv
  BY DEF Init, NameInv, NameRecords, NameCall, NameWork, NamesDistinct
<1>2. TypeOK /\ NameInv /\ [Next]_vars => NameInv'
  BY NameStep
<1>3. NameInv => IfNamesDistinct
  BY DEF NameInv, NameRecords, NamesDistinct, IfNamesDistinct
<1> QED
  BY <1>1, <1>2, <1>3, TypeCorrect, PTL DEF Spec

-----------------------------------------------------------------------------
(* UndoInv: what holds of one state *)

\* The parts of UndoInv a step has to keep besides the types.
UndoKept == Exclusive /\ UndoCall /\ UndoRecords /\ UndoWork /\ UndoHost /\ UndoProgress

\* The pod of a call is live, and the claim at hand is one of its claims.
LEMMA UndoPod ==
  ASSUME UndoInv, stage # "idle"
  PROVE  /\ pod \in Pods /\ Live(pod) /\ op # "none"
         /\ claim # NoClaim => claim \in Claims /\ claim \in ClaimsOf[pod]
BY SentinelAssumption DEF UndoInv, TypeOK, UndoCall, Live

\* A record of a claim or of a device of a live pod's claim is a record of that
\* pod and claim.
LEMMA UndoOwner ==
  ASSUME UndoInv, NEW p \in Pods, Live(p), NEW c \in ClaimsOf[p],
         NEW r \in mem \cup cur, r.claim = c \/ r.dev \in Results[c]
  PROVE  r.pod = p /\ r.claim = c
<1>1. r.pod \in Pods /\ r.claim \in ClaimsOf[r.pod] /\ Live(r.pod) /\ r.dev \in Results[r.claim]
  BY RecordTypes DEF UndoInv, TypeOK, UndoRecords
<1>2. r.pod = p
  BY <1>1 DEF UndoInv, Exclusive
<1> QED
  BY <1>1, <1>2, AllocationAssumption

\* A device that is still to be prepared is on the host's driver.
LEMMA UndoUntouched ==
  ASSUME UndoInv, stage = "devices", NEW d \in left
  PROVE  /\ d \in Results[claim] /\ d \in Devices
         /\ \A r \in mem \cup cur : r.dev # d
         /\ drv[d] = HostDriver[d]
<1>1. claim # NoClaim /\ undo = "devices" /\ d \in Devices
  BY DEF UndoInv, TypeOK, UndoCall
<1>2. d \in Results[claim] /\ \A r \in mem \cup cur : r.dev # d
  BY <1>1 DEF UndoInv, UndoWork
<1> QED
  BY <1>1, <1>2 DEF UndoInv, UndoHost

\* While a claim is undone with its files, the records of its pod are the
\* records at hand: no other claim of the pod has a device.
LEMMA UndoAtHand ==
  ASSUME CleanUndo, UndoInv, claim # NoClaim, undo = "claim", NEW r \in mem, r.pod = pod
  PROVE  r \in cur
<1>1. PICK x \in cur : TRUE
  BY DEF UndoInv, UndoWork
<1>2. stage # "idle"
  BY DEF UndoInv, TypeOK
<1>3. pod \in Pods /\ claim \in ClaimsOf[pod]
  BY <1>2, UndoPod
<1>4. Results[claim] # {} /\ Results[r.claim] # {} /\ r.claim \in ClaimsOf[pod]
  BY <1>1 DEF UndoInv, UndoRecords
<1>5. r.claim = claim
  BY <1>3, <1>4 DEF CleanUndo
<1> QED
  BY <1>5 DEF UndoInv, UndoWork, Get

-----------------------------------------------------------------------------
(* UndoInv: the steps of a prepare call *)

\* The kubelet's call starts with nothing at hand.
LEMMA PrepareResourceClaimsUndo ==
  ASSUME UndoInv, NEW p \in Pods, PrepareResourceClaims(p)
  PROVE  UndoKept'
<1> USE SentinelAssumption, AllocationAssumption
    DEF UndoInv, PrepareResourceClaims, MayPrepare, TypeOK, hostVars, recVars, specVars
<1>1. Exclusive' /\ UndoRecords'
  BY DEF Exclusive, UndoRecords, UndoCall, Live
<1>2. UndoCall'
  BY DEF UndoCall
<1>3. UndoWork' /\ UndoProgress'
  BY DEF UndoWork, UndoProgress
<1>4. UndoHost'
  BY DEF UndoHost
<1> QED
  BY <1>1, <1>2, <1>3, <1>4 DEF UndoKept

\* A claim is prepared only when none of its devices is recorded.
LEMMA PrepareResourceClaimUndo ==
  ASSUME UndoInv, NEW c \in Claims, PrepareResourceClaim(c)
  PROVE  UndoKept'
<1> USE SentinelAssumption
<1>1. /\ stage = "claims" /\ op = "prepare" /\ c \in ClaimsOf[pod] /\ claim = NoClaim
      /\ cur = {} /\ undo = "devices" /\ pod \in Pods /\ Live(pod) /\ c # NoClaim
  BY UndoPod DEF PrepareResourceClaim, UndoInv, TypeOK, UndoCall
<1>2. /\ UNCHANGED <<drv, devInfo, mem, claimSpec, podSpec, phase, op, pod, undo>>
      /\ todo' = todo \ {c} /\ cur' = {} /\ faults' \in {faults, faults + 1}
      /\ \/ stage' = stage /\ claim' = claim /\ left' = left
         \/ stage' = "devices" /\ claim' = c /\ left' = Results[c] /\ Get(pod, c) = {}
  BY <1>1 DEF PrepareResourceClaim, Fault, NoFault, hostVars, recVars, specVars, envVars
<1>3. Exclusive' /\ UndoRecords'
  BY <1>1, <1>2 DEF UndoInv, Exclusive, UndoRecords, Live
<1>4. UndoCall'
  BY <1>1, <1>2 DEF UndoInv, UndoCall
<1>5. UndoWork'
  <2>1. Get(pod, c) = {} => \A r \in mem : r.dev \notin Results[c]
    BY <1>1, UndoOwner DEF Get
  <2> QED
    BY <1>1, <1>2, <2>1 DEF UndoWork
<1>6. UndoHost' /\ UndoProgress'
  BY <1>1, <1>2 DEF UndoInv, UndoHost, UndoProgress
<1> QED
  BY <1>3, <1>4, <1>5, <1>6 DEF UndoKept

\* The original driver that is read before the bind is the host's.
LEMMA ApplyConfigOnDeviceUndo ==
  ASSUME UndoInv, NEW d \in Devices, ApplyConfigOnDevice(d)
  PROVE  UndoKept'
<1> USE SentinelAssumption DEF ApplyConfigOnDevice
<1>1. /\ stage = "devices" /\ d \in left /\ left' = left \ {d}
      /\ UNCHANGED <<callVars, claim, undo, devInfo, mem, claimSpec, podSpec, phase, faults>>
      /\ claim # NoClaim /\ claim \in ClaimsOf[pod] /\ pod \in Pods /\ Live(pod)
  BY UndoPod DEF UndoInv, TypeOK, NoFault, recVars, specVars, envVars
<1>2. /\ d \in Results[claim] /\ drv[d] = HostDriver[d]
      /\ \A r \in mem \cup cur : r.dev # d
  BY <1>1, UndoUntouched
<1> DEFINE w == Config[claim][d]
<1>3. PICK x : /\ cur' = cur \cup {x}
               /\ x.pod = pod /\ x.claim = claim /\ x.dev = d /\ x.driver = w
               /\ x.orig = OriginalDriver(d, w)
  <2>1. PICK i, info : cur' = cur \cup {Prepared(d, i, info)}
    OBVIOUS
  <2>2. /\ Prepared(d, i, info).pod = pod /\ Prepared(d, i, info).claim = claim
        /\ Prepared(d, i, info).dev = d /\ Prepared(d, i, info).driver = w
        /\ Prepared(d, i, info).orig = OriginalDriver(d, w)
    BY DEF Prepared
  <2> QED
    BY <2>1, <2>2
<1>4. x.driver # NoDriver => x.orig = HostDriver[d]
  BY <1>2, <1>3 DEF OriginalDriver
<1>5. /\ \A e \in Devices : e # d => drv'[e] = drv[e]
      /\ w = NoDriver => drv'[d] = drv[d]
  BY DEF BindTarget, UndoInv, TypeOK
<1> HIDE DEF w
<1>6. Exclusive' /\ UndoCall' /\ UndoProgress'
  BY <1>1 DEF UndoInv, Exclusive, UndoCall, UndoProgress, Live, callVars
<1>7. UndoRecords'
  BY <1>1, <1>2, <1>3, <1>4 DEF UndoInv, UndoRecords, Live, callVars, w
<1>8. UndoWork'
  BY <1>1, <1>2, <1>3 DEF UndoInv, UndoWork, UndoCall, callVars
<1>9. UndoHost'
  <2>1. \A e \in Devices : drv'[e] # HostDriver[e] =>
           \E r \in mem' \cup cur' : r.dev = e /\ r.driver # NoDriver
    BY <1>1, <1>2, <1>3, <1>5 DEF UndoInv, UndoHost
  <2> QED
    BY <1>1, <1>3, <2>1 DEF UndoInv, UndoHost, callVars
<1> QED
  BY <1>6, <1>7, <1>8, <1>9 DEF UndoKept

\* A device whose setup fails is left on, or put back to, the host's driver.
LEMMA ApplyConfigOnDeviceFailsUndo ==
  ASSUME CleanUndo, UndoInv, NEW d \in Devices, ApplyConfigOnDeviceFails(d)
  PROVE  UndoKept'
<1> USE SentinelAssumption DEF ApplyConfigOnDeviceFails, Undo
<1>1. /\ stage = "devices" /\ d \in left /\ left' = ToRestore(cur)
      /\ stage' = "restore" /\ undo' = "devices" /\ result' = "error"
      /\ UNCHANGED <<claim, cur, op, pod, todo, devInfo, mem, claimSpec, podSpec, phase>>
      /\ claim # NoClaim /\ claim \in ClaimsOf[pod] /\ pod \in Pods /\ Live(pod)
      /\ op = "prepare" /\ undo = "devices" /\ claim \in Claims
  BY UndoPod DEF UndoInv, UndoCall, TypeOK, recVars, specVars, envVars
<1>2. drv[d] = HostDriver[d]
  BY <1>1, UndoUntouched
<1>3. drv' = drv
  <2> DEFINE w == Config[claim][d]
             b == BindTarget(d, w)
             r == RestoreTarget(d, OriginalDriver(d, w), b)
  <2>1. w # NoDriver => r = drv[d]
    BY <1>2, DriverAssumption DEF RestoreTarget, OriginalDriver
  <2>2. drv = [drv EXCEPT ![d] = drv[d]]
    BY DEF UndoInv, TypeOK
  <2>3. \/ UNCHANGED drv
        \/ /\ w # NoDriver
           /\ \E x \in {r} : drv' = [drv EXCEPT ![d] = x]
    BY DEF FailedApply, CleanUndo, Fault
  <2> QED
    BY <2>1, <2>2, <2>3
<1>4. Exclusive' /\ UndoRecords' /\ UndoProgress'
  BY <1>1 DEF UndoInv, Exclusive, UndoRecords, UndoProgress, Live
<1>5. UndoCall'
  BY <1>1 DEF UndoInv, UndoCall
<1>6. UndoWork'
  <2>1. \A r \in cur : r.dev \in Results[claim] /\ r.dev \notin devInfo
    BY <1>1 DEF UndoInv, UndoRecords, UndoHost, UndoWork
  <2> QED
    BY <1>1, <2>1 DEF UndoInv, UndoWork, ToRestore
<1>7. UndoHost'
  BY <1>1, <1>3 DEF UndoInv, UndoHost
<1> QED
  BY <1>4, <1>5, <1>6, <1>7 DEF UndoKept

\* A claim without devices leaves nothing.
LEMMA NoPreparedDevicesUndo ==
  ASSUME UndoInv, NoPreparedDevices
  PROVE  UndoKept'
<1> USE SentinelAssumption
    DEF UndoInv, NoPreparedDevices, NextClaim, TypeOK, NoFault, hostVars, recVars, specVars, envVars
<1>1. Exclusive' /\ UndoRecords'
  BY DEF Exclusive, UndoRecords, Live
<1>2. UndoCall'
  BY DEF UndoCall
<1>3. UndoWork' /\ UndoProgress'
  BY DEF UndoWork, UndoProgress
<1>4. UndoHost'
  BY DEF UndoHost
<1> QED
  BY <1>1, <1>2, <1>3, <1>4 DEF UndoKept

\* The device-info files that are there afterwards are those of the claim.
LEMMA SyncDeviceInfoFilesUndo ==
  ASSUME UndoInv, SyncDeviceInfoFiles
  PROVE  UndoKept'
<1> USE SentinelAssumption
<1>1. /\ stage = "devices" /\ left = {} /\ cur # {} /\ left' = {}
      /\ UNCHANGED <<drv, mem, claimSpec, podSpec, phase, op, pod, todo, claim, cur>>
      /\ undo' = "devices" /\ undo = "devices" /\ op = "prepare" /\ claim # NoClaim
      /\ devInfo' \subseteq devInfo \cup InfoFiles(cur)
      /\ \/ stage' = "claimSpec"
         \/ stage' = "clean" /\ faults' = faults + 1
  BY DEF SyncDeviceInfoFiles, Undo, Fault, UndoInv, UndoCall, TypeOK, recVars, specVars, envVars
<1>2. Exclusive' /\ UndoRecords' /\ UndoProgress'
  BY <1>1 DEF UndoInv, Exclusive, UndoRecords, UndoProgress, Live
<1>3. UndoCall'
  BY <1>1 DEF UndoInv, UndoCall, TypeOK
<1>4. UndoWork'
  BY <1>1 DEF UndoInv, UndoWork
<1>5. UndoHost'
  BY <1>1 DEF UndoInv, UndoHost, InfoFiles
<1> QED
  BY <1>2, <1>3, <1>4, <1>5 DEF UndoKept

\* The claim's spec file is the work at hand.
LEMMA CreateClaimSpecFileUndo ==
  ASSUME UndoInv, CreateClaimSpecFile
  PROVE  UndoKept'
<1> USE SentinelAssumption
<1>1. /\ stage = "claimSpec" /\ cur # {}
      /\ UNCHANGED <<drv, devInfo, mem, podSpec, phase, op, pod, todo, claim, cur>>
      /\ undo' = "devices" /\ undo = "devices" /\ op = "prepare" /\ claim # NoClaim
      /\ left' \subseteq left
      /\ \/ stage' = "record" /\ claimSpec' = claimSpec \cup {claim}
         \/ stage' = "clean" /\ faults' = faults + 1 /\ claimSpec' = claimSpec
  BY DEF CreateClaimSpecFile, Undo, Fault, UndoInv, UndoCall, UndoWork, TypeOK, hostVars, recVars,
     envVars
<1>2. Exclusive' /\ UndoRecords' /\ UndoProgress'
  BY <1>1 DEF UndoInv, Exclusive, UndoRecords, UndoProgress, Live
<1>3. UndoCall'
  BY <1>1 DEF UndoInv, UndoCall, TypeOK
<1>4. UndoWork'
  BY <1>1 DEF UndoInv, UndoWork
<1>5. UndoHost'
  BY <1>1 DEF UndoInv, UndoHost
<1> QED
  BY <1>2, <1>3, <1>4, <1>5 DEF UndoKept

\* The work at hand is recorded; when the checkpoint cannot be written it is
\* recorded all the same, and undone with its files.
LEMMA SetClaimUndo ==
  ASSUME UndoInv, SetClaim
  PROVE  UndoKept'
<1> USE SentinelAssumption
<1>1. /\ stage = "record" /\ cur # {} /\ undo = "devices" /\ op = "prepare" /\ claim # NoClaim
      /\ UNCHANGED <<drv, devInfo, claimSpec, podSpec, phase, op, pod, todo>>
      /\ mem' = (mem \ Get(pod, claim)) \cup cur
      /\ left' = {}
      /\ \/ stage' = "claims" /\ claim' = NoClaim /\ cur' = {} /\ undo' = "devices"
         \/ /\ stage' = "clean" /\ claim' = claim /\ cur' = cur /\ undo' = "claim"
            /\ faults' = faults + 1
  BY DEF SetClaim, NextClaim, Undo, Fault, UndoInv, UndoCall, UndoWork, TypeOK, hostVars, specVars,
     envVars
<1>2. \A r \in mem : ~(r.pod = pod /\ r.claim = claim)
  BY <1>1 DEF UndoInv, UndoRecords, UndoWork
<1>3. mem' = mem \cup cur
  BY <1>1, <1>2 DEF Get
<1>4. Exclusive' /\ UndoProgress'
  BY <1>1 DEF UndoInv, Exclusive, UndoProgress, Live
<1>5. UndoRecords'
  BY <1>1, <1>3 DEF UndoInv, UndoRecords, Live
<1>6. UndoCall'
  BY <1>1 DEF UndoInv, UndoCall, TypeOK
<1>7. UndoWork'
  <2>1. cur = {r \in mem' : r.pod = pod /\ r.claim = claim}
    BY <1>1, <1>2, <1>3 DEF UndoInv, UndoRecords
  <2> QED
    BY <1>1, <2>1 DEF UndoWork, Get
<1>8. UndoHost'
  <2>1. PICK x \in cur : x.claim = claim
    BY <1>1 DEF UndoInv, UndoRecords
  <2>2. \A c \in claimSpec : \E r \in mem' : r.claim = c
    BY <1>1, <1>3, <2>1 DEF UndoInv, UndoHost
  <2>3. \A e \in devInfo : \E r \in mem' : r.dev = e /\ r.info = "file"
    BY <1>3 DEF UndoInv, UndoHost
  <2> QED
    BY <1>1, <1>3, <2>2, <2>3 DEF UndoInv, UndoHost
<1> QED
  BY <1>4, <1>5, <1>6, <1>7, <1>8 DEF UndoKept

\* A pod's spec file is only written for a pod with records.
LEMMA CreateGlobalPodSpecFileUndo ==
  ASSUME UndoInv, CreateGlobalPodSpecFile
  PROVE  UndoKept'
<1> USE SentinelAssumption, AllocationAssumption
<1>1. /\ stage = "claims" /\ op = "prepare" /\ todo = {} /\ claim = NoClaim /\ cur = {}
      /\ undo = "devices" /\ pod \in Pods /\ Live(pod)
      /\ UNCHANGED <<pod, claim, cur, undo, drv, devInfo, mem, claimSpec, phase>>
      /\ \/ stage' = "reply" /\ op' = op /\ todo' = todo
         \/ /\ stage' = stage /\ op' = "rollback" /\ todo' = ClaimsOf[pod]
            /\ result' = "error" /\ podSpec' = podSpec
  BY UndoPod DEF CreateGlobalPodSpecFile, Rollback, UndoInv, UndoCall, TypeOK, claimVars, hostVars,
     recVars, envVars
<1>2. \/ podSpec' = podSpec
      \/ /\ GetDevicesByPodUID(pod) # {}
         /\ podSpec' = [podSpec EXCEPT ![pod] = DevicesIn(GetDevicesByPodUID(pod))]
  BY DEF CreateGlobalPodSpecFile, Rollback
<1>3. Exclusive' /\ UndoRecords' /\ UndoProgress'
  BY <1>1 DEF UndoInv, Exclusive, UndoRecords, UndoProgress, Live
<1>4. UndoCall'
  BY <1>1 DEF UndoInv, UndoCall
<1>5. UndoWork'
  BY <1>1 DEF UndoWork
<1>6. UndoHost'
  <2>1. \A p \in Pods : podSpec'[p] # {} => \E r \in mem : r.pod = p
    BY <1>1, <1>2 DEF UndoInv, UndoHost, TypeOK, GetDevicesByPodUID
  <2> QED
    BY <1>1, <2>1 DEF UndoInv, UndoHost
<1> QED
  BY <1>3, <1>4, <1>5, <1>6 DEF UndoKept

-----------------------------------------------------------------------------
(* UndoInv: the steps of an unprepare call, and of undoing a failed prepare *)

\* The call of a pod that ends has all its records before it.
LEMMA UnprepareResourceClaimsUndo ==
  ASSUME UndoInv, NEW p \in Pods, UnprepareResourceClaims(p)
  PROVE  UndoKept'
<1> USE SentinelAssumption, AllocationAssumption
    DEF UndoInv, UnprepareResourceClaims, TypeOK, claimVars, hostVars, recVars, specVars, envVars
<1>1. Exclusive' /\ UndoRecords'
  BY DEF Exclusive, UndoRecords, UndoCall, Live
<1>2. UndoCall'
  BY DEF UndoCall
<1>3. UndoWork'
  BY DEF UndoWork
<1>4. UndoProgress'
  BY DEF UndoProgress, UndoRecords
<1>5. UndoHost'
  BY DEF UndoHost
<1> QED
  BY <1>1, <1>2, <1>3, <1>4, <1>5 DEF UndoKept

\* The records of the claim are those of the call's pod.
LEMMA UnprepareResourceClaimUndo ==
  ASSUME UndoInv, NEW c \in Claims, UnprepareResourceClaim(c)
  PROVE  UndoKept'
<1> USE SentinelAssumption
<1>1. /\ stage = "claims" /\ op \in {"unprepare", "rollback"} /\ c \in ClaimsOf[pod]
      /\ claim = NoClaim /\ cur = {} /\ undo = "devices" /\ pod \in Pods /\ Live(pod)
      /\ c # NoClaim
  BY UndoPod DEF UnprepareResourceClaim, UndoInv, TypeOK, UndoCall
<1>2. /\ UNCHANGED <<drv, devInfo, mem, claimSpec, podSpec, phase, op, pod, result, faults>>
      /\ todo' = todo \ {c}
  BY DEF UnprepareResourceClaim, UnknownClaim, hostVars, recVars, specVars, envVars
<1>3. Exclusive'
  BY <1>2 DEF UndoInv, Exclusive, Live
<1>4. CASE GetByClaim(c) = {} /\ UNCHANGED <<stage, claim, left, cur, undo, claimResult>>
  <2>1. \A r \in mem : r.claim # c
    BY <1>4 DEF GetByClaim, PodsWithClaim
  <2>2. UndoRecords' /\ UndoHost'
    BY <1>2, <1>4 DEF UndoInv, UndoRecords, UndoHost, Live
  <2>3. UndoCall'
    BY <1>1, <1>2, <1>4 DEF UndoInv, UndoCall
  <2>4. UndoWork' /\ UndoProgress'
    BY <1>1, <1>2, <1>4, <2>1 DEF UndoInv, UndoWork, UndoProgress
  <2> QED
    BY <1>3, <2>2, <2>3, <2>4 DEF UndoKept
<1>5. CASE \E rs \in GetByClaim(c) : /\ stage' = "clean" /\ claim' = c /\ cur' = rs
                                     /\ left' = {} /\ undo' = "claim"
  <2>1. PICK q \in PodsWithClaim(c) : cur' = Get(q, c)
    BY <1>5 DEF GetByClaim
  <2>2. PICK x \in mem : x.claim = c /\ x.pod = q
    BY <2>1 DEF PodsWithClaim
  <2>3. q = pod
    BY <1>1, <2>2, UndoOwner
  <2>4. cur' = {r \in mem : r.pod = pod /\ r.claim = c} /\ cur' # {}
    BY <2>1, <2>2, <2>3 DEF Get
  <2>5. UndoRecords'
    BY <1>2, <1>5, <2>4 DEF UndoInv, UndoRecords, Live
  <2>6. UndoCall'
    BY <1>1, <1>2, <1>5 DEF UndoInv, UndoCall
  <2>7. UndoWork'
    BY <1>1, <1>2, <1>5, <2>4 DEF UndoWork, Get
  <2>8. UndoHost'
    BY <1>1, <1>2, <2>4 DEF UndoInv, UndoHost
  <2>9. UndoProgress'
    <3>1. \A r \in mem : r.claim # NoClaim
      <4>1. mem \in SUBSET PreparedDevice
        BY DEF UndoInv, TypeOK
      <4> QED
        BY <4>1, RecordTypes
    <3> QED
      BY <1>1, <1>2, <1>5, <3>1 DEF UndoInv, UndoProgress
  <2> QED
    BY <1>3, <2>5, <2>6, <2>7, <2>8, <2>9 DEF UndoKept
<1> QED
  BY <1>4, <1>5 DEF UnprepareResourceClaim

\* The device-info files go; those that stay belong to a recorded claim.
LEMMA CleanDeviceInfoFilesUndo ==
  ASSUME CleanUndo, UndoInv, CleanDeviceInfoFiles
  PROVE  UndoKept'
<1> USE SentinelAssumption
<1>1. /\ stage = "clean" /\ stage' = "restore" /\ left' = ToRestore(cur) /\ claim # NoClaim
      /\ UNCHANGED <<drv, mem, claimSpec, podSpec, phase, op, pod, todo, result, claim, cur, undo>>
      /\ claimResult' \in {"ok", "error"} /\ devInfo' \subseteq devInfo
      /\ undo = "devices" => op = "prepare"
  BY DEF CleanDeviceInfoFiles, UndoInv, UndoCall, TypeOK, recVars, specVars, envVars
<1>2. \/ devInfo' = devInfo \ InfoFiles(cur)
      \/ claimResult' = "error" /\ undo = "claim"
  <2>1. CASE devInfo' = devInfo \ InfoFiles(cur)
    BY <2>1
  <2>2. CASE Fault("devinfo") /\ claimResult' = "error"
    <3>1. faults < 1 /\ faults \in Nat
      BY <2>2, BoundAssumption DEF Fault, CleanUndo, UndoInv, TypeOK
    <3>2. op # "prepare"
      BY <1>1, <3>1 DEF UndoInv, UndoCall
    <3> QED
      BY <1>1, <2>2, <3>2 DEF UndoInv, UndoCall
  <2> QED
    BY <2>1, <2>2 DEF CleanDeviceInfoFiles
<1>3. undo = "claim" => cur \subseteq mem
  BY <1>1 DEF UndoInv, UndoWork, Get
<1>4. Exclusive' /\ UndoRecords' /\ UndoProgress'
  BY <1>1 DEF UndoInv, Exclusive, UndoRecords, UndoProgress, Live
<1>5. UndoCall'
  BY <1>1 DEF UndoInv, UndoCall
<1>6. UndoWork'
  <2>1. \A r \in cur : r.dev \in Results[claim]
    BY DEF UndoInv, UndoRecords
  <2>2. (undo = "devices" \/ claimResult' = "ok") => \A r \in cur : r.info = "file" => r.dev \notin devInfo'
    BY <1>2 DEF InfoFiles
  <2>3. left' \subseteq Results[claim]
    BY <1>1, <2>1 DEF ToRestore
  <2>4. \A r \in cur : r.driver # NoDriver => r.dev \in left'
    BY <1>1 DEF ToRestore
  <2> QED
    BY <1>1, <2>2, <2>3, <2>4 DEF UndoInv, UndoWork, ToRestore, Get
<1>7. UndoHost'
  BY <1>1, <1>2, <1>3 DEF UndoInv, UndoHost, InfoFiles
<1> QED
  BY <1>4, <1>5, <1>6, <1>7 DEF UndoKept

\* A device goes back to the driver its record keeps, the host's.
LEMMA RestoreDeviceDriverUndo ==
  ASSUME CleanUndo, UndoInv, NEW d \in Devices, RestoreDeviceDriver(d)
  PROVE  UndoKept'
<1> USE SentinelAssumption
<1>1. /\ stage = "restore" /\ d \in left /\ left' = left \ {d} /\ claim # NoClaim
      /\ UNCHANGED <<callVars, claim, cur, undo, devInfo, mem, claimSpec, podSpec, phase, faults>>
      /\ claimResult' = claimResult
      /\ \E r \in cur : r.dev = d /\ drv' = [drv EXCEPT ![d] = RestoreTarget(d, r.orig, drv[d])]
  BY DEF RestoreDeviceDriver, Fault, NoFault, CleanUndo, UndoInv, TypeOK, recVars, specVars, envVars
<1>2. PICK r \in cur : r.dev = d /\ drv' = [drv EXCEPT ![d] = RestoreTarget(d, r.orig, drv[d])]
  BY <1>1
<1>3. PICK x \in cur : x.dev = d /\ x.driver # NoDriver
  BY <1>1 DEF UndoInv, UndoWork, ToRestore
<1>4. r.driver # NoDriver
  BY <1>2, <1>3 DEF UndoInv, UndoRecords
<1>5. RestoreTarget(d, r.orig, drv[d]) = HostDriver[d]
  BY <1>2, <1>4, DriverAssumption DEF UndoInv, UndoRecords, RestoreTarget
<1>6. drv' = [drv EXCEPT ![d] = HostDriver[d]] /\ drv \in [Devices -> BoundDriver]
  BY <1>2, <1>5 DEF UndoInv, TypeOK
<1>7. Exclusive' /\ UndoRecords' /\ UndoProgress'
  BY <1>1 DEF UndoInv, Exclusive, UndoRecords, UndoProgress, Live, callVars
<1>8. UndoCall'
  BY <1>1 DEF UndoInv, UndoCall, callVars
<1>9. UndoWork'
  <2>1. \A y \in cur : y.dev \in Devices
    BY RecordTypes DEF UndoInv, TypeOK
  <2>2. \A y \in cur : y.driver # NoDriver /\ y.dev \notin left' => drv'[y.dev] = HostDriver[y.dev]
    BY <1>1, <1>6, <2>1 DEF UndoInv, UndoWork
  <2> QED
    BY <1>1, <2>2 DEF UndoInv, UndoWork, Get, callVars
<1>10. UndoHost'
  BY <1>1, <1>6 DEF UndoInv, UndoHost, callVars
<1> QED
  BY <1>7, <1>8, <1>9, <1>10 DEF UndoKept

\* A claim that was never recorded is undone when its devices are.
LEMMA DevicesUndoneUndo ==
  ASSUME UndoInv, DevicesUndone
  PROVE  UndoKept'
<1> USE SentinelAssumption
<1>1. /\ stage = "restore" /\ left = {} /\ undo = "devices"
      /\ stage' = "claims" /\ claim' = NoClaim /\ cur' = {} /\ undo' = "devices"
      /\ UNCHANGED <<drv, devInfo, mem, claimSpec, podSpec, phase, op, pod, todo, result, faults>>
      /\ op = "prepare"
  BY DEF DevicesUndone, NextClaim, UndoInv, UndoCall, hostVars, recVars, specVars, envVars
<1>2. Exclusive' /\ UndoRecords' /\ UndoProgress'
  BY <1>1 DEF UndoInv, Exclusive, UndoRecords, UndoProgress, Live
<1>3. UndoCall' /\ UndoWork'
  BY <1>1 DEF UndoInv, UndoCall, UndoWork
<1>4. UndoHost'
  BY <1>1 DEF UndoInv, UndoWork, UndoHost
<1> QED
  BY <1>2, <1>3, <1>4 DEF UndoKept

\* The files of the claim and of its pod go, or their records stay.
LEMMA DeleteSpecFilesUndo ==
  ASSUME UndoInv, DeleteSpecFiles
  PROVE  UndoKept'
<1> USE SentinelAssumption
<1>1. /\ stage = "restore" /\ left = {} /\ undo = "claim" /\ claim # NoClaim /\ pod \in Pods
      /\ UNCHANGED <<drv, devInfo, mem, phase, op, pod, todo>>
      /\ op # "none" /\ cur # {} /\ cur \subseteq mem
      /\ \A r \in cur : r.pod = pod
  BY UndoPod DEF DeleteSpecFiles, UndoInv, TypeOK, UndoWork, UndoRecords, Get, hostVars, recVars,
     envVars
<1>2. /\ claimSpec' \subseteq claimSpec
      /\ \A p \in Pods : podSpec'[p] # {} => podSpec[p] # {}
  BY DEF DeleteSpecFiles
<1>3. \/ /\ stage' = "claims" /\ claim' = NoClaim /\ cur' = {} /\ undo' = "devices"
         /\ result' = "error"
      \/ /\ stage' = "forget" /\ op \in {"unprepare", "rollback"} /\ claimResult = "ok"
         /\ UNCHANGED <<result, claim, left, cur, undo>>
         /\ claim \notin claimSpec' /\ podSpec'[pod] = {}
  BY <1>1 DEF DeleteSpecFiles, NextClaim, UndoInv, TypeOK
<1>4. Exclusive'
  BY <1>1 DEF UndoInv, Exclusive, Live
<1>5. UndoRecords' /\ UndoProgress'
  BY <1>1, <1>3 DEF UndoInv, UndoRecords, UndoProgress, Live
<1>6. UndoCall'
  BY <1>1, <1>3 DEF UndoInv, UndoCall
<1>7. UndoWork'
  BY <1>1, <1>3 DEF UndoInv, UndoWork, Get
<1>8. UndoHost'
  BY <1>1, <1>2, <1>3 DEF UndoInv, UndoHost
<1> QED
  BY <1>4, <1>5, <1>6, <1>7, <1>8 DEF UndoKept

\* The records that go are those at hand, and nothing of theirs is left.
LEMMA DeleteClaimUndo ==
  ASSUME CleanUndo, UndoInv, DeleteClaim
  PROVE  UndoKept'
<1> USE SentinelAssumption
<1>1. /\ stage = "forget" /\ claim # NoClaim /\ undo = "claim" /\ pod \in Pods /\ Live(pod)
      /\ claim \in ClaimsOf[pod]
      /\ stage' = "claims" /\ claim' = NoClaim /\ cur' = {} /\ undo' = "devices"
      /\ UNCHANGED <<drv, devInfo, claimSpec, podSpec, phase, op, pod, todo>>
      /\ op # "none" /\ result' \in {result, "error"}
  BY UndoPod DEF DeleteClaim, NextClaim, UndoInv, UndoCall, TypeOK, hostVars, specVars, envVars
<1>2. mem' = {r \in mem : r.pod # pod}
  <2>1. PICK q \in PodsWithClaim(claim) : mem' = mem \ GetDevicesByPodUID(q)
    BY DEF DeleteClaim, Forgotten
  <2>2. q = pod
    BY <1>1, <2>1, UndoOwner DEF PodsWithClaim
  <2> QED
    BY <2>1, <2>2 DEF GetDevicesByPodUID
<1>3. \A r \in mem : r.pod = pod => r \in cur
  BY <1>1, UndoAtHand
<1>4. /\ \A r \in cur : /\ r.pod = pod /\ r.claim = claim
                        /\ r.driver # NoDriver => drv[r.dev] = HostDriver[r.dev]
                        /\ r.info = "file" => r.dev \notin devInfo
      /\ claim \notin claimSpec /\ podSpec[pod] = {}
  BY <1>1 DEF UndoInv, UndoRecords, UndoWork
<1>5. Exclusive' /\ UndoRecords'
  BY <1>1, <1>2 DEF UndoInv, Exclusive, UndoRecords, Live
<1>6. UndoCall'
  BY <1>1 DEF UndoInv, UndoCall
<1>7. UndoWork'
  BY <1>1 DEF UndoWork
<1>8. UndoProgress'
  BY <1>1, <1>2 DEF UndoProgress
<1>9. UndoHost'
  <2>1. \A e \in Devices : drv[e] # HostDriver[e] =>
           \E r \in mem' \cup cur' : r.dev = e /\ r.driver # NoDriver
    BY <1>2, <1>3, <1>4 DEF UndoInv, UndoHost
  <2>2. \A e \in devInfo : \E r \in mem' : r.dev = e /\ r.info = "file"
    BY <1>1, <1>2, <1>3, <1>4 DEF UndoInv, UndoHost
  <2>3. \A c \in claimSpec : \E r \in mem' : r.claim = c
    BY <1>1, <1>2, <1>3, <1>4 DEF UndoInv, UndoHost
  <2>4. \A p \in Pods : podSpec[p] # {} => \E r \in mem' : r.pod = p
    BY <1>2, <1>4 DEF UndoInv, UndoHost
  <2> QED
    BY <1>1, <2>1, <2>2, <2>3, <2>4 DEF UndoHost
<1> QED
  BY <1>5, <1>6, <1>7, <1>8, <1>9 DEF UndoKept

\* The call has no claim before it any more.
LEMMA UnprepareDoneUndo ==
  ASSUME UndoInv, UnprepareDone
  PROVE  UndoKept'
<1> USE SentinelAssumption
    DEF UndoInv, UnprepareDone, TypeOK, claimVars, hostVars, recVars, specVars, envVars
<1>1. Exclusive' /\ UndoRecords' /\ UndoProgress'
  BY DEF Exclusive, UndoRecords, UndoProgress, Live
<1>2. UndoCall'
  BY DEF UndoCall
<1>3. UndoWork'
  BY DEF UndoWork
<1>4. UndoHost'
  BY DEF UndoHost
<1> QED
  BY <1>1, <1>2, <1>3, <1>4 DEF UndoKept

-----------------------------------------------------------------------------
(* UndoInv: the kubelet *)

\* A pod is gone only when it has no record left.
LEMMA ReplyUndo ==
  ASSUME UndoInv, Reply
  PROVE  UndoKept'
<1> USE SentinelAssumption
<1>1. /\ stage = "reply" /\ pod \in Pods /\ Live(pod) /\ claim = NoClaim /\ todo = {} /\ cur = {}
      /\ op \in {"prepare", "rollback", "unprepare"}
      /\ phase \in [Pods -> {"new", "admitted", "running", "terminating", "gone"}]
  BY UndoPod DEF Reply, UndoInv, UndoCall, TypeOK
<1>2. /\ stage' = "idle" /\ op' = "none" /\ claim' = NoClaim /\ cur' = {} /\ undo' = "devices"
      /\ UNCHANGED <<drv, devInfo, mem, claimSpec, podSpec>>
  BY DEF Reply, Idle, hostVars, recVars, specVars
<1>3. \/ phase' = phase
      \/ phase' = [phase EXCEPT ![pod] = "running"]
      \/ phase' = [phase EXCEPT ![pod] = "gone"] /\ op = "unprepare" /\ result = "ok"
  BY <1>1 DEF Reply, UndoInv, TypeOK
<1>4. /\ \A q \in Pods : Live(q)' => Live(q)
      /\ \A r \in mem : r.pod \in Pods /\ Live(r.pod)'
  <2>1. \A r \in mem : r.pod \in Pods /\ Live(r.pod)
    BY RecordTypes DEF UndoInv, TypeOK, UndoRecords
  <2>2. op = "unprepare" /\ result = "ok" => \A r \in mem : r.pod # pod
    <3>1. \A r \in mem : r.claim # NoClaim
      <4>1. mem \in SUBSET PreparedDevice
        BY DEF UndoInv, TypeOK
      <4> QED
        BY <4>1, RecordTypes
    <3> QED
      BY <1>1, <3>1 DEF UndoInv, UndoProgress
  <2> QED
    BY <1>1, <1>3, <2>1, <2>2 DEF Live
<1>5. Exclusive'
  BY <1>4 DEF UndoInv, Exclusive
<1>6. UndoRecords'
  BY <1>2, <1>4 DEF UndoInv, UndoRecords
<1>7. UndoCall' /\ UndoWork' /\ UndoProgress'
  BY <1>2 DEF UndoCall, UndoWork, UndoProgress
<1>8. UndoHost'
  BY <1>1, <1>2 DEF UndoInv, UndoHost
<1> QED
  BY <1>5, <1>6, <1>7, <1>8 DEF UndoKept

\* A pod that is admitted shares nothing with a live one; a pod that is ended
\* is still live, and is not the pod of the call.
LEMMA PodUndo ==
  ASSUME UndoInv, NEW p \in Pods, Admit(p) \/ Terminate(p)
  PROVE  UndoKept'
<1> USE SentinelAssumption DEF Admit, Terminate, hostVars, recVars, specVars, callVars, claimVars
<1>1. /\ UNCHANGED <<drv, devInfo, mem, claimSpec, podSpec, op, pod, stage, todo, result, claim, left,
                     cur, undo, claimResult, faults>>
      /\ phase \in [Pods -> {"new", "admitted", "running", "terminating", "gone"}]
      /\ \A q \in Pods : Live(q) => Live(q)'
  BY DEF UndoInv, TypeOK, Live
<1>2. Exclusive'
  <2>1. CASE Admit(p)
    <3>1. \A q \in Pods : Live(q)' <=> Live(q) \/ q = p
      BY <1>1, <2>1 DEF Live
    <3>2. \A q \in Pods : Live(q) => \A c \in ClaimsOf[p], e \in ClaimsOf[q] :
             c # e /\ Results[c] \cap Results[e] = {}
      BY <2>1 DEF DevicesOf
    <3> QED
      BY <3>1, <3>2 DEF UndoInv, Exclusive
  <2>2. CASE Terminate(p)
    BY <1>1, <2>2 DEF UndoInv, Exclusive, Live
  <2> QED
    BY <2>1, <2>2
<1>3. UndoRecords'
  BY <1>1, RecordTypes DEF UndoInv, TypeOK, UndoRecords
<1>4. UndoCall'
  BY <1>1 DEF UndoInv, UndoCall, TypeOK
<1>5. UndoWork'
  BY <1>1 DEF UndoInv, UndoWork, Get
<1>6. UndoHost' /\ UndoProgress'
  BY <1>1 DEF UndoInv, UndoHost, UndoProgress
<1> QED
  BY <1>2, <1>3, <1>4, <1>5, <1>6 DEF UndoKept

\* A step that changes nothing but the checkpoint.
LEMMA StutterUndo ==
  ASSUME UndoInv, UNCHANGED <<hostVars, specVars, callVars, claimVars, mem, phase, faults>>
  PROVE  UndoKept'
<1> USE DEF hostVars, specVars, callVars, claimVars
<1>1. Exclusive' /\ UndoRecords'
  BY DEF UndoInv, Exclusive, UndoRecords, Live
<1>2. UndoCall'
  BY DEF UndoInv, UndoCall
<1>3. UndoWork'
  BY DEF UndoInv, UndoWork, Get
<1>4. UndoHost' /\ UndoProgress'
  BY DEF UndoInv, UndoHost, UndoProgress
<1> QED
  BY <1>1, <1>2, <1>3, <1>4 DEF UndoKept

-----------------------------------------------------------------------------

\* When every failure can be undone, every step keeps UndoInv: what is on the
\* host always has a record or is the work at hand.
THEOREM UndoInvCorrect == ASSUME CleanUndo PROVE Spec => []UndoInv
<1>1. Init /\ TypeOK => UndoInv
  BY SentinelAssumption
     DEF Init, UndoInv, Exclusive, Live, UndoCall, UndoRecords, UndoWork, UndoHost, UndoProgress
<1>2. UndoInv /\ [Next]_vars => UndoInv'
  <2> SUFFICES ASSUME UndoInv, [Next]_vars PROVE UndoKept'
    BY TypeStep DEF UndoInv, UndoKept
  <2>1. CASE DriverStep
    BY <2>1, PrepareResourceClaimUndo, UnprepareResourceClaimUndo, ApplyConfigOnDeviceUndo,
       ApplyConfigOnDeviceFailsUndo, RestoreDeviceDriverUndo, NoPreparedDevicesUndo,
       SyncDeviceInfoFilesUndo, CreateClaimSpecFileUndo, SetClaimUndo,
       CreateGlobalPodSpecFileUndo, CleanDeviceInfoFilesUndo, DevicesUndoneUndo,
       DeleteSpecFilesUndo, DeleteClaimUndo, UnprepareDoneUndo, ReplyUndo DEF DriverStep
  <2>2. CASE KubeletStep
    BY <2>2, PrepareResourceClaimsUndo, UnprepareResourceClaimsUndo, PodUndo DEF KubeletStep
  <2>3. ASSUME NEW p \in Pods, UpdatePreparedDeviceNetworkData(p) PROVE UndoKept'
    BY <2>3, StutterUndo DEF UpdatePreparedDeviceNetworkData, envVars
  <2>4. CASE CrashRestart \/ Reboot
    BY <2>4 DEF CrashRestart, Reboot, CleanUndo, UndoInv, TypeOK
  <2>5. CASE UNCHANGED vars
    BY <2>5, StutterUndo DEF vars, recVars, envVars
  <2> QED
    BY <2>1, <2>2, <2>3, <2>4, <2>5 DEF Next
<1> QED
  BY <1>1, <1>2, TypeCorrect, PTL DEF Spec

\* When the kubelet has finished with its pods nothing of them is left on the
\* node, whatever setup failed on the way, was rolled back and was tried again.
THEOREM NothingLeftBehindCorrect == ASSUME CleanUndo PROVE Spec => []NothingLeftBehind
<1>1. UndoInv => NothingLeftBehind
  <2> SUFFICES ASSUME UndoInv, stage = "idle"
               PROVE  /\ \A d \in Devices : (\A p \in Pods : Live(p) => d \notin DevicesOf(p))
                            => drv[d] = HostDriver[d] /\ d \notin devInfo
                      /\ \A c \in Claims : (\A p \in Pods : Live(p) => c \notin ClaimsOf[p])
                            => c \notin claimSpec
                      /\ \A p \in Pods : phase[p] = "gone"
                            => podSpec[p] = {} /\ GetDevicesByPodUID(p) = {}
    BY DEF NothingLeftBehind
  <2>1. cur = {}
    BY DEF UndoInv, TypeOK, UndoCall
  <2>2. \A r \in mem : /\ r.pod \in Pods /\ Live(r.pod) /\ r.claim \in ClaimsOf[r.pod]
                       /\ r.dev \in DevicesOf(r.pod)
    BY RecordTypes DEF UndoInv, TypeOK, UndoRecords, DevicesOf
  <2>3. ASSUME NEW d \in Devices, \A p \in Pods : Live(p) => d \notin DevicesOf(p)
        PROVE  drv[d] = HostDriver[d] /\ d \notin devInfo
    BY <2>1, <2>2, <2>3 DEF UndoInv, UndoHost
  <2>4. ASSUME NEW c \in Claims, \A p \in Pods : Live(p) => c \notin ClaimsOf[p]
        PROVE  c \notin claimSpec
    BY <2>2, <2>4 DEF UndoInv, UndoHost
  <2>5. ASSUME NEW p \in Pods, phase[p] = "gone"
        PROVE  podSpec[p] = {} /\ GetDevicesByPodUID(p) = {}
    BY <2>2, <2>5 DEF UndoInv, UndoHost, Live, GetDevicesByPodUID
  <2> QED
    BY <2>3, <2>4, <2>5
<1> QED
  BY <1>1, UndoInvCorrect, PTL

\* The original driver a record keeps is the host's, also after failed and
\* repeated prepares: an unprepare puts the device back where it came from.
THEOREM OriginalDriverIsHostsCorrect == ASSUME CleanUndo PROVE Spec => []OriginalDriverIsHosts
<1>1. UndoInv => OriginalDriverIsHosts
  BY DEF UndoInv, UndoRecords, OriginalDriverIsHosts
<1> QED
  BY <1>1, UndoInvCorrect, PTL
=============================================================================
