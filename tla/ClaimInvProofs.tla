--------------------------- MODULE ClaimInvProofs ---------------------------
(***************************************************************************)
(* ClaimInv is inductive, and it implies RunningIsPrepared and, step by    *)
(* step, DriverStableInUse.  One lemma per step of the driver, of the      *)
(* kubelet and of the environment.  StableInv gives DriverStableInUse in   *)
(* other circumstances, OwnerInv gives OneOwner.                           *)
(***************************************************************************)
EXTENDS ClaimLifecycleProofs

\* The parts of ClaimInv a step has to keep besides the types.
Kept == /\ allocatable = Devices /\ CallInv /\ Exclusive /\ RecordInv
        /\ RunningInv /\ WorkInv /\ ProgressInv

\* What the records and the pods are judged by.
sharedVars == <<drv, mem, ckpt, claimSpec, podSpec, phase, allocatable>>

-----------------------------------------------------------------------------
(* Facts about one state *)

\* A record of a claim of the call's pod is a record of that pod.
LEMMA CallOwnsClaim ==
  ASSUME ClaimInv, stage # "idle", NEW c \in ClaimsOf[pod],
         NEW r \in mem, r.claim = c
  PROVE  r.pod = pod
BY SentinelAssumption, RecordTypes
   DEF ClaimInv, TypeOK, CallInv, Exclusive, RecordInv, Live

\* A device of a claim of a live pod is recorded for that claim only.
LEMMA DeviceOwner ==
  ASSUME ClaimInv, NEW p \in Pods, Live(p), NEW c \in ClaimsOf[p],
         NEW r \in mem, r.dev \in Results[c]
  PROVE  r.pod = p /\ r.claim = c
<1>1. r.pod \in Pods /\ r.claim \in ClaimsOf[r.pod] /\ Live(r.pod)
      /\ r.dev \in Results[r.claim]
  BY RecordTypes DEF ClaimInv, TypeOK, RecordInv
<1>2. r.pod = p
  BY <1>1 DEF ClaimInv, Exclusive
<1> QED
  BY <1>1, <1>2, AllocationAssumption

\* When every claim of a pod is recorded, its records name all its devices.
LEMMA AllDevicesRecorded ==
  ASSUME ClaimInv, NEW p \in Pods, \A c \in ClaimsOf[p] : Recorded(p, c)
  PROVE  DevicesIn(GetDevicesByPodUID(p)) = DevicesOf(p)
<1>1. ASSUME NEW d \in DevicesOf(p) PROVE d \in DevicesIn(GetDevicesByPodUID(p))
  <2>1. PICK c \in ClaimsOf[p] : d \in Results[c]
    BY DEF DevicesOf
  <2>2. PICK r \in mem : r.pod = p /\ r.claim = c
    BY DEF Recorded
  <2>3. PICK x \in mem : x.pod = p /\ x.dev = d
    BY <2>1, <2>2 DEF ClaimInv, RecordInv
  <2> QED
    BY <2>3 DEF DevicesIn, GetDevicesByPodUID
<1>2. ASSUME NEW d \in DevicesIn(GetDevicesByPodUID(p)) PROVE d \in DevicesOf(p)
  <2>1. PICK r \in mem : r.pod = p /\ r.dev = d
    BY DEF DevicesIn, GetDevicesByPodUID
  <2>2. r.claim \in ClaimsOf[p] /\ d \in Results[r.claim]
    BY <2>1 DEF ClaimInv, RecordInv
  <2> QED
    BY <2>2 DEF DevicesOf
<1> QED
  BY <1>1, <1>2

\* A step that touches neither records nor drivers, spec files and pods.
LEMMA LocalStep ==
  ASSUME ClaimInv, UNCHANGED sharedVars
  PROVE  allocatable' = Devices /\ Exclusive' /\ RecordInv' /\ RunningInv'
BY DEF ClaimInv, sharedVars, Exclusive, RecordInv, RunningInv, Recorded, Bound, Live

\* A step that only changes the driver of a device of the call's claim, while
\* that claim is not recorded or its pod is ending.
LEMMA DriverStepKeeps ==
  ASSUME ClaimInv, claim # NoClaim, NEW d \in Results[claim],
         NEW b, drv' = [drv EXCEPT ![d] = b],
         UNCHANGED <<mem, ckpt, claimSpec, podSpec, phase, allocatable>>
  PROVE  allocatable' = Devices /\ Exclusive' /\ RecordInv' /\ RunningInv'
<1>1. allocatable' = Devices /\ Exclusive' /\ RunningInv'
  BY DEF ClaimInv, Exclusive, RunningInv, Recorded, Live
<1>2. pod \in Pods /\ Live(pod) /\ claim \in ClaimsOf[pod]
  BY SentinelAssumption DEF ClaimInv, TypeOK, CallInv, Live
<1>3. ASSUME NEW r \in mem, phase[r.pod] # "terminating" PROVE r.dev # d
  <2>1. SUFFICES ASSUME r.dev = d PROVE FALSE
    OBVIOUS
  <2>2. r.pod = pod /\ r.claim = claim
    BY <1>2, <2>1, DeviceOwner
  <2> QED
    BY <1>3, <2>2 DEF ClaimInv, TypeOK, CallInv, WorkInv, Recorded
<1>4. RecordInv'
  BY <1>3, RecordTypes DEF ClaimInv, TypeOK, RecordInv, Bound, Live
<1> QED
  BY <1>1, <1>4

-----------------------------------------------------------------------------
(* The steps of a prepare call *)

\* A prepare call begins with every claim of its pod still to do.
LEMMA PrepareResourceClaimsKeeps ==
  ASSUME ClaimInv, NEW p \in Pods, PrepareResourceClaims(p)
  PROVE  Kept'
<1> USE SentinelAssumption, AllocationAssumption
    DEF ClaimInv, PrepareResourceClaims, MayPrepare, TypeOK, hostVars, recVars, specVars
<1>1. allocatable' = Devices /\ Exclusive' /\ RecordInv' /\ RunningInv'
  BY LocalStep DEF sharedVars
<1>2. CallInv'
  BY DEF CallInv
<1>3. WorkInv'
  BY DEF WorkInv, CallInv, Recorded
<1>4. ProgressInv'
  BY DEF ProgressInv, CallInv
<1> QED
  BY <1>1, <1>2, <1>3, <1>4 DEF Kept

\* The next claim is answered from its record, fails before any device is
\* touched, or becomes the claim at hand with all its devices left.
LEMMA PrepareResourceClaimKeeps ==
  ASSUME ClaimInv, NEW c \in Claims, PrepareResourceClaim(c)
  PROVE  Kept'
<1> USE SentinelAssumption, AllocationAssumption
    DEF ClaimInv, PrepareResourceClaim, TypeOK, hostVars, recVars, specVars, envVars
<1>1. allocatable' = Devices /\ Exclusive' /\ RecordInv' /\ RunningInv'
  BY LocalStep DEF sharedVars
<1>2. CallInv'
  BY DEF CallInv
<1>3. WorkInv'
  BY DEF WorkInv, CallInv, Recorded, Get
<1>4. ProgressInv'
  BY DEF ProgressInv, CallInv, Recorded, Get, AlreadyPrepared
<1> QED
  BY <1>1, <1>2, <1>3, <1>4 DEF Kept

\* A device that is set up moves from what is left to what has been done; no
\* recorded claim has it, so that no record loses its driver.
LEMMA ApplyConfigOnDeviceKeeps ==
  ASSUME ClaimInv, NEW d \in Devices, ApplyConfigOnDevice(d)
  PROVE  Kept'
<1> USE SentinelAssumption DEF ApplyConfigOnDevice
<1>1. /\ claim # NoClaim /\ claim \in ClaimsOf[pod] /\ op = "prepare"
      /\ left \subseteq Results[claim] /\ pod \in Pods
  BY DEF ClaimInv, TypeOK, CallInv, WorkInv
<1>2. allocatable' = Devices /\ Exclusive' /\ RecordInv' /\ RunningInv'
  BY <1>1, DriverStepKeeps DEF recVars, specVars, envVars
<1>3. CallInv'
  BY DEF ClaimInv, CallInv, callVars, envVars
<1>4. PICK x : /\ cur' = cur \cup {x}
               /\ x.pod = pod /\ x.claim = claim /\ x.dev = d
  <2>1. PICK i, info : cur' = cur \cup {Prepared(d, i, info)}
    OBVIOUS
  <2>2. /\ Prepared(d, i, info).pod = pod /\ Prepared(d, i, info).claim = claim
        /\ Prepared(d, i, info).dev = d
    BY DEF Prepared
  <2> QED
    BY <2>1, <2>2
<1>5. WorkInv'
  <2>1. Config[claim][d] \notin {NoDriver, DefaultDriver}
           => drv'[d] = Config[claim][d]
    BY <1>1 DEF BindTarget, ClaimInv, TypeOK
  <2>2. \A r \in cur : r.dev # d
    BY DEF ClaimInv, WorkInv
  <2>3. \A r \in cur' : r.dev \notin left' /\ Bound(claim, r.dev)'
    BY <1>1, <1>4, <2>1, <2>2 DEF ClaimInv, TypeOK, WorkInv, Bound
  <2> QED
    BY <1>1, <1>4, <2>3 DEF ClaimInv, WorkInv, Recorded, callVars, recVars
<1>6. ProgressInv'
  BY DEF ClaimInv, ProgressInv, Recorded, callVars, recVars, specVars
<1> QED
  BY <1>2, <1>3, <1>5, <1>6 DEF Kept

\* A device that cannot be set up belongs to no record; the call has an error.
LEMMA ApplyConfigOnDeviceFailsKeeps ==
  ASSUME ClaimInv, NEW d \in Devices, ApplyConfigOnDeviceFails(d)
  PROVE  Kept'
<1> USE SentinelAssumption DEF ApplyConfigOnDeviceFails, Undo
<1>1. /\ claim # NoClaim /\ op = "prepare" /\ left \subseteq Results[claim]
  BY DEF ClaimInv, TypeOK, CallInv, WorkInv
<1>2. \E b : drv' = [drv EXCEPT ![d] = b]
  <2>1. drv = [drv EXCEPT ![d] = drv[d]]
    BY DEF ClaimInv, TypeOK
  <2> QED
    BY <2>1 DEF FailedApply
<1>3. allocatable' = Devices /\ Exclusive' /\ RecordInv' /\ RunningInv'
  BY <1>1, <1>2, DriverStepKeeps DEF recVars, specVars, envVars
<1>4. CallInv'
  BY <1>1 DEF ClaimInv, CallInv, envVars
<1>5. WorkInv'
  BY <1>1 DEF ClaimInv, WorkInv, Recorded, ToRestore, recVars
<1>6. ProgressInv'
  BY <1>1 DEF ProgressInv
<1> QED
  BY <1>3, <1>4, <1>5, <1>6 DEF Kept

\* A claim without devices ends with an error and changes no record.
LEMMA NoPreparedDevicesKeeps ==
  ASSUME ClaimInv, NoPreparedDevices
  PROVE  Kept'
<1> USE SentinelAssumption
    DEF ClaimInv, NoPreparedDevices, NextClaim, TypeOK, hostVars, recVars, specVars, envVars
<1>1. allocatable' = Devices /\ Exclusive' /\ RecordInv' /\ RunningInv'
  BY LocalStep DEF sharedVars
<1>2. CallInv' /\ WorkInv' /\ ProgressInv'
  BY DEF CallInv, WorkInv, ProgressInv
<1> QED
  BY <1>1, <1>2 DEF Kept

\* The device-info files are no part of the invariant.
LEMMA SyncDeviceInfoFilesKeeps ==
  ASSUME ClaimInv, SyncDeviceInfoFiles
  PROVE  Kept'
<1> USE SentinelAssumption
    DEF ClaimInv, SyncDeviceInfoFiles, Undo, TypeOK, recVars, specVars, envVars
<1>1. allocatable' = Devices /\ Exclusive' /\ RecordInv' /\ RunningInv'
  BY LocalStep DEF sharedVars
<1>2. CallInv'
  BY DEF CallInv
<1>3. WorkInv'
  BY DEF WorkInv, CallInv, Recorded, Bound
<1>4. ProgressInv'
  BY DEF ProgressInv, CallInv, Recorded
<1> QED
  BY <1>1, <1>2, <1>3, <1>4 DEF Kept

\* The spec file is there before the claim is recorded.
LEMMA CreateClaimSpecFileKeeps ==
  ASSUME ClaimInv, CreateClaimSpecFile
  PROVE  Kept'
<1> USE SentinelAssumption
    DEF ClaimInv, CreateClaimSpecFile, Undo, TypeOK, hostVars, recVars, envVars
<1>1. allocatable' = Devices /\ Exclusive' /\ RecordInv' /\ RunningInv'
  BY DEF Exclusive, RecordInv, RunningInv, Recorded, Bound, Live
<1>2. CallInv'
  BY DEF CallInv
<1>3. WorkInv'
  BY DEF WorkInv, CallInv, Recorded, Bound
<1>4. ProgressInv'
  BY DEF ProgressInv, CallInv, Recorded
<1> QED
  BY <1>1, <1>2, <1>3, <1>4 DEF Kept

\* Set records every device of the claim, in memory and in the checkpoint, with
\* its spec file and its driver in place.
LEMMA SetClaimKeeps ==
  ASSUME NoRollback, ClaimInv, SetClaim
  PROVE  Kept'
<1> USE SentinelAssumption
<1>1. /\ mem' = mem \cup cur /\ ckpt' = mem' /\ claim' = NoClaim
      /\ UNCHANGED <<op, pod, todo, result, drv, claimSpec, podSpec, phase, allocatable>>
      /\ stage' = "claims"
  BY DEF SetClaim, SyncToCheckpoint, NextClaim, Fault, NoRollback, Get, ClaimInv,
     CallInv, WorkInv, Recorded, TypeOK, hostVars, specVars, envVars
<1>2. /\ op = "prepare" /\ pod \in Pods /\ Live(pod) /\ claim \in ClaimsOf[pod]
      /\ claim \in claimSpec /\ cur # {} /\ claim # NoClaim
      /\ \A r \in cur : /\ r.pod = pod /\ r.claim = claim /\ r.dev \in Results[claim]
                        /\ Bound(claim, r.dev)
      /\ \A d \in Results[claim] : \E r \in cur : r.dev = d
  BY DEF SetClaim, ClaimInv, TypeOK, CallInv, WorkInv, Live
<1>3. RecordInv'
  <2>1. ASSUME NEW r \in mem'
        PROVE  /\ Live(r.pod)' /\ r.claim \in ClaimsOf[r.pod]
               /\ r.dev \in Results[r.claim]
               /\ \A d \in Results[r.claim] : \E x \in mem' :
                     x.pod = r.pod /\ x.claim = r.claim /\ x.dev = d
               /\ phase'[r.pod] # "terminating"
                     => r.claim \in claimSpec' /\ Bound(r.claim, r.dev)'
    <3>1. CASE r \in mem
      BY <1>1, <3>1 DEF ClaimInv, RecordInv, Live, Bound
    <3>2. CASE r \in cur
      BY <1>1, <1>2, <3>2 DEF Live, Bound
    <3> QED
      BY <1>1, <3>1, <3>2
  <2> QED
    BY <1>1, <2>1 DEF RecordInv
<1>4. /\ \E r \in mem' : r.pod = pod /\ r.claim = claim
      /\ \A p, c : Recorded(p, c) => Recorded(p, c)'
  BY <1>1, <1>2 DEF Recorded
<1>5. allocatable' = Devices /\ Exclusive'
  BY <1>1 DEF ClaimInv, Exclusive, Live
<1>6. RunningInv'
  BY <1>1, <1>4 DEF ClaimInv, RunningInv
<1>7. CallInv' /\ WorkInv'
  BY <1>1, <1>2 DEF ClaimInv, CallInv, WorkInv
<1>8. ProgressInv'
  BY <1>1, <1>2, <1>4 DEF ClaimInv, ProgressInv, Recorded
<1> QED
  BY <1>3, <1>5, <1>6, <1>7, <1>8 DEF Kept

\* The pod's spec file holds the devices of all its claims, each recorded by now.
LEMMA CreateGlobalPodSpecFileKeeps ==
  ASSUME NoRollback, ClaimInv, CreateGlobalPodSpecFile
  PROVE  Kept'
<1> USE SentinelAssumption
<1> DEFINE devs == DevicesIn(GetDevicesByPodUID(pod))
<1>1. devs \subseteq allocatable
  BY RecordTypes DEF ClaimInv, TypeOK, GetDevicesByPodUID
<1>2. /\ stage' = "reply" /\ op' = op /\ todo' = todo
      /\ UNCHANGED <<pod, claim, drv, mem, ckpt, claimSpec, phase, allocatable>>
  BY <1>1 DEF CreateGlobalPodSpecFile, Fault, NoRollback, claimVars, hostVars,
     recVars, envVars
<1>3. \/ result' = "error" /\ podSpec' = podSpec /\ GetDevicesByPodUID(pod) = {}
      \/ result' = result /\ podSpec' = [podSpec EXCEPT ![pod] = devs]
  BY <1>1 DEF CreateGlobalPodSpecFile, Fault, NoRollback
<1>4. /\ op = "prepare" /\ todo = {} /\ pod \in Pods /\ claim = NoClaim
      /\ stage = "claims"
  BY DEF CreateGlobalPodSpecFile, ClaimInv, TypeOK
<1>5. (\A c \in ClaimsOf[pod] : Recorded(pod, c)) => devs = DevicesOf(pod)
  BY <1>4, AllDevicesRecorded
<1> HIDE DEF devs
<1>6. allocatable' = Devices /\ Exclusive' /\ RecordInv'
  BY <1>2 DEF ClaimInv, Exclusive, RecordInv, Bound, Live
<1>7. RunningInv'
  <2> SUFFICES ASSUME NEW p \in Pods, phase[p] = "running"
               PROVE  podSpec'[p] = DevicesOf(p)
                      /\ \A c \in ClaimsOf[p] : Recorded(p, c)'
    BY <1>2 DEF RunningInv
  <2>1. podSpec[p] = DevicesOf(p) /\ \A c \in ClaimsOf[p] : Recorded(p, c)
    BY DEF ClaimInv, RunningInv
  <2> QED
    BY <1>2, <1>3, <1>5, <2>1 DEF ClaimInv, TypeOK, Recorded
<1>8. CallInv' /\ WorkInv'
  BY <1>2, <1>4 DEF ClaimInv, CallInv, WorkInv
<1>9. ProgressInv'
  <2>1. result = "ok" => \A c \in ClaimsOf[pod] : Recorded(pod, c)
    BY <1>4, AllocationAssumption DEF ClaimInv, ProgressInv
  <2>2. result' = "ok" => result = "ok" /\ podSpec'[pod] = devs
    BY <1>3, <1>4 DEF ClaimInv, TypeOK
  <2> QED
    BY <1>2, <1>4, <1>5, <2>1, <2>2 DEF ProgressInv, Recorded
<1> QED
  BY <1>6, <1>7, <1>8, <1>9 DEF Kept

-----------------------------------------------------------------------------
(* The steps of an unprepare call, and of undoing a failed prepare *)

\* An unprepare call begins with every claim of a terminating pod still to do.
LEMMA UnprepareResourceClaimsKeeps ==
  ASSUME ClaimInv, NEW p \in Pods, UnprepareResourceClaims(p)
  PROVE  Kept'
<1> USE SentinelAssumption, AllocationAssumption
    DEF ClaimInv, UnprepareResourceClaims, TypeOK, claimVars, hostVars, recVars,
        specVars, envVars
<1>1. allocatable' = Devices /\ Exclusive' /\ RecordInv' /\ RunningInv'
  BY LocalStep DEF sharedVars
<1>2. CallInv' /\ WorkInv'
  BY DEF CallInv, WorkInv
<1>3. ProgressInv'
  BY DEF ProgressInv, RecordInv
<1> QED
  BY <1>1, <1>2, <1>3 DEF Kept

\* A claim without record is done; another one becomes the claim at hand with
\* the devices of its record.
LEMMA UnprepareResourceClaimKeeps ==
  ASSUME ClaimInv, NEW c \in Claims, UnprepareResourceClaim(c)
  PROVE  Kept'
<1> USE SentinelAssumption
<1>1. /\ op = "unprepare" /\ c \in ClaimsOf[pod] /\ stage = "claims"
      /\ claim = NoClaim /\ c # NoClaim /\ pod \in Pods
  BY DEF UnprepareResourceClaim, ClaimInv, TypeOK, CallInv
<1>2. /\ UNCHANGED sharedVars /\ UNCHANGED <<op, pod, result>>
      /\ todo' = todo \ {c}
  BY DEF UnprepareResourceClaim, UnknownClaim, sharedVars, hostVars, recVars,
     specVars, envVars
<1>3. allocatable' = Devices /\ Exclusive' /\ RecordInv' /\ RunningInv'
  BY <1>2, LocalStep
<1>4. CASE /\ GetByClaim(c) = {}
           /\ UNCHANGED <<stage, claim, left, cur, undo, claimResult>>
  <2>1. \A r \in mem : r.claim # c
    BY <1>4 DEF GetByClaim, PodsWithClaim
  <2>2. CallInv' /\ WorkInv'
    BY <1>1, <1>2, <1>4 DEF ClaimInv, CallInv, WorkInv, sharedVars
  <2>3. ProgressInv'
    BY <1>1, <1>2, <1>4, <2>1 DEF ClaimInv, ProgressInv, sharedVars
  <2> QED
    BY <1>3, <2>2, <2>3 DEF Kept
<1>5. CASE \E rs \in GetByClaim(c) :
              /\ stage' = "clean" /\ claim' = c /\ cur' = rs
              /\ left' = {} /\ undo' = "claim"
  <2>1. PICK q \in PodsWithClaim(c) : cur' = Get(q, c)
    BY <1>5 DEF GetByClaim
  <2>2. q = pod
    BY <1>1, <2>1, CallOwnsClaim DEF PodsWithClaim
  <2>3. \A r \in cur' : r.pod = pod /\ r.claim = c /\ r.dev \in Results[c]
    BY <2>1, <2>2 DEF Get, ClaimInv, RecordInv
  <2>4. CallInv'
    BY <1>1, <1>2, <1>5 DEF ClaimInv, CallInv, sharedVars
  <2>5. WorkInv'
    BY <1>1, <1>2, <1>5, <2>3 DEF WorkInv, sharedVars
  <2>6. ProgressInv'
    <3>1. \A r \in mem : r.claim # NoClaim
      BY RecordTypes DEF ClaimInv, TypeOK
    <3> QED
      BY <1>1, <1>2, <1>5, <3>1 DEF ClaimInv, ProgressInv, sharedVars
  <2> QED
    BY <1>3, <2>4, <2>5, <2>6 DEF Kept
<1> QED
  BY <1>4, <1>5 DEF UnprepareResourceClaim

\* Cleaning files leaves records and drivers alone.
LEMMA CleanDeviceInfoFilesKeeps ==
  ASSUME ClaimInv, CleanDeviceInfoFiles
  PROVE  Kept'
<1> USE SentinelAssumption
    DEF ClaimInv, CleanDeviceInfoFiles, TypeOK, recVars, specVars, envVars
<1>1. allocatable' = Devices /\ Exclusive' /\ RecordInv' /\ RunningInv'
  BY LocalStep DEF sharedVars
<1>2. CallInv'
  BY DEF CallInv
<1>3. WorkInv'
  BY DEF WorkInv, CallInv, Recorded, ToRestore
<1>4. ProgressInv'
  BY DEF ProgressInv, CallInv, Recorded
<1> QED
  BY <1>1, <1>2, <1>3, <1>4 DEF Kept

\* A restore moves a device of the claim at hand only, which no record promises
\* to a pod that goes on.
LEMMA RestoreDeviceDriverKeeps ==
  ASSUME ClaimInv, NEW d \in Devices, RestoreDeviceDriver(d)
  PROVE  Kept'
<1> USE SentinelAssumption DEF RestoreDeviceDriver
<1>1. claim # NoClaim /\ left \subseteq Results[claim] /\ left' \subseteq left
  BY DEF ClaimInv, TypeOK, WorkInv
<1>2. \E b : drv' = [drv EXCEPT ![d] = b]
  OBVIOUS
<1>3. allocatable' = Devices /\ Exclusive' /\ RecordInv' /\ RunningInv'
  BY <1>1, <1>2, DriverStepKeeps DEF recVars, specVars, envVars
<1>4. CallInv'
  BY DEF ClaimInv, CallInv, callVars, envVars
<1>5. WorkInv'
  BY <1>1 DEF ClaimInv, WorkInv, Recorded, callVars, recVars, specVars
<1>6. ProgressInv'
  BY DEF ClaimInv, ProgressInv, Recorded, callVars, recVars, specVars
<1> QED
  BY <1>3, <1>4, <1>5, <1>6 DEF Kept

\* The failed claim of a prepare is given up without having been recorded.
LEMMA DevicesUndoneKeeps ==
  ASSUME ClaimInv, DevicesUndone
  PROVE  Kept'
<1> USE SentinelAssumption
    DEF ClaimInv, DevicesUndone, NextClaim, TypeOK, hostVars, recVars, specVars, envVars
<1>1. allocatable' = Devices /\ Exclusive' /\ RecordInv' /\ RunningInv'
  BY LocalStep DEF sharedVars
<1>2. CallInv' /\ WorkInv'
  BY DEF CallInv, WorkInv
<1>3. ProgressInv'
  BY DEF ProgressInv, CallInv
<1> QED
  BY <1>1, <1>2, <1>3 DEF Kept

\* The spec files that go belong to the terminating pod.
LEMMA DeleteSpecFilesKeeps ==
  ASSUME ClaimInv, DeleteSpecFiles
  PROVE  Kept'
<1> USE SentinelAssumption
    DEF ClaimInv, DeleteSpecFiles, NextClaim, TypeOK, hostVars, recVars, envVars
<1>1. allocatable' = Devices /\ Exclusive'
  BY DEF Exclusive, Live
<1>2. /\ op = "unprepare" /\ phase[pod] = "terminating" /\ claim \in ClaimsOf[pod]
      /\ claim # NoClaim /\ pod \in Pods
  BY DEF CallInv
<1>3. RecordInv'
  <2>1. \A r \in mem : phase[r.pod] # "terminating" => r.claim # claim
    BY <1>2, CallOwnsClaim
  <2> QED
    BY <2>1 DEF RecordInv, Bound, Live
<1>4. RunningInv'
  BY <1>2 DEF RunningInv, Recorded, WorkInv
<1>5. CallInv'
  BY <1>2 DEF CallInv
<1>6. WorkInv'
  BY <1>2 DEF WorkInv, Recorded
<1>7. ProgressInv'
  BY <1>2 DEF ProgressInv
<1> QED
  BY <1>1, <1>3, <1>4, <1>5, <1>6, <1>7 DEF Kept

\* DeleteClaim drops the pod's records from memory and checkpoint alike.
LEMMA DeleteClaimKeeps ==
  ASSUME NoRollback, ClaimInv, DeleteClaim
  PROVE  Kept'
<1> USE SentinelAssumption
<1>1. /\ op = "unprepare" /\ phase[pod] = "terminating" /\ claim \in ClaimsOf[pod]
      /\ claim # NoClaim /\ pod \in Pods /\ stage = "forget"
  BY DEF DeleteClaim, ClaimInv, TypeOK, CallInv
<1>2. mem' = {r \in mem : r.pod # pod}
  <2>1. PICK q \in PodsWithClaim(claim) : mem' = mem \ GetDevicesByPodUID(q)
    BY DEF DeleteClaim, Forgotten
  <2>2. q = pod
    BY <1>1, <2>1, CallOwnsClaim DEF PodsWithClaim
  <2> QED
    BY <2>1, <2>2 DEF GetDevicesByPodUID
<1>3. /\ ckpt' = mem' /\ stage' = "claims" /\ claim' = NoClaim /\ cur' = {}
      /\ UNCHANGED <<op, pod, todo, result, drv, claimSpec, podSpec, phase, allocatable>>
  BY DEF DeleteClaim, SyncToCheckpoint, NextClaim, Fault, NoRollback, hostVars,
     specVars, envVars
<1>4. allocatable' = Devices /\ Exclusive'
  BY <1>3 DEF ClaimInv, Exclusive, Live
<1>5. RecordInv'
  BY <1>2, <1>3 DEF ClaimInv, RecordInv, Bound, Live
<1>6. RunningInv'
  BY <1>1, <1>2, <1>3 DEF ClaimInv, RunningInv, Recorded
<1>7. CallInv' /\ WorkInv'
  BY <1>1, <1>3 DEF ClaimInv, CallInv, WorkInv
<1>8. ProgressInv'
  BY <1>1, <1>2, <1>3 DEF ProgressInv
<1> QED
  BY <1>4, <1>5, <1>6, <1>7, <1>8 DEF Kept

\* The call goes on to its answer when no claim is left.
LEMMA UnprepareDoneKeeps ==
  ASSUME ClaimInv, UnprepareDone
  PROVE  Kept'
<1> USE SentinelAssumption
    DEF ClaimInv, UnprepareDone, TypeOK, claimVars, hostVars, recVars, specVars, envVars
<1>1. allocatable' = Devices /\ Exclusive' /\ RecordInv' /\ RunningInv'
  BY LocalStep DEF sharedVars
<1>2. CallInv' /\ WorkInv'
  BY DEF CallInv, WorkInv
<1>3. ProgressInv'
  BY DEF ProgressInv, CallInv
<1> QED
  BY <1>1, <1>2, <1>3 DEF Kept

-----------------------------------------------------------------------------
(* The kubelet, the NRI plugin and crashes *)

\* A pod runs after a prepare without error and ends after such an unprepare; a
\* lost answer changes nothing.
LEMMA ReplyKeeps ==
  ASSUME ClaimInv, Reply
  PROVE  Kept'
<1> USE SentinelAssumption
<1>1. /\ stage = "reply" /\ pod \in Pods /\ claim = NoClaim /\ todo = {}
      /\ op \in {"prepare", "unprepare"} /\ result \in {"ok", "error"}
      /\ phase \in [Pods -> {"new", "admitted", "running", "terminating", "gone"}]
  BY DEF Reply, ClaimInv, TypeOK, CallInv
<1>2. /\ stage' = "idle" /\ op' = "none" /\ claim' = NoClaim
      /\ UNCHANGED <<drv, mem, ckpt, claimSpec, podSpec, allocatable>>
  BY DEF Reply, Idle, hostVars, recVars, specVars
<1>3. CallInv' /\ WorkInv' /\ ProgressInv'
  BY <1>2 DEF CallInv, WorkInv, ProgressInv
<1>4. CASE UNCHANGED phase
  BY <1>2, <1>3, <1>4, LocalStep DEF Kept, sharedVars
<1>5. CASE result = "ok" /\ op = "unprepare" /\ phase' = [phase EXCEPT ![pod] = "gone"]
  <2>1. \A r \in mem : r.pod # pod
    <3>1. mem \in SUBSET PreparedDevice
      BY DEF ClaimInv, TypeOK
    <3>2. \A r \in mem : r.claim # NoClaim
      BY <3>1, RecordTypes
    <3> QED
      BY <1>1, <1>5, <3>2 DEF ClaimInv, ProgressInv
  <2>2. allocatable' = Devices /\ Exclusive'
    BY <1>1, <1>2, <1>5 DEF ClaimInv, Exclusive, Live
  <2>3. RecordInv'
    BY <1>1, <1>2, <1>5, <2>1, RecordTypes DEF ClaimInv, TypeOK, RecordInv, Bound, Live
  <2>4. RunningInv'
    BY <1>1, <1>2, <1>5 DEF ClaimInv, RunningInv, Recorded
  <2> QED
    BY <1>3, <2>2, <2>3, <2>4 DEF Kept
<1>6. CASE result = "ok" /\ op = "prepare" /\ phase' = [phase EXCEPT ![pod] = "running"]
  <2>1. phase[pod] \in {"admitted", "running"}
    BY <1>6 DEF ClaimInv, CallInv
  <2>2. allocatable' = Devices /\ Exclusive'
    BY <1>1, <1>2, <1>6, <2>1 DEF ClaimInv, Exclusive, Live
  <2>3. RecordInv'
    BY <1>1, <1>2, <1>6, <2>1, RecordTypes DEF ClaimInv, TypeOK, RecordInv, Bound, Live
  <2>4. podSpec[pod] = DevicesOf(pod) /\ \A c \in ClaimsOf[pod] : Recorded(pod, c)
    BY <1>1, <1>6, AllocationAssumption DEF ClaimInv, ProgressInv
  <2>5. RunningInv'
    BY <1>1, <1>2, <1>6, <2>4 DEF ClaimInv, RunningInv, Recorded
  <2> QED
    BY <1>3, <2>2, <2>3, <2>5 DEF Kept
<1>7. UNCHANGED phase \/ (result = "ok" /\ phase' = [phase EXCEPT ![pod] =
         IF op = "unprepare" THEN "gone" ELSE "running"])
  BY <1>1 DEF Reply
<1> QED
  BY <1>1, <1>4, <1>5, <1>6, <1>7

\* A pod is admitted when no live one has a claim or a device of it.
LEMMA AdmitKeeps ==
  ASSUME ClaimInv, NEW p \in Pods, Admit(p)
  PROVE  Kept'
<1> USE SentinelAssumption
    DEF Admit, hostVars, recVars, specVars, callVars, claimVars
<1>1. phase \in [Pods -> {"new", "admitted", "running", "terminating", "gone"}]
  BY DEF ClaimInv, TypeOK
<1>2. \A q \in Pods : Live(q)' <=> Live(q) \/ q = p
  BY <1>1 DEF Live
<1>3. \A q \in Pods : Live(q) => \A c \in ClaimsOf[p], e \in ClaimsOf[q] :
         c # e /\ Results[c] \cap Results[e] = {}
  BY DEF DevicesOf
<1>4. allocatable' = Devices /\ Exclusive'
  BY <1>2, <1>3 DEF ClaimInv, Exclusive
<1>5. RecordInv'
  BY <1>1, RecordTypes DEF ClaimInv, TypeOK, RecordInv, Bound, Live
<1>6. RunningInv'
  BY <1>1 DEF ClaimInv, RunningInv, Recorded
<1>7. CallInv'
  BY <1>1 DEF ClaimInv, CallInv, TypeOK
<1>8. WorkInv'
  BY DEF ClaimInv, WorkInv, Recorded, Bound
<1>9. ProgressInv'
  BY DEF ClaimInv, ProgressInv, Recorded
<1> QED
  BY <1>4, <1>5, <1>6, <1>7, <1>8, <1>9 DEF Kept

\* A pod that ends asks for less.
LEMMA TerminateKeeps ==
  ASSUME ClaimInv, NEW p \in Pods, Terminate(p)
  PROVE  Kept'
<1> USE SentinelAssumption
    DEF Terminate, hostVars, recVars, specVars, callVars, claimVars
<1>1. phase \in [Pods -> {"new", "admitted", "running", "terminating", "gone"}]
  BY DEF ClaimInv, TypeOK
<1>2. allocatable' = Devices /\ Exclusive'
  BY <1>1 DEF ClaimInv, Exclusive, Live
<1>3. RecordInv'
  BY <1>1, RecordTypes DEF ClaimInv, TypeOK, RecordInv, Bound, Live
<1>4. RunningInv'
  BY <1>1 DEF ClaimInv, RunningInv, Recorded
<1>5. CallInv'
  BY <1>1 DEF ClaimInv, CallInv, TypeOK
<1>6. WorkInv'
  BY DEF ClaimInv, WorkInv, Recorded, Bound
<1>7. ProgressInv'
  BY DEF ClaimInv, ProgressInv, Recorded
<1> QED
  BY <1>2, <1>3, <1>4, <1>5, <1>6, <1>7 DEF Kept

\* A crash loses the call; the records come back from a checkpoint that equals them.
LEMMA CrashRestartKeeps ==
  ASSUME NoRollback, ClaimInv, CrashRestart
  PROVE  Kept'
<1>1. /\ UNCHANGED sharedVars
      /\ stage' = "idle" /\ op' = "none" /\ claim' = NoClaim
  BY DEF CrashRestart, Restart, Idle, NoRollback, ClaimInv, RecordInv, sharedVars,
     hostVars, specVars
<1>2. allocatable' = Devices /\ Exclusive' /\ RecordInv' /\ RunningInv'
  BY <1>1, LocalStep
<1>3. CallInv' /\ WorkInv' /\ ProgressInv'
  BY <1>1 DEF CallInv, WorkInv, ProgressInv
<1> QED
  BY <1>2, <1>3 DEF Kept

\* Steps that change nothing.
LEMMA StutterKeeps ==
  ASSUME ClaimInv, UNCHANGED <<sharedVars, callVars, claimVars>>
  PROVE  Kept'
<1> USE DEF sharedVars, callVars, claimVars
<1>1. allocatable' = Devices /\ Exclusive' /\ RecordInv' /\ RunningInv'
  BY LocalStep
<1>2. CallInv'
  BY DEF ClaimInv, CallInv
<1>3. WorkInv'
  BY DEF ClaimInv, WorkInv, Recorded, Bound
<1>4. ProgressInv'
  BY DEF ClaimInv, ProgressInv, Recorded
<1> QED
  BY <1>1, <1>2, <1>3, <1>4 DEF Kept
-----------------------------------------------------------------------------

\* The invariant holds before the first pod: no record, no call.
LEMMA InitClaimInv ==
  ASSUME NoRollback, Init, TypeOK
  PROVE  ClaimInv
BY SentinelAssumption
   DEF Init, NoRollback, ClaimInv, CallInv, Exclusive, Live, RecordInv, RunningInv,
       WorkInv, ProgressInv

\* Without rollbacks, checkpoint failures and reboots every step keeps ClaimInv.
THEOREM ClaimInvCorrect == ASSUME NoRollback PROVE Spec => []ClaimInv
<1>1. Init /\ TypeOK => ClaimInv
  BY InitClaimInv
<1>2. ClaimInv /\ [Next]_vars => ClaimInv'
  <2> SUFFICES ASSUME ClaimInv, [Next]_vars PROVE Kept'
    BY TypeStep DEF ClaimInv, Kept
  <2>1. CASE DriverStep
    BY <2>1, PrepareResourceClaimKeeps, UnprepareResourceClaimKeeps,
       ApplyConfigOnDeviceKeeps, ApplyConfigOnDeviceFailsKeeps,
       RestoreDeviceDriverKeeps, NoPreparedDevicesKeeps, SyncDeviceInfoFilesKeeps,
       CreateClaimSpecFileKeeps, SetClaimKeeps, CreateGlobalPodSpecFileKeeps,
       CleanDeviceInfoFilesKeeps, DevicesUndoneKeeps, DeleteSpecFilesKeeps,
       DeleteClaimKeeps, UnprepareDoneKeeps, ReplyKeeps DEF DriverStep
  <2>2. CASE KubeletStep
    BY <2>2, PrepareResourceClaimsKeeps, UnprepareResourceClaimsKeeps,
       AdmitKeeps, TerminateKeeps DEF KubeletStep
  <2>3. ASSUME NEW p \in Pods, UpdatePreparedDeviceNetworkData(p) PROVE Kept'
    BY <2>3, StutterKeeps DEF UpdatePreparedDeviceNetworkData, SyncToCheckpoint,
       ClaimInv, RecordInv, sharedVars, hostVars, specVars, envVars
  <2>4. CASE CrashRestart
    BY <2>4, CrashRestartKeeps
  <2>5. CASE Reboot
    BY <2>5 DEF Reboot, NoRollback, ClaimInv, TypeOK
  <2>6. CASE UNCHANGED vars
    BY <2>6, StutterKeeps DEF vars, sharedVars, hostVars, recVars, specVars, envVars
  <2> QED
    BY <2>1, <2>2, <2>3, <2>4, <2>5, <2>6 DEF Next
<1> QED
  BY <1>1, <1>2, TypeCorrect, PTL DEF Spec

\* Whatever crashes, failed binds, lost answers and repeated calls happen, the
\* containers of a pod only run while all its claims are prepared.
THEOREM RunningIsPreparedCorrect == ASSUME NoRollback PROVE Spec => []RunningIsPrepared
<1>1. ClaimInv => RunningIsPrepared
  <2> SUFFICES ASSUME ClaimInv, NEW p \in Pods, phase[p] = "running",
                      NEW c \in ClaimsOf[p]
               PROVE  /\ podSpec[p] = DevicesOf(p)
                      /\ DevicesIn(Get(p, c)) = Results[c]
                      /\ c \in claimSpec
                      /\ \A d \in Results[c] : Bound(c, d)
    BY AllocationAssumption DEF RunningIsPrepared, Bound
  <2>1. podSpec[p] = DevicesOf(p)
    BY DEF ClaimInv, RunningInv
  <2>2. PICK r \in mem : r.pod = p /\ r.claim = c
    BY DEF ClaimInv, RunningInv, Recorded
  <2>3. c \in claimSpec
    BY <2>2 DEF ClaimInv, RecordInv
  <2>4. ASSUME NEW d \in Results[c]
        PROVE  Bound(c, d) /\ d \in DevicesIn(Get(p, c))
    <3>1. PICK x \in mem : x.pod = p /\ x.claim = c /\ x.dev = d
      BY <2>2 DEF ClaimInv, RecordInv
    <3>2. Bound(c, d)
      BY <3>1 DEF ClaimInv, RecordInv
    <3> QED
      BY <3>1, <3>2 DEF DevicesIn, Get
  <2>5. DevicesIn(Get(p, c)) \subseteq Results[c]
    BY DEF DevicesIn, Get, ClaimInv, RecordInv
  <2> QED
    BY <2>1, <2>3, <2>4, <2>5
<1> QED
  BY <1>1, ClaimInvCorrect, PTL

-----------------------------------------------------------------------------
(* DriverStableInUse *)

\* A step that changes the driver of a device works on it, or is a reboot.
LEMMA DriverChanges ==
  ASSUME TypeOK, Next, NEW d \in Devices, drv'[d] # drv[d], ~Reboot
  PROVE  claim # NoClaim /\ d \in left
<1>1. drv \in [Devices -> BoundDriver]
  BY DEF TypeOK
<1>2. ASSUME NEW e \in Devices,
             ApplyConfigOnDevice(e) \/ ApplyConfigOnDeviceFails(e) \/ RestoreDeviceDriver(e)
      PROVE  claim # NoClaim /\ d \in left
  <2>1. e \in left /\ stage \in {"devices", "restore"}
    BY <1>2 DEF ApplyConfigOnDevice, ApplyConfigOnDeviceFails, RestoreDeviceDriver
  <2>2. \/ drv' = drv
        \/ \E x : drv' = [drv EXCEPT ![e] = x]
    BY <1>2 DEF ApplyConfigOnDevice, ApplyConfigOnDeviceFails, FailedApply, RestoreDeviceDriver
  <2>3. e = d
    BY <1>1, <2>2
  <2> QED
    BY <2>1, <2>3 DEF TypeOK
<1> QED
  BY <1>2 DEF Next, DriverStep, KubeletStep, PrepareResourceClaim, UnprepareResourceClaim,
     NoPreparedDevices, SyncDeviceInfoFiles, CreateClaimSpecFile, SetClaim,
     CreateGlobalPodSpecFile, CleanDeviceInfoFiles, DevicesUndone, DeleteSpecFiles, DeleteClaim,
     UnprepareDone, Reply, PrepareResourceClaims, UnprepareResourceClaims, Admit, Terminate,
     UpdatePreparedDeviceNetworkData, CrashRestart, hostVars

\* The device a call binds or restores is of a claim that no running pod has:
\* the call's own pod either ends or has not recorded the claim.
LEMMA DeviceAtHandIsFree ==
  ASSUME ClaimInv, claim # NoClaim, NEW d \in left
  PROVE  ~InUse(d)
<1> SUFFICES ASSUME NEW p \in Pods, phase[p] = "running", d \in DevicesOf(p) PROVE FALSE
  BY DEF InUse
<1>1. /\ stage # "idle" /\ pod \in Pods /\ claim \in ClaimsOf[pod] /\ d \in Results[claim]
      /\ op \in {"prepare", "unprepare"}
  BY DEF ClaimInv, TypeOK, CallInv, WorkInv
<1>2. PICK e \in ClaimsOf[p] : d \in Results[e]
  BY DEF DevicesOf
<1>3. Live(p) /\ Live(pod)
  BY <1>1 DEF ClaimInv, CallInv, Live
<1>4. p = pod /\ phase[pod] = "running"
  BY <1>1, <1>2, <1>3 DEF ClaimInv, Exclusive
<1>5. op = "prepare"
  BY <1>1, <1>4 DEF ClaimInv, CallInv
<1>6. Recorded(pod, claim)
  BY <1>1, <1>4 DEF ClaimInv, RunningInv
<1> QED
  BY <1>5, <1>6 DEF ClaimInv, WorkInv

\* No step, of whatever call, changes the driver of a device under the
\* containers of a running pod: not a failed setup of another pod, not a
\* repeated prepare after a crash, not the restore of a pod that ends.
THEOREM DriverStableInUseCorrect == ASSUME NoRollback PROVE Spec => DriverStableInUse
<1>1. ClaimInv /\ [Next]_vars =>
         [\A d \in Devices : InUse(d) /\ InUse(d)' => drv'[d] = drv[d]]_vars
  <2> SUFFICES ASSUME ClaimInv, Next, NEW d \in Devices, InUse(d), drv'[d] # drv[d] PROVE FALSE
    OBVIOUS
  <2>1. ~Reboot
    BY DEF Reboot, NoRollback, ClaimInv, TypeOK
  <2> QED
    BY <2>1, DriverChanges, DeviceAtHandIsFree DEF ClaimInv
<1> QED
  BY <1>1, ClaimInvCorrect, PTL DEF Spec, DriverStableInUse

-----------------------------------------------------------------------------
(* StableInv: any failures, crashes and reboots *)

\* The pod of a call is live, and the claim at hand is one of its claims.
LEMMA StablePod ==
  ASSUME StableInv, stage # "idle"
  PROVE  pod \in Pods /\ Live(pod)
<1>1. pod \in Pods /\ op \in {"prepare", "rollback", "unprepare"}
  BY DEF StableInv, TypeOK, StableCall
<1> QED
  BY <1>1 DEF StableInv, StableCall, Live

\* Only Admit makes a pod live, and only when it shares nothing with a live one.
LEMMA ExclusiveStep ==
  ASSUME StableInv, [Next]_vars
  PROVE  Exclusive'
<1>1. phase \in [Pods -> {"new", "admitted", "running", "terminating", "gone"}]
  BY DEF StableInv, TypeOK
<1>2. ASSUME \A q \in Pods : Live(q)' => Live(q) PROVE Exclusive'
  BY <1>2 DEF StableInv, Exclusive
<1>3. ASSUME NEW p \in Pods, Admit(p) PROVE Exclusive'
  <2>1. \A q \in Pods : Live(q)' <=> Live(q) \/ q = p
    BY <1>1, <1>3 DEF Admit, Live
  <2>2. \A q \in Pods : Live(q) => \A c \in ClaimsOf[p], e \in ClaimsOf[q] :
           c # e /\ Results[c] \cap Results[e] = {}
    BY <1>3 DEF Admit, DevicesOf
  <2> QED
    BY <2>1, <2>2 DEF StableInv, Exclusive
<1>4. ASSUME NEW p \in Pods, Terminate(p) PROVE Exclusive'
  BY <1>1, <1>2, <1>4 DEF Terminate, Live
<1>5. CASE Reply
  <2>1. pod \in Pods /\ Live(pod)
    BY <1>5, StablePod DEF Reply
  <2> QED
    BY <1>1, <1>2, <1>5, <2>1 DEF Reply, Live
<1>6. CASE Reboot
  BY <1>1, <1>2, <1>6 DEF Reboot, Live
<1>7. CASE UNCHANGED phase
  BY <1>2, <1>7 DEF Live
<1> QED
  BY <1>3, <1>4, <1>5, <1>6, <1>7
  DEF Next, vars, DriverStep, KubeletStep, PrepareResourceClaim, UnprepareResourceClaim,
     ApplyConfigOnDevice, ApplyConfigOnDeviceFails, RestoreDeviceDriver,
     NoPreparedDevices, SyncDeviceInfoFiles, CreateClaimSpecFile, SetClaim,
     CreateGlobalPodSpecFile, CleanDeviceInfoFiles, DevicesUndone, DeleteSpecFiles, DeleteClaim,
     UnprepareDone, PrepareResourceClaims, UnprepareResourceClaims,
     UpdatePreparedDeviceNetworkData, CrashRestart, envVars

\* No call works on a claim that is not its pod's, or on a pod that runs
\* unless it prepares it again.
LEMMA StableCallStep ==
  ASSUME StableInv, [Next]_vars
  PROVE  StableCall'
<1> USE SentinelAssumption, AllocationAssumption DEF StableInv, StableCall
<1>1. ASSUME NEW p \in Pods, PrepareResourceClaims(p) \/ UnprepareResourceClaims(p)
      PROVE  StableCall'
  BY <1>1 DEF PrepareResourceClaims, MayPrepare, UnprepareResourceClaims, PreparedOnce, TypeOK,
     claimVars, envVars
<1>2. ASSUME NEW p \in Pods, Admit(p) \/ Terminate(p) PROVE StableCall'
  <2>1. UNCHANGED <<op, pod, stage, todo, claim, left, cur>>
    BY <1>2 DEF Admit, Terminate, callVars, claimVars
  <2>2. stage # "idle" => phase'[pod] = phase[pod]
    <3>1. stage # "idle" => pod \in Pods /\ phase[pod] # "new"
      BY StablePod DEF Live
    <3> QED
      BY <1>2, <3>1 DEF Admit, Terminate, TypeOK
  <2> QED
    BY <2>1, <2>2 DEF TypeOK
<1>3. ASSUME NEW c \in Claims, PrepareResourceClaim(c) PROVE StableCall'
  BY <1>3 DEF PrepareResourceClaim, TypeOK, envVars
<1>4. ASSUME NEW c \in Claims, UnprepareResourceClaim(c) PROVE StableCall'
  BY <1>4 DEF UnprepareResourceClaim, TypeOK, envVars
<1>5. ASSUME NEW d \in Devices, ApplyConfigOnDevice(d) PROVE StableCall'
  BY <1>5 DEF ApplyConfigOnDevice, TypeOK, callVars, envVars
<1>6. ToRestore(cur) \subseteq Results[claim]
  BY DEF StableRecords, ToRestore
<1>7. ASSUME NEW d \in Devices, ApplyConfigOnDeviceFails(d) PROVE StableCall'
  BY <1>6, <1>7 DEF ApplyConfigOnDeviceFails, Undo, TypeOK, envVars
<1>8. ASSUME NEW d \in Devices, RestoreDeviceDriver(d) PROVE StableCall'
  BY <1>8 DEF RestoreDeviceDriver, TypeOK, callVars, envVars
<1>9. CASE NoPreparedDevices
  BY <1>9 DEF NoPreparedDevices, NextClaim, TypeOK, envVars
<1>10. CASE SyncDeviceInfoFiles \/ CreateClaimSpecFile
  BY <1>10 DEF SyncDeviceInfoFiles, CreateClaimSpecFile, Undo, TypeOK, envVars
<1>11. CASE SetClaim
  BY <1>11 DEF SetClaim, NextClaim, Undo, TypeOK, envVars
<1>12. CASE CreateGlobalPodSpecFile
  <2>1. UNCHANGED <<pod, claim, left, cur, phase>> /\ stage' \in {"claims", "reply"}
        /\ op' \in {"prepare", "rollback"} /\ (todo' = todo \/ todo' = ClaimsOf[pod])
        /\ stage = "claims" /\ op = "prepare"
    BY <1>12 DEF CreateGlobalPodSpecFile, Rollback, claimVars, envVars
  <2> QED
    BY <2>1 DEF TypeOK
<1>13. CASE CleanDeviceInfoFiles
  BY <1>6, <1>13 DEF CleanDeviceInfoFiles, TypeOK, envVars
<1>14. CASE DevicesUndone \/ DeleteSpecFiles \/ DeleteClaim
  BY <1>14 DEF DevicesUndone, DeleteSpecFiles, DeleteClaim, NextClaim, TypeOK, envVars
<1>15. CASE UnprepareDone
  BY <1>15 DEF UnprepareDone, TypeOK, claimVars, envVars
<1>16. CASE Reply \/ CrashRestart \/ Reboot
  BY <1>16 DEF Reply, CrashRestart, Reboot, Restart, Idle
<1>17. ASSUME NEW p \in Pods, UpdatePreparedDeviceNetworkData(p) PROVE StableCall'
  BY <1>17 DEF UpdatePreparedDeviceNetworkData, callVars, claimVars, envVars
<1>18. CASE UNCHANGED vars
  BY <1>18 DEF vars, callVars, claimVars, envVars
<1> HIDE DEF StableInv, StableCall
<1> QED
  BY <1>1, <1>2, <1>3, <1>4, <1>5, <1>7, <1>8, <1>9, <1>10, <1>11, <1>12, <1>13, <1>14, <1>15,
     <1>16, <1>17, <1>18 DEF Next, DriverStep, KubeletStep

\* A record never gets a claim or a device it was not allocated.
LEMMA StableRecordsStep ==
  ASSUME StableInv, [Next]_vars
  PROVE  StableRecords'
<1> USE SentinelAssumption, AllocationAssumption
<1> DEFINE Allocated(rs) ==
              \A r \in rs : r.claim \in ClaimsOf[r.pod] /\ r.dev \in Results[r.claim]
<1>1. Allocated(mem) /\ Allocated(ckpt) /\ Allocated(cur) /\ \A r \in cur : r.claim = claim
  BY DEF StableInv, StableRecords
<1>2. ASSUME Allocated(mem'), Allocated(cur'), \A r \in cur' : r.claim = claim',
             ckpt' = ckpt \/ ckpt' = mem'
      PROVE  StableRecords'
  BY <1>1, <1>2 DEF StableRecords
<1>3. ASSUME mem' = mem \/ mem' = ckpt \/ \E q : mem' = mem \ Forgotten(q),
             ckpt' = ckpt \/ ckpt' = mem',
             cur' = {} \/ (cur' = cur /\ claim' = claim)
      PROVE  StableRecords'
  <2>1. Allocated(mem')
    BY <1>1, <1>3
  <2>2. Allocated(cur') /\ \A r \in cur' : r.claim = claim'
    BY <1>1, <1>3
  <2> HIDE DEF Allocated
  <2> QED
    BY <1>2, <1>3, <2>1, <2>2
<1> HIDE DEF Allocated
<1>4. ASSUME NEW p \in Pods, PrepareResourceClaims(p) \/ UnprepareResourceClaims(p) \/ Admit(p)
             \/ Terminate(p)
      PROVE  StableRecords'
  BY <1>3, <1>4 DEF PrepareResourceClaims, UnprepareResourceClaims, Admit, Terminate, claimVars,
     recVars
<1>5. ASSUME NEW c \in Claims, PrepareResourceClaim(c) PROVE StableRecords'
  BY <1>3, <1>5 DEF PrepareResourceClaim, recVars
<1>6. ASSUME NEW c \in Claims, UnprepareResourceClaim(c) PROVE StableRecords'
  <2>1. CASE UNCHANGED <<claim, cur>>
    BY <1>3, <1>6, <2>1 DEF UnprepareResourceClaim, recVars
  <2>2. CASE claim' = c /\ cur' \in GetByClaim(c)
    <3>1. PICK q : cur' = Get(q, c)
      BY <2>2 DEF GetByClaim
    <3>2. Allocated(cur') /\ \A r \in cur' : r.claim = claim'
      BY <1>1, <2>2, <3>1 DEF Get, Allocated
    <3> QED
      BY <1>1, <1>2, <1>6, <3>2 DEF UnprepareResourceClaim, recVars
  <2> QED
    BY <1>6, <2>1, <2>2 DEF UnprepareResourceClaim
<1>7. ASSUME NEW d \in Devices, ApplyConfigOnDevice(d) PROVE StableRecords'
  <2>1. stage = "devices" /\ d \in left /\ UNCHANGED <<pod, claim, mem, ckpt>>
    BY <1>7 DEF ApplyConfigOnDevice, callVars, recVars
  <2>2. claim \in ClaimsOf[pod] /\ d \in Results[claim]
    BY <2>1 DEF StableInv, TypeOK, StableCall
  <2>3. PICK x : cur' = cur \cup {x} /\ x.pod = pod /\ x.claim = claim /\ x.dev = d
    <3>1. PICK i, info : cur' = cur \cup {Prepared(d, i, info)}
      BY <1>7 DEF ApplyConfigOnDevice
    <3>2. /\ Prepared(d, i, info).pod = pod /\ Prepared(d, i, info).claim = claim
          /\ Prepared(d, i, info).dev = d
      BY DEF Prepared
    <3> QED
      BY <3>1, <3>2
  <2>4. Allocated(cur') /\ \A r \in cur' : r.claim = claim'
    BY <1>1, <2>1, <2>2, <2>3 DEF Allocated
  <2> QED
    BY <1>1, <1>2, <2>1, <2>4
<1>8. ASSUME NEW d \in Devices, ApplyConfigOnDeviceFails(d) \/ RestoreDeviceDriver(d)
      PROVE  StableRecords'
  BY <1>3, <1>8 DEF ApplyConfigOnDeviceFails, RestoreDeviceDriver, Undo, recVars
<1>9. CASE NoPreparedDevices \/ SyncDeviceInfoFiles \/ CreateClaimSpecFile
  BY <1>3, <1>9 DEF NoPreparedDevices, SyncDeviceInfoFiles, CreateClaimSpecFile, NextClaim, Undo,
     recVars
<1>10. CASE SetClaim
  <2>1. /\ mem' = (mem \ Get(pod, claim)) \cup cur /\ (ckpt' = mem' \/ ckpt' = ckpt)
        /\ cur' = {} \/ (cur' = cur /\ claim' = claim)
    BY <1>10 DEF SetClaim, SyncToCheckpoint, NextClaim, Undo
  <2>2. Allocated(mem') /\ Allocated(cur') /\ \A r \in cur' : r.claim = claim'
    BY <1>1, <2>1 DEF Allocated
  <2> QED
    BY <1>2, <2>1, <2>2
<1>11. CASE CreateGlobalPodSpecFile \/ UnprepareDone
  BY <1>3, <1>11 DEF CreateGlobalPodSpecFile, UnprepareDone, claimVars, recVars
<1>12. CASE CleanDeviceInfoFiles \/ DevicesUndone \/ DeleteSpecFiles
  BY <1>3, <1>12 DEF CleanDeviceInfoFiles, DevicesUndone, DeleteSpecFiles, NextClaim, recVars
<1>13. CASE DeleteClaim
  BY <1>3, <1>13 DEF DeleteClaim, SyncToCheckpoint, NextClaim
<1>14. CASE Reply
  BY <1>3, <1>14 DEF Reply, Idle, recVars
<1>15. CASE CrashRestart \/ Reboot
  BY <1>3, <1>15 DEF CrashRestart, Reboot, Restart, Idle
<1>16. ASSUME NEW p \in Pods, UpdatePreparedDeviceNetworkData(p) PROVE StableRecords'
  BY <1>3, <1>16 DEF UpdatePreparedDeviceNetworkData, SyncToCheckpoint, claimVars
<1>17. CASE UNCHANGED vars
  BY <1>3, <1>17 DEF vars, claimVars, recVars
<1> QED
  BY <1>4, <1>5, <1>6, <1>7, <1>8, <1>9, <1>10, <1>11, <1>12, <1>13, <1>14, <1>15, <1>16, <1>17
  DEF Next, DriverStep, KubeletStep

\* Whatever fails, crashes or reboots: a call keeps to the claims of its pod.
THEOREM StableInvCorrect == Spec => []StableInv
<1>1. Init => Exclusive /\ StableCall /\ StableRecords
  BY DEF Init, Exclusive, StableCall, StableRecords, Live
<1>2. TypeOK /\ Exclusive /\ StableCall /\ StableRecords /\ [Next]_vars =>
         (Exclusive /\ StableCall /\ StableRecords)'
  BY ExclusiveStep, StableCallStep, StableRecordsStep DEF StableInv
<1>3. TypeOK /\ Exclusive /\ StableCall /\ StableRecords => StableInv
  BY DEF StableInv
<1> QED
  BY <1>1, <1>2, <1>3, TypeCorrect, PTL DEF Spec

\* The device a call binds or restores is of no pod that runs, when no running
\* pod is prepared again.
LEMMA DeviceAtHandNotInUse ==
  ASSUME PreparedOnce, StableInv, claim # NoClaim, NEW d \in left
  PROVE  ~InUse(d)
<1> SUFFICES ASSUME NEW p \in Pods, phase[p] = "running", d \in DevicesOf(p) PROVE FALSE
  BY DEF InUse
<1>1. /\ stage # "idle" /\ op \in {"prepare", "rollback", "unprepare"}
      /\ claim \in ClaimsOf[pod] /\ d \in Results[claim]
  BY DEF StableInv, TypeOK, StableCall
<1>2. pod \in Pods /\ Live(pod)
  BY <1>1, StablePod
<1>3. phase[pod] # "running"
  BY <1>1 DEF StableInv, StableCall, PreparedOnce
<1>4. PICK e \in ClaimsOf[p] : d \in Results[e]
  BY DEF DevicesOf
<1>5. Live(p) /\ p # pod
  BY <1>3 DEF Live
<1> QED
  BY <1>1, <1>2, <1>4, <1>5 DEF StableInv, Exclusive

\* When no running pod is prepared again, nothing changes the driver of a
\* device under its containers: no failure, rollback, lost checkpoint write,
\* crash or device that is not found any more.
THEOREM DriverStableUnderFaults == ASSUME PreparedOnce PROVE Spec => DriverStableInUse
<1>1. StableInv /\ [Next]_vars =>
         [\A d \in Devices : InUse(d) /\ InUse(d)' => drv'[d] = drv[d]]_vars
  <2> SUFFICES ASSUME StableInv, Next, NEW d \in Devices, InUse(d), InUse(d)', drv'[d] # drv[d]
               PROVE  FALSE
    OBVIOUS
  <2>1. ~Reboot
    <3> SUFFICES ASSUME Reboot PROVE FALSE
      OBVIOUS
    <3>1. \A p \in Pods : phase'[p] # "running"
      BY DEF Reboot
    <3> QED
      BY <3>1 DEF InUse
  <2> QED
    BY <2>1, DriverChanges, DeviceAtHandNotInUse DEF StableInv
<1> QED
  BY <1>1, StableInvCorrect, PTL DEF Spec, DriverStableInUse

-----------------------------------------------------------------------------
(* OwnerInv: any failures but lost checkpoint writes *)

\* A record of a claim of the call's pod is a record of that pod.
LEMMA OwnerOfClaim ==
  ASSUME OwnerInv, stage # "idle", NEW c \in ClaimsOf[pod], NEW r \in mem, r.claim = c
  PROVE  r.pod = pod
<1>1. pod \in Pods /\ Live(pod)
  BY StablePod DEF OwnerInv
<1>2. r.pod \in Pods /\ Live(r.pod) /\ c \in ClaimsOf[r.pod]
  BY RecordTypes DEF OwnerInv, OwnerRecords, StableInv, StableRecords, TypeOK
<1> QED
  BY <1>1, <1>2 DEF OwnerInv, StableInv, Exclusive

\* Every step keeps OwnerRecords.
LEMMA OwnerStep ==
  ASSUME CheckpointWrites, OwnerInv, [Next]_vars
  PROVE  OwnerRecords'
<1> USE SentinelAssumption, AllocationAssumption
<1>1. /\ phase \in [Pods -> {"new", "admitted", "running", "terminating", "gone"}]
      /\ \A r \in mem : r.pod \in Pods /\ r.claim \in Claims /\ r.claim # NoClaim
      /\ stage # "idle" => pod \in Pods /\ Live(pod)
      /\ op = "none" <=> stage = "idle"
  BY RecordTypes, StablePod DEF OwnerInv, StableInv, TypeOK, StableCall
<1>2. ASSUME UNCHANGED <<mem, ckpt>>, \A p \in Pods : Live(p) => Live(p)',
             UNCHANGED cur \/ cur' = {}, cur # {} /\ cur' # {} => pod' = pod,
             stage' = "reply" => todo' = {}, op' = "rollback" => result' = "error",
             stage' \in {"clean", "restore"} => op' = "prepare" \/ undo' = "claim",
             op' = "unprepare" /\ result' = "ok" =>
                \A r \in mem : r.pod = pod' => r.claim \in todo' \/ r.claim = claim'
      PROVE  OwnerRecords'
  BY <1>1, <1>2 DEF OwnerInv, OwnerRecords
<1> USE DEF OwnerInv, OwnerRecords
<1>3. UNCHANGED phase => \A p \in Pods : Live(p) => Live(p)'
  BY DEF Live
<1>4. ASSUME NEW p \in Pods, PrepareResourceClaims(p) PROVE OwnerRecords'
  BY <1>2, <1>3, <1>4 DEF PrepareResourceClaims, MayPrepare, StableInv, StableCall, TypeOK,
     recVars
<1>5. ASSUME NEW p \in Pods, UnprepareResourceClaims(p) PROVE OwnerRecords'
  BY <1>2, <1>3, <1>5 DEF UnprepareResourceClaims, StableInv, StableCall, StableRecords, TypeOK,
     claimVars, recVars, envVars
<1>6. ASSUME NEW p \in Pods, Admit(p) \/ Terminate(p) PROVE OwnerRecords'
  <2>1. \A q \in Pods : Live(q) => Live(q)'
    BY <1>1, <1>6 DEF Admit, Terminate, Live
  <2> QED
    BY <1>2, <1>6, <2>1 DEF Admit, Terminate, callVars, claimVars, recVars
<1>7. ASSUME NEW c \in Claims, PrepareResourceClaim(c) PROVE OwnerRecords'
  BY <1>2, <1>3, <1>7 DEF PrepareResourceClaim, recVars, envVars
<1>8. ASSUME NEW c \in Claims, UnprepareResourceClaim(c) PROVE OwnerRecords'
  <2>1. /\ UNCHANGED <<mem, ckpt, phase, op, pod, result>> /\ todo' = todo \ {c}
        /\ stage = "claims" /\ c \in ClaimsOf[pod] /\ claim = NoClaim /\ cur = {}
    BY <1>8 DEF UnprepareResourceClaim, UnknownClaim, StableInv, StableCall, TypeOK, recVars,
       envVars
  <2>2. CASE GetByClaim(c) = {} /\ UNCHANGED <<stage, claim, cur>>
    <3>1. PodsWithClaim(c) = {}
      BY <2>2 DEF GetByClaim
    <3>2. \A r \in mem : r.claim # c
      <4> SUFFICES ASSUME NEW r \in mem, r.claim = c PROVE FALSE
        OBVIOUS
      <4>1. r.pod \in PodsWithClaim(c)
        BY DEF PodsWithClaim
      <4> QED
        BY <3>1, <4>1
    <3> QED
      BY <1>1, <1>2, <1>3, <2>1, <2>2, <3>2
  <2>3. CASE \E rs \in GetByClaim(c) :
                stage' = "clean" /\ claim' = c /\ cur' = rs /\ undo' = "claim"
    <3>1. PICK q \in PodsWithClaim(c) : cur' = Get(q, c)
      BY <2>3 DEF GetByClaim
    <3>2. q = pod
      BY <2>1, <3>1, OwnerOfClaim DEF PodsWithClaim
    <3>3. \A r \in cur' : r.pod = pod
      BY <3>1, <3>2 DEF Get
    <3> QED
      BY <1>1, <1>3, <2>1, <2>3, <3>3
  <2> QED
    BY <1>8, <2>2, <2>3 DEF UnprepareResourceClaim
<1>9. ASSUME NEW d \in Devices, ApplyConfigOnDevice(d) PROVE OwnerRecords'
  <2>1. PICK x : cur' = cur \cup {x} /\ x.pod = pod
    <3>1. PICK i, info : cur' = cur \cup {Prepared(d, i, info)}
      BY <1>9 DEF ApplyConfigOnDevice
    <3>2. Prepared(d, i, info).pod = pod
      BY DEF Prepared
    <3> QED
      BY <3>1, <3>2
  <2> QED
    BY <1>1, <1>3, <1>9, <2>1 DEF ApplyConfigOnDevice, callVars, recVars, envVars
<1>10. ASSUME NEW d \in Devices, ApplyConfigOnDeviceFails(d) PROVE OwnerRecords'
  BY <1>2, <1>3, <1>10 DEF ApplyConfigOnDeviceFails, Undo, StableInv, StableCall, recVars,
     envVars
<1>11. ASSUME NEW d \in Devices, RestoreDeviceDriver(d) PROVE OwnerRecords'
  BY <1>2, <1>3, <1>11 DEF RestoreDeviceDriver, callVars, recVars, envVars
<1>12. CASE NoPreparedDevices
  BY <1>2, <1>3, <1>12 DEF NoPreparedDevices, NextClaim, recVars, envVars
<1>13. CASE SyncDeviceInfoFiles \/ CreateClaimSpecFile
  BY <1>2, <1>3, <1>13 DEF SyncDeviceInfoFiles, CreateClaimSpecFile, Undo, StableInv,
     StableCall, recVars, envVars
<1>14. CASE SetClaim
  <2>1. /\ mem' = (mem \ Get(pod, claim)) \cup cur /\ ckpt' = mem' /\ stage' = "claims"
        /\ cur' = {} /\ UNCHANGED <<op, pod, todo, result, phase>> /\ stage = "record"
    BY <1>14 DEF SetClaim, SyncToCheckpoint, NextClaim, CheckpointWrites, Fault, envVars
  <2>2. op = "prepare"
    BY <2>1 DEF StableInv, StableCall
  <2> QED
    BY <1>1, <1>3, <2>1, <2>2 DEF Live
<1>15. CASE CreateGlobalPodSpecFile
  BY <1>2, <1>3, <1>15 DEF CreateGlobalPodSpecFile, Rollback, claimVars, recVars, envVars
<1>16. CASE CleanDeviceInfoFiles
  BY <1>2, <1>3, <1>16 DEF CleanDeviceInfoFiles, recVars, envVars
<1>17. CASE DevicesUndone
  <2>1. op = "prepare"
    BY <1>17 DEF DevicesUndone
  <2> QED
    BY <1>2, <1>3, <1>17, <2>1 DEF DevicesUndone, NextClaim, recVars, envVars
<1>18. CASE DeleteSpecFiles
  BY <1>1, <1>2, <1>3, <1>18 DEF DeleteSpecFiles, NextClaim, StableInv, TypeOK, recVars, envVars
<1>19. CASE DeleteClaim
  <2>1. /\ ckpt' = mem' /\ stage' = "claims" /\ cur' = {} /\ claim' = NoClaim
        /\ UNCHANGED <<op, pod, todo, result, phase>> /\ stage = "forget"
    BY <1>19 DEF DeleteClaim, SyncToCheckpoint, NextClaim, CheckpointWrites, Fault, envVars
  <2>2. claim \in ClaimsOf[pod]
    BY <2>1 DEF StableInv, StableCall, TypeOK
  <2>3. PICK q \in PodsWithClaim(claim) : mem' = mem \ GetDevicesByPodUID(q)
    BY <1>19 DEF DeleteClaim, Forgotten
  <2>4. q = pod
    BY <2>1, <2>2, <2>3, OwnerOfClaim DEF PodsWithClaim
  <2>5. mem' = {r \in mem : r.pod # pod}
    BY <2>3, <2>4 DEF GetDevicesByPodUID
  <2> QED
    BY <1>1, <1>3, <2>1, <2>5
<1>20. CASE UnprepareDone
  BY <1>2, <1>3, <1>20 DEF UnprepareDone, claimVars, recVars, envVars
<1>21. CASE Reply
  <2>1. /\ stage = "reply" /\ todo = {} /\ claim = NoClaim /\ pod \in Pods /\ Live(pod)
    BY <1>1, <1>21 DEF Reply, StableInv, TypeOK
  <2>2. /\ stage' = "idle" /\ op' = "none" /\ cur' = {} /\ UNCHANGED <<mem, ckpt>>
    BY <1>21 DEF Reply, Idle, recVars
  <2>3. ASSUME NEW r \in mem PROVE Live(r.pod)'
    <3>1. CASE r.pod # pod
      BY <1>1, <1>21, <2>1, <3>1 DEF Reply, Live
    <3>2. CASE r.pod = pod
      <4>1. ~(op = "unprepare" /\ result = "ok")
        BY <1>1, <2>1, <3>2
      <4>2. op \in {"prepare", "rollback", "unprepare"} /\ result \in {"ok", "error"}
        BY <1>1, <2>1 DEF StableInv, TypeOK
      <4>3. phase' = phase \/ phase' = [phase EXCEPT ![pod] = "running"]
        BY <1>1, <1>21, <2>1, <4>1, <4>2 DEF Reply
      <4> QED
        BY <1>1, <2>1, <3>2, <4>3 DEF Live
    <3> QED
      BY <3>1, <3>2
  <2> QED
    BY <2>2, <2>3
<1>22. CASE CrashRestart \/ Reboot
  <2>1. mem' = mem /\ ckpt' = ckpt /\ stage' = "idle" /\ op' = "none" /\ cur' = {}
    BY <1>22 DEF CrashRestart, Reboot, Restart, Idle
  <2>2. \A p \in Pods : Live(p) => Live(p)'
    BY <1>1, <1>22 DEF CrashRestart, Reboot, Live
  <2> QED
    BY <1>1, <2>1, <2>2
<1>23. ASSUME NEW p \in Pods, UpdatePreparedDeviceNetworkData(p) PROVE OwnerRecords'
  BY <1>2, <1>3, <1>23 DEF UpdatePreparedDeviceNetworkData, SyncToCheckpoint, callVars, claimVars,
     envVars
<1>24. CASE UNCHANGED vars
  BY <1>2, <1>3, <1>24 DEF vars, callVars, claimVars, recVars, envVars
<1> HIDE DEF OwnerInv, OwnerRecords
<1> QED
  BY <1>4, <1>5, <1>6, <1>7, <1>8, <1>9, <1>10, <1>11, <1>12, <1>13, <1>14, <1>15, <1>16, <1>17,
     <1>18, <1>19, <1>20, <1>21, <1>22, <1>23, <1>24 DEF Next, DriverStep, KubeletStep

\* While the checkpoint can be written, records belong to live pods, through
\* rollbacks, crashes and reboots.
THEOREM OwnerInvCorrect == ASSUME CheckpointWrites PROVE Spec => []OwnerInv
<1>1. Init => OwnerRecords
  BY DEF Init, OwnerRecords
<1>2. StableInv /\ OwnerRecords /\ [Next]_vars => OwnerRecords'
  BY OwnerStep DEF OwnerInv
<1>3. StableInv /\ OwnerRecords => OwnerInv
  BY DEF OwnerInv
<1> QED
  BY <1>1, <1>2, <1>3, StableInvCorrect, PTL DEF Spec

\* While the checkpoint can be written, no device is recorded for two claims, in
\* whatever order pods come and go and whatever is rolled back.
THEOREM OneOwnerCorrect == ASSUME CheckpointWrites PROVE Spec => []OneOwner
<1>1. OwnerInv => OneOwner
  <2> SUFFICES ASSUME OwnerInv, NEW r1 \in mem, NEW r2 \in mem, r1.dev = r2.dev
               PROVE  r1.pod = r2.pod /\ r1.claim = r2.claim
    BY DEF OneOwner
  <2>1. \A r \in mem : /\ r.pod \in Pods /\ Live(r.pod) /\ r.claim \in ClaimsOf[r.pod]
                       /\ r.dev \in Results[r.claim]
    BY RecordTypes DEF OwnerInv, OwnerRecords, StableInv, StableRecords, TypeOK
  <2>2. r1.pod = r2.pod
    BY <2>1 DEF OwnerInv, StableInv, Exclusive
  <2> QED
    BY <2>1, <2>2, AllocationAssumption
<1> QED
  BY <1>1, OwnerInvCorrect, PTL
=============================================================================
