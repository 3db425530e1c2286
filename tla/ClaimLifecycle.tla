--------------------------- MODULE ClaimLifecycle ---------------------------
(***************************************************************************)
(* The claim path of the DRA driver: NodePrepareResources and              *)
(* NodeUnprepareResources as pkg/driver/dra_hook.go implements them on top *)
(* of the device state manager (pkg/devicestate), the pod manager and its  *)
(* checkpoint (pkg/podmanager), the CDI spec files (pkg/cdi) and the PCI   *)
(* driver bindings of the host (pkg/host).                                 *)
(*                                                                         *)
(* The kubelet plugin helper serialises the calls, so there is one call at *)
(* a time; between two of its steps the process may crash, the node may    *)
(* reboot, the NRI plugin may rewrite the checkpoint and the kubelet may   *)
(* move pods along.  A step is the code between two writes that survive a  *)
(* crash (a sysfs write, a spec file, the checkpoint file).                *)
(*                                                                         *)
(* The kubelet fixes the order of the claims of a call and the scheduler   *)
(* the order of the results of a claim; the model takes every order.       *)
(***************************************************************************)
EXTENDS Integers, FiniteSets, DriverTargets

CONSTANTS
    Pods, Claims,
    NoPod, NoClaim,
    ClaimsOf,      \* claims of a pod, reserved for that pod alone
    Results,       \* devices of this driver allocated to a claim
    Config,        \* VfConfig.Driver that applies to a device of a claim
    AutoNamed,     \* claims whose VfConfig leaves IfName empty
    Mode,          \* the configuration mode
    Discoverable,  \* device sets that discovery may find at a start
    Faults,        \* kinds of operations that may fail
    MaxFaults, MaxCrashes, MaxReboots, MaxReprepares

NoIndex == -1

FaultKinds == {"claim", "network", "bind", "vfio", "restore", "devinfo",
               "claimSpec", "podSpec", "specDelete", "checkpoint", "reply"}

ASSUME SentinelAssumption == NoPod \notin Pods /\ NoClaim \notin Claims
ASSUME AllocationAssumption ==
    /\ ClaimsOf \in [Pods -> (SUBSET Claims) \ {{}}]
    /\ Results \in [Claims -> SUBSET Devices]
    /\ Config \in [Claims -> [Devices -> ConfigDriver]]
    /\ AutoNamed \subseteq Claims
    \* the claims of one pod are allocated disjoint devices
    /\ \A p \in Pods : \A c1, c2 \in ClaimsOf[p] :
          c1 # c2 => Results[c1] \cap Results[c2] = {}
ASSUME BoundAssumption ==
    /\ Mode \in {"STANDALONE", "MULTUS"}
    /\ Discoverable \subseteq SUBSET Devices
    /\ Faults \subseteq FaultKinds
    /\ MaxFaults \in Nat /\ MaxCrashes \in Nat
    /\ MaxReboots \in Nat /\ MaxReprepares \in Nat

VARIABLES
    drv,           \* sysfs: the driver each device is bound to
    allocatable,   \* Manager.allocatable
    mem,           \* PodManager.preparedClaimsByPodUID, flattened
    ckpt,          \* the checkpoint file
    claimSpec,     \* claims whose transient CDI spec file exists
    podSpec,       \* pod -> devices in its CDI spec file, {} is no file
    devInfo,       \* devices that have a DP device-info file
    phase,         \* the kubelet's view of each pod
    op, pod, stage, todo, result,      \* the running gRPC call
    claim, left, cur, ifNameIndex,     \* the claim it is working on
    undo, claimResult,                 \* undoing a claim
    resumed,       \* history: pods that a prepare call found partly prepared
    faults, crashes, reboots, reprepares

hostVars == <<drv, devInfo>>
recVars == <<mem, ckpt>>
specVars == <<claimSpec, podSpec>>
callVars == <<op, pod, stage, todo, result>>
claimVars == <<claim, left, cur, ifNameIndex, undo, claimResult>>
envVars == <<phase, allocatable, resumed, crashes, reboots, reprepares>>
vars == <<hostVars, recVars, specVars, callVars, claimVars, envVars, faults>>

-----------------------------------------------------------------------------
(* Data *)

PreparedDevice ==
    [pod : Pods, claim : Claims, dev : Devices, driver : ConfigDriver,
     orig : BoundDriver, ifname : Int, info : {"file", "none"}]

Stages == {"idle", "claims", "devices", "claimSpec", "record",
           "clean", "restore", "forget", "reply"}

TypeOK ==
    /\ drv \in [Devices -> BoundDriver]
    /\ allocatable \in SUBSET Devices
    /\ mem \in SUBSET PreparedDevice /\ ckpt \in SUBSET PreparedDevice
    /\ claimSpec \in SUBSET Claims
    /\ podSpec \in [Pods -> SUBSET Devices]
    /\ devInfo \in SUBSET Devices
    /\ phase \in [Pods -> {"new", "admitted", "running", "terminating", "gone"}]
    /\ op \in {"none", "prepare", "rollback", "unprepare"}
    /\ stage \in Stages
    /\ pod \in Pods \cup {NoPod} /\ (pod = NoPod <=> stage = "idle")
    /\ todo \in SUBSET Claims
    /\ result \in {"ok", "error"}
    /\ claim \in Claims \cup {NoClaim}
    /\ claim = NoClaim <=> stage \in {"idle", "claims", "reply"}
    /\ left \in SUBSET Devices
    /\ cur \in SUBSET PreparedDevice
    /\ ifNameIndex \in Nat
    /\ undo \in {"devices", "claim"} /\ claimResult \in {"ok", "error"}
    /\ resumed \in SUBSET Pods
    /\ faults \in Nat /\ crashes \in Nat /\ reboots \in Nat
    /\ reprepares \in Nat

\* A pod the scheduler has placed and whose claims are still reserved.
Live(p) == phase[p] \in {"admitted", "running", "terminating"}

DevicesOf(p) == UNION {Results[c] : c \in ClaimsOf[p]}

\* The lookups of the pod manager.  Mutant: a claim is never found.
NeverFound(p, c) == {}
Get(p, c) == {r \in mem : r.pod = p /\ r.claim = c}
GetDevicesByPodUID(p) == {r \in mem : r.pod = p}
PodsWithClaim(c) == {r.pod : r \in {x \in mem : x.claim = c}}

\* The answers GetByClaim may give (Go visits the pods in any order); {} is
\* "not found".  Mutant: the claim UID is not compared.
GetByClaimAnyUID(c) == {GetDevicesByPodUID(r.pod) : r \in mem}
GetByClaim(c) == {Get(q, c) : q \in PodsWithClaim(c)}

\* syncToCheckpoint writes the whole map.  Mutant: the write is skipped.
SkipSync == UNCHANGED ckpt
SyncToCheckpoint == ckpt' = mem'

\* The records DeleteClaim removes: the whole entry of the pod it finds.
\* Mutant: the entry stays.
ForgetNothing(q) == {}
Forgotten(q) == GetDevicesByPodUID(q)

\* What BindDeviceDriver binds d to when the config asks for driver w.
BindTarget(d, w) ==
    IF w = NoDriver THEN drv[d]
    ELSE IF w = DefaultDriver THEN DefaultFrom(d, drv[d]) ELSE w

\* The original driver BindDeviceDriver returns: read before any change.
\* Mutant: read after the bind.
OriginalAfterBind(d, w) == BindTarget(d, w)
OriginalDriver(d, w) == IF w = NoDriver THEN NoDriver ELSE drv[d]

\* The devices of records, those whose driver was changed, and those that have
\* a device-info file.
DevicesIn(rs) == {r.dev : r \in rs}
ToRestore(rs) == {r.dev : r \in {x \in rs : x.driver # NoDriver}}
InfoFiles(rs) == {r.dev : r \in {x \in rs : x.info = "file"}}

-----------------------------------------------------------------------------
(* Faults *)

Fault(kind) == kind \in Faults /\ faults < MaxFaults /\ faults' = faults + 1

NoFault == UNCHANGED faults

\* The loop over the claims goes on with the next one.
NextClaim ==
    /\ stage' = "claims" /\ claim' = NoClaim /\ left' = {} /\ cur' = {}
    /\ undo' = "devices" /\ claimResult' = "ok"

\* The current claim fails; the drivers of the devices prepared so far (and
\* with what = "claim" its files) are reverted before the loop goes on.
Undo(from, what) ==
    /\ stage' = from /\ undo' = what /\ claimResult' = "ok"
    /\ left' = IF from = "restore" THEN ToRestore(cur) ELSE {}
    /\ result' = "error"
    /\ UNCHANGED <<claim, cur, op, pod, todo>>

-----------------------------------------------------------------------------
(* NodePrepareResources *)

\* The kubelet prepares an admitted pod, and prepares a running one again
\* after a kubelet restart.
MayPrepare(p) ==
    /\ stage = "idle"
    /\ \/ phase[p] = "admitted" /\ UNCHANGED reprepares
       \/ /\ phase[p] = "running" /\ reprepares < MaxReprepares
          /\ reprepares' = reprepares + 1

\* Some claims of p are recorded and some are not.
PartlyPrepared(p) == \E c, e \in ClaimsOf[p] : Get(p, c) # {} /\ Get(p, e) = {}

PrepareResourceClaims(p) ==
    /\ MayPrepare(p)
    /\ resumed' = IF PartlyPrepared(p) THEN resumed \cup {p} ELSE resumed
    /\ op' = "prepare" /\ pod' = p /\ ifNameIndex' = 0
    /\ UNCHANGED <<claim, left, cur, undo, claimResult, hostVars, recVars,
                   specVars, phase, allocatable, crashes, reboots>>
    /\ \/ /\ stage' = "claims" /\ todo' = ClaimsOf[p] /\ result' = "ok"
          /\ NoFault
       \* no claim names a pod: nothing is prepared and the call fails
       \/ /\ Fault("claim")
          /\ stage' = "reply" /\ todo' = {} /\ result' = "error"

\* Mutant: a claim that is already prepared is an error.
PreparedTwice == result' = "error"
AlreadyPrepared == UNCHANGED result

\* The claims of a call share its interface index.  Mutant: each has its own.
IndexPerClaim == ifNameIndex' = 0
SharedIndex == UNCHANGED ifNameIndex

PrepareResourceClaim(c) ==
    /\ stage = "claims" /\ op = "prepare" /\ c \in todo
    /\ todo' = todo \ {c} /\ SharedIndex
    /\ UNCHANGED <<op, pod, undo, claimResult, hostVars, recVars, specVars,
                   envVars>>
    /\ \/ \* reserved for several pods, not allocated or an undecodable config
          /\ Fault("claim") /\ result' = "error"
          /\ UNCHANGED <<stage, claim, left, cur>>
       \/ \* already prepared: the recorded devices are the answer
          /\ Get(pod, c) # {} /\ NoFault /\ AlreadyPrepared
          /\ UNCHANGED <<stage, claim, left, cur>>
       \/ /\ Get(pod, c) = {} /\ NoFault
          /\ stage' = "devices" /\ claim' = c /\ left' = Results[c] /\ cur' = {}
          /\ UNCHANGED result

\* The record of a prepared device.
Prepared(d, index, info) ==
    [pod |-> pod, claim |-> claim, dev |-> d, driver |-> Config[claim][d],
     orig |-> OriginalDriver(d, Config[claim][d]), ifname |-> index,
     info |-> info]

\* The interface index a device takes: only STANDALONE mode names interfaces.
TakesIndex == Mode = "STANDALONE" /\ claim \in AutoNamed

\* Mutant: it is bumped down.
PreviousIndex == ifNameIndex - 1
NextIndex == IF TakesIndex THEN ifNameIndex + 1 ELSE ifNameIndex

ApplyConfigOnDevice(d) ==
    /\ stage = "devices" /\ d \in left
    /\ d \in allocatable
    /\ \E info \in (IF Mode = "MULTUS" THEN {"file", "none"} ELSE {"none"}) :
          cur' = cur \cup {Prepared(d, IF TakesIndex THEN ifNameIndex ELSE NoIndex,
                                    info)}
    /\ ifNameIndex' = NextIndex
    /\ drv' = [drv EXCEPT ![d] = BindTarget(d, Config[claim][d])]
    /\ left' = left \ {d}
    /\ NoFault
    /\ UNCHANGED <<callVars, claim, undo, claimResult, devInfo, recVars, specVars,
                   envVars>>

\* What a failing applyConfigOnDevice leaves d bound to.
FailedApply(d) ==
    LET w == Config[claim][d]
        b == BindTarget(d, w)
        r == RestoreTarget(d, OriginalDriver(d, w), b)
    IN \/ d \notin allocatable /\ NoFault /\ UNCHANGED drv
       \/ Mode = "STANDALONE" /\ Fault("network") /\ UNCHANGED drv
       \/ \* BindDeviceDriver fails and nothing is restored
          /\ w # NoDriver /\ Fault("bind")
          /\ \E x \in FailedBind(drv[d], b) : drv' = [drv EXCEPT ![d] = x]
       \/ \* the device files fail after the bind: restoreDriverOnError
          /\ Fault("vfio")
          /\ IF w = NoDriver
               THEN UNCHANGED drv
               ELSE \E x \in (IF "restore" \in Faults THEN FailedBind(b, r) ELSE {})
                               \cup {r} : drv' = [drv EXCEPT ![d] = x]

ApplyConfigOnDeviceFails(d) ==
    /\ stage = "devices" /\ d \in left
    /\ FailedApply(d)
    /\ Undo("restore", "devices")
    /\ UNCHANGED <<ifNameIndex, devInfo, recVars, specVars, envVars>>

NoPreparedDevices ==
    /\ stage = "devices" /\ left = {} /\ cur = {}
    /\ NextClaim /\ result' = "error" /\ NoFault
    /\ UNCHANGED <<op, pod, todo, ifNameIndex, hostVars, recVars, specVars, envVars>>

\* Every eligible device-info file is cleaned and saved again; the files that
\* fail are left out, or left as they were.
SyncDeviceInfoFiles ==
    /\ stage = "devices" /\ left = {} /\ cur # {}
    /\ UNCHANGED <<drv, ifNameIndex, recVars, specVars, envVars>>
    /\ \/ /\ devInfo' = devInfo \cup InfoFiles(cur)
          /\ stage' = "claimSpec" /\ NoFault
          /\ UNCHANGED <<op, pod, todo, result, claim, left, cur, undo,
                         claimResult>>
       \/ /\ InfoFiles(cur) # {} /\ Fault("devinfo")
          /\ \E saved \in SUBSET InfoFiles(cur) :
                devInfo' = (devInfo \ InfoFiles(cur)) \cup saved
          /\ Undo("clean", "devices")

CreateClaimSpecFile ==
    /\ stage = "claimSpec"
    /\ UNCHANGED <<hostVars, podSpec, ifNameIndex, recVars, envVars>>
    /\ \/ /\ claimSpec' = claimSpec \cup {claim}
          /\ stage' = "record" /\ NoFault
          /\ UNCHANGED <<op, pod, todo, result, claim, left, cur, undo,
                         claimResult>>
       \/ /\ Fault("claimSpec") /\ UNCHANGED claimSpec
          /\ Undo("clean", "devices")

\* PodManager.Set: the map is changed before the checkpoint is written, and
\* stays changed when the write fails.
SetClaim ==
    /\ stage = "record"
    /\ mem' = (mem \ Get(pod, claim)) \cup cur
    /\ UNCHANGED <<hostVars, specVars, ifNameIndex, envVars>>
    /\ \/ /\ SyncToCheckpoint /\ NoFault
          /\ NextClaim /\ UNCHANGED <<op, pod, todo, result>>
       \/ /\ Fault("checkpoint") /\ UNCHANGED ckpt
          /\ Undo("clean", "claim")

\* rollbackPreparedClaims: every claim of the call is unprepared.
\* Mutant: the error that caused it is lost.
RollbackQuietly ==
    /\ op' = "rollback" /\ todo' = ClaimsOf[pod]
    /\ UNCHANGED <<stage, podSpec, result>>
Rollback ==
    /\ op' = "rollback" /\ todo' = ClaimsOf[pod] /\ result' = "error"
    /\ UNCHANGED <<stage, podSpec>>

\* The end of PrepareResourceClaims.
CreateGlobalPodSpecFile ==
    LET rs == GetDevicesByPodUID(pod)
        devs == DevicesIn(rs)
    IN /\ stage = "claims" /\ op = "prepare" /\ todo = {}
       /\ UNCHANGED <<pod, claimVars, hostVars, recVars, claimSpec, envVars>>
       /\ \/ /\ rs = {} /\ NoFault
             /\ stage' = "reply" /\ result' = "error"
             /\ UNCHANGED <<op, todo, podSpec>>
          \/ /\ ~(devs \subseteq allocatable) /\ NoFault
             /\ Rollback
          \/ /\ rs # {} /\ devs \subseteq allocatable /\ NoFault
             /\ podSpec' = [podSpec EXCEPT ![pod] = devs]
             /\ stage' = "reply" /\ UNCHANGED <<op, todo, result>>
          \/ /\ rs # {} /\ devs \subseteq allocatable /\ Fault("podSpec")
             /\ Rollback

-----------------------------------------------------------------------------
(* NodeUnprepareResources, and the undo path of a failed prepare *)

UnprepareResourceClaims(p) ==
    /\ stage = "idle" /\ phase[p] = "terminating"
    /\ op' = "unprepare" /\ pod' = p /\ stage' = "claims"
    /\ todo' = ClaimsOf[p] /\ result' = "ok"
    /\ UNCHANGED <<claimVars, hostVars, recVars, specVars, envVars, faults>>

\* A claim no pod holds needs nothing.  Mutant: it is an error.
UnknownFails == result' = "error"
UnknownClaim == UNCHANGED result

UnprepareResourceClaim(c) ==
    /\ stage = "claims" /\ op \in {"unprepare", "rollback"} /\ c \in todo
    /\ todo' = todo \ {c}
    /\ UNCHANGED <<op, pod, ifNameIndex, hostVars, recVars, specVars,
                   envVars, faults>>
    /\ \/ /\ GetByClaim(c) = {} /\ UnknownClaim
          /\ UNCHANGED <<stage, claim, left, cur, undo, claimResult>>
       \/ \E rs \in GetByClaim(c) :
             /\ stage' = "clean" /\ claim' = c /\ cur' = rs
             /\ left' = {} /\ undo' = "claim" /\ claimResult' = "ok"
             /\ UNCHANGED result

CleanDeviceInfoFiles ==
    /\ stage = "clean"
    /\ stage' = "restore"
    /\ left' = ToRestore(cur)
    /\ UNCHANGED <<op, pod, todo, result, claim, cur, undo, ifNameIndex, drv,
                   recVars, specVars, envVars>>
    /\ \/ /\ devInfo' = devInfo \ InfoFiles(cur)
          /\ NoFault /\ UNCHANGED claimResult
       \/ /\ InfoFiles(cur) # {} /\ Fault("devinfo")
          /\ \E kept \in SUBSET InfoFiles(cur) :
                devInfo' = devInfo \ (InfoFiles(cur) \ kept)
          /\ claimResult' = "error"

\* unprepareDevices stops at the first device it cannot restore.
RestoreDeviceDriver(d) ==
    /\ stage = "restore" /\ d \in left
    /\ UNCHANGED <<callVars, claim, cur, undo, ifNameIndex, devInfo, recVars,
                   specVars, envVars>>
    /\ \E r \in cur :
          /\ r.dev = d
          /\ \/ /\ drv' = [drv EXCEPT ![d] = RestoreTarget(d, r.orig, drv[d])]
                /\ left' = left \ {d} /\ NoFault /\ UNCHANGED claimResult
             \/ /\ Fault("restore")
                /\ \E x \in FailedBind(drv[d], RestoreTarget(d, r.orig, drv[d])) :
                      drv' = [drv EXCEPT ![d] = x]
                /\ left' = {} /\ claimResult' = "error"

DevicesUndone ==
    /\ stage = "restore" /\ left = {} /\ undo = "devices"
    /\ NextClaim
    /\ UNCHANGED <<op, pod, todo, result, ifNameIndex, hostVars, recVars,
                   specVars, envVars, faults>>

\* The claim's spec file, then the spec file of the pod the records name.
\* Only an unprepare without errors goes on to forget the claim.
DeleteSpecFiles ==
    /\ stage = "restore" /\ left = {} /\ undo = "claim"
    /\ UNCHANGED <<op, pod, todo, ifNameIndex, hostVars, recVars, envVars>>
    /\ \E keepClaim, keepPod \in BOOLEAN :
          /\ claimSpec' = IF keepClaim THEN claimSpec ELSE claimSpec \ {claim}
          /\ podSpec' = [p \in Pods |->
                IF ~keepPod /\ \E r \in cur : r.pod = p THEN {} ELSE podSpec[p]]
          /\ IF keepClaim \/ keepPod THEN Fault("specDelete") ELSE NoFault
          /\ IF op = "prepare" \/ claimResult = "error" \/ keepClaim \/ keepPod
               THEN NextClaim /\ result' = "error"
               ELSE /\ stage' = "forget"
                    /\ UNCHANGED <<result, claim, left, cur, undo,
                         claimResult>>

\* PodManager.DeleteClaim removes the whole entry of the pod it finds.
DeleteClaim ==
    /\ stage = "forget"
    /\ \E q \in PodsWithClaim(claim) : mem' = mem \ Forgotten(q)
    /\ \/ SyncToCheckpoint /\ NoFault /\ UNCHANGED result
       \/ Fault("checkpoint") /\ result' = "error" /\ UNCHANGED ckpt
    /\ NextClaim
    /\ UNCHANGED <<op, pod, todo, ifNameIndex, hostVars, specVars, envVars>>

UnprepareDone ==
    /\ stage = "claims" /\ op \in {"unprepare", "rollback"} /\ todo = {}
    /\ stage' = "reply"
    /\ UNCHANGED <<op, pod, todo, result, claimVars, hostVars, recVars, specVars,
                   envVars, faults>>

-----------------------------------------------------------------------------
(* The kubelet, the NRI plugin, crashes and reboots *)

Idle ==
    /\ op' = "none" /\ pod' = NoPod /\ stage' = "idle" /\ todo' = {}
    /\ result' = "ok" /\ ifNameIndex' = 0
    /\ claim' = NoClaim /\ left' = {} /\ cur' = {}
    /\ undo' = "devices" /\ claimResult' = "ok"

\* The answer reaches the kubelet, or its gRPC deadline has passed.
Reply ==
    /\ stage = "reply"
    /\ Idle
    /\ UNCHANGED <<hostVars, recVars, specVars, allocatable, resumed, crashes,
                   reboots, reprepares>>
    /\ \/ /\ phase' = [phase EXCEPT ![pod] =
                         IF result = "error" THEN @
                         ELSE IF op = "unprepare" THEN "gone" ELSE "running"]
          /\ NoFault
       \/ Fault("reply") /\ UNCHANGED phase

\* The scheduler never gives a claim or a device to two live pods.
Admit(p) ==
    /\ phase[p] = "new"
    /\ \A q \in Pods : Live(q) =>
          /\ ClaimsOf[p] \cap ClaimsOf[q] = {}
          /\ DevicesOf(p) \cap DevicesOf(q) = {}
    /\ phase' = [phase EXCEPT ![p] = "admitted"]
    /\ UNCHANGED <<hostVars, recVars, specVars, callVars, claimVars, allocatable,
                   resumed, crashes, reboots, reprepares, faults>>

\* The pod worker of the kubelet ends a pod only between two of its calls.
Terminate(p) ==
    /\ phase[p] \in {"admitted", "running"} /\ pod # p
    /\ phase' = [phase EXCEPT ![p] = "terminating"]
    /\ UNCHANGED <<hostVars, recVars, specVars, callVars, claimVars, allocatable,
                   resumed, crashes, reboots, reprepares, faults>>

\* The NRI plugin stores network data of a started pod: the whole map is
\* written to the checkpoint.
UpdatePreparedDeviceNetworkData(p) ==
    /\ phase[p] = "running" /\ GetDevicesByPodUID(p) # {}
    /\ UNCHANGED mem /\ SyncToCheckpoint
    /\ UNCHANGED <<hostVars, specVars, callVars, claimVars, envVars, faults>>

\* NewPodManager reads the checkpoint back; discovery runs again.
Restart ==
    /\ mem' = ckpt /\ UNCHANGED ckpt
    /\ allocatable' \in Discoverable
    /\ Idle

CrashRestart ==
    /\ crashes < MaxCrashes /\ crashes' = crashes + 1
    /\ Restart
    /\ UNCHANGED <<hostVars, specVars, phase, resumed, reboots, reprepares, faults>>

\* The CDI and device-info directories are on tmpfs; the kubelet starts the
\* containers of the running pods anew.
Reboot ==
    /\ reboots < MaxReboots /\ reboots' = reboots + 1
    /\ Restart
    /\ drv' = HostDriver /\ devInfo' = {}
    /\ claimSpec' = {} /\ podSpec' = [p \in Pods |-> {}]
    /\ phase' = [p \in Pods |-> IF phase[p] = "running" THEN "admitted" ELSE phase[p]]
    /\ UNCHANGED <<resumed, crashes, reprepares, faults>>

-----------------------------------------------------------------------------

Init ==
    /\ drv = HostDriver /\ devInfo = {}
    /\ allocatable \in Discoverable
    /\ mem = {} /\ ckpt = {} /\ claimSpec = {}
    /\ podSpec = [p \in Pods |-> {}]
    /\ phase = [p \in Pods |-> "new"]
    /\ op = "none" /\ pod = NoPod /\ stage = "idle" /\ todo = {} /\ result = "ok"
    /\ claim = NoClaim /\ left = {} /\ cur = {} /\ ifNameIndex = 0
    /\ undo = "devices" /\ claimResult = "ok" /\ resumed = {}
    /\ faults = 0 /\ crashes = 0 /\ reboots = 0 /\ reprepares = 0

\* The steps the driver takes by itself once a call is running.
DriverStep ==
    \/ \E c \in Claims : PrepareResourceClaim(c) \/ UnprepareResourceClaim(c)
    \/ \E d \in Devices : \/ ApplyConfigOnDevice(d)
                          \/ ApplyConfigOnDeviceFails(d)
                          \/ RestoreDeviceDriver(d)
    \/ NoPreparedDevices \/ SyncDeviceInfoFiles \/ CreateClaimSpecFile
    \/ SetClaim \/ CreateGlobalPodSpecFile
    \/ CleanDeviceInfoFiles \/ DevicesUndone \/ DeleteSpecFiles
    \/ DeleteClaim \/ UnprepareDone \/ Reply

KubeletStep ==
    \E p \in Pods : \/ PrepareResourceClaims(p) \/ UnprepareResourceClaims(p)
                    \/ Admit(p) \/ Terminate(p)

Next ==
    \/ DriverStep
    \/ KubeletStep
    \/ \E p \in Pods : UpdatePreparedDeviceNetworkData(p)
    \/ CrashRestart
    \/ Reboot

Spec == Init /\ [][Next]_vars

\* A handler that runs goes on running, and the kubelet repeats a call until
\* it succeeds; the helper's lock lets every caller in.
Fairness ==
    /\ WF_vars(DriverStep)
    /\ \A p \in Pods : /\ SF_vars(PrepareResourceClaims(p))
                       /\ SF_vars(UnprepareResourceClaims(p))

FairSpec == Spec /\ Fairness

-----------------------------------------------------------------------------
(* Properties *)

\* Whenever the kubelet runs the containers of a pod, every claim of the pod is
\* recorded with all its devices and has its CDI spec file, the pod has its
\* spec file and every device is bound to the driver its config asks for: what
\* a successful NodePrepareResources promises, and what the "already prepared"
\* answer relies on after retries and crashes.
RunningIsPrepared ==
    \A p \in Pods : phase[p] = "running" =>
        /\ podSpec[p] = DevicesOf(p)
        /\ \A c \in ClaimsOf[p] :
              /\ DevicesIn(Get(p, c)) = Results[c]
              /\ c \in claimSpec
              /\ \A d \in Results[c] :
                    Config[c][d] \notin {NoDriver, DefaultDriver}
                       => drv[d] = Config[c][d]

\* No device is recorded for two claims or two pods: a restore of one would
\* pull the device from under the other.
OneOwner ==
    \A r1, r2 \in mem :
        r1.dev = r2.dev => r1.pod = r2.pod /\ r1.claim = r2.claim

\* Once the kubelet has finished with its pods, nothing of them is left: the
\* devices are back on the host's driver and no record, spec file or
\* device-info file of theirs survives.
NothingLeftBehind ==
    stage = "idle" =>
        /\ \A d \in Devices : (\A p \in Pods : Live(p) => d \notin DevicesOf(p))
              => drv[d] = HostDriver[d] /\ d \notin devInfo
        /\ \A c \in Claims : (\A p \in Pods : Live(p) => c \notin ClaimsOf[p])
              => c \notin claimSpec
        /\ \A p \in Pods : phase[p] = "gone"
              => podSpec[p] = {} /\ GetDevicesByPodUID(p) = {}

\* The original driver a record keeps is the one the host had bound, never one
\* the driver itself bound in an earlier attempt.
OriginalDriverIsHosts ==
    \A r \in mem : r.driver # NoDriver => r.orig = HostDriver[r.dev]

\* The interfaces the driver names itself are distinct within a pod, over all
\* its claims, the repeated calls and the crashes; a call that finds the pod
\* partly prepared numbers from zero again and may repeat a name.
IfNamesDistinct ==
    \A r1, r2 \in mem :
        /\ r1.pod = r2.pod /\ r1.pod \notin resumed
        /\ r1.ifname = r2.ifname /\ r1.ifname # NoIndex
        => r1.dev = r2.dev

\* The driver of a device does not change under the containers of a pod.
InUse(d) == \E p \in Pods : phase[p] = "running" /\ d \in DevicesOf(p)
DriverStableInUse ==
    [][\A d \in Devices : InUse(d) /\ InUse(d)' => drv'[d] = drv[d]]_vars

\* Every pod that is being ended is unprepared in the end, and every admitted
\* pod runs in the end unless it is ended first.
EventuallyUnprepared ==
    \A p \in Pods : phase[p] = "terminating" ~> phase[p] = "gone"
EventuallyPrepared ==
    \A p \in Pods : phase[p] = "admitted" ~> phase[p] # "admitted"
=============================================================================
