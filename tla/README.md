# A verification project for the SR-IOV DRA driver

TLA+ models of `dra-driver-sriov`, the TLC runs that check them on small instances and the
theorems TLAPS proves about them for every instance. Paths below are relative to the repository
(`pkg/...`). `PROJECT.json` holds the machine-readable index: components, runs, the map from
definitions to source lines, the mutants, the findings, the hazards and the theorems.

## 1. The system

The driver is one Go process per node. The kubelet asks it to *prepare* and *unprepare* the
ResourceClaims of a pod; the container runtime tells it when pod sandboxes start and stop; the API
server tells it which devices an administrator wants to offer.

| Component | State it keeps | Operations | What makes it correct |
|---|---|---|---|
| Claim preparation (`pkg/driver/dra_hook.go`, `pkg/devicestate/state.go`) | none of its own; a call in progress | `PrepareResourceClaims`, `UnprepareResourceClaims`, rollback | a pod only runs fully prepared; a failure is reported and undone; what ended is restored |
| Pod manager (`pkg/podmanager`) | map pod → claim → prepared devices; checkpoint file | `Set`, `Get`, `GetByClaim`, `DeleteClaim`, `UpdatePreparedDeviceNetworkData` | memory, checkpoint and host agree, also after a crash |
| CDI handler (`pkg/cdi`) | one spec file per claim and per pod | create, delete | files exist exactly while they are needed |
| Device-info files (`pkg/devicestate/deviceinfo.go`) | one file per device (MULTUS) | sync, clean | none survives its claim |
| Host (`pkg/host`) | PCI driver bindings and overrides in sysfs, kernel modules | bind, restore, probe, load modules | the driver the host had comes back, also after a failed or interrupted write |
| Resource policy controller (`pkg/controller`) | what one Reconcile has read | Reconcile, watches | what is advertised is what the objects ask for |
| Device state manager and publishing (`state.go`, `pkg/driver/driver.go`) | devices, attributes, policy keys; the ResourceSlice | `UpdatePolicyDevices`, `PublishResources` | attributes tracked; a PF is never offered with its VFs |
| Discovery (`discovery.go`) | none | `DiscoverSriovDevices` | its two passes agree about a host that changes; VLAN ranges stand for the VLANs |
| Status of a claim (`dra_hook.go`, `nri.go`) | `status.devices` of the claim object, shared with other drivers | `UpdateStatus` with retries, from the prepare call and from the runner | the last sandbox wins, nobody's entries are lost on a first attempt |
| NRI plugin and CNI (`pkg/nri`, `pkg/cni`) | bounded channel, runner goroutine | `RunPodSandbox`, `StopPodSandbox`, the runner | devices attached before the containers start, network data recorded, hooks return |
| Start, health, shutdown (`cmd`, `driver.go`, `health.go`) | contexts, servers, socket files, registration | start, register, check, stop | nobody is served before the state is there; a stop ends; the driver comes back |
| Opaque configs (`pkg/api`, `statehelpers.go`) | none | decoding, precedence | claim before class, later before earlier, every field |

How they interact: the claim path calls the device state manager, the pod manager and the CDI
handler; the controller calls the device state manager, which calls back into the driver to
publish; the NRI plugin reads the pod manager, writes its checkpoint from a goroutine and refreshes
metadata files through the driver; both the prepare call and that goroutine write the status of the
claim. `RunPlugin` starts all of them and stops them through one context.

Where it is hard:

* **crash and retry** – sysfs, spec files, checkpoint and memory are written one after the other,
  the process may die in between, and the kubelet repeats a call until it succeeds;
* **partial failure** – every call handles several claims and every claim several devices;
* **staleness** – three API reads per Reconcile, a change detection against state that was already
  stored, prepared devices referenced from a queue;
* **ordering and bounds** – a queue of 100 entries between a hook with a deadline and a goroutine
  that retries against the API server;
* **shared objects** – the status of a claim has writers in other drivers, and a claim of the same
  name may be another object by the time it is written;
* **start and stop** – sockets are served, reconciles run and hooks arrive while `RunPlugin` is still
  starting or already stopping.

## 2. Modules

| Module | What it is |
|---|---|
| `DriverTargets` | which driver a bind, restore or failed bind leaves a device at (operators only) |
| `ClaimLifecycle` | claim path, pod manager, checkpoint, spec files, device-info files, driver bindings |
| `ClaimLifecycleInv` | the inductive invariants of the claim path, each with its hypothesis: `ClaimInv` (`NoRollback`), `StableInv` (none), `OwnerInv` (`CheckpointWrites`), `NameInv` (none), `UndoInv` (`CleanUndo`) |
| `ClaimLifecycleProofs` | theorems about `ClaimLifecycle`: types, interface names, undoing |
| `ClaimInvProofs` | theorems that rest on `ClaimInv`, `StableInv` and `OwnerInv` |
| `VfConfig` | opaque configs: `Override`, precedence, and what the documentation promises of them |
| `DriverBinding` | abstract specification: bind and restore calls as single steps |
| `DeviceSetup` | the setup and restore of a device, one sysfs access per step; implements `DriverBinding` |
| `DeviceSetupProofs` | its theorems, the refinement and the precedence of configs included |
| `PolicyAdvertisement` | controller, device state manager, publishing, the result of discovery at start |
| `PolicyAdvertisementProofs` | its theorems |
| `Discovery`, `DiscoveryProofs` | `DiscoverSriovDevices` in its two passes; its theorems |
| `PodNetwork`, `PodNetworkProofs` | NRI hooks, CNI ADD/DEL, metadata refresh, the channel and its runner; theorems |
| `ClaimStatus`, `ClaimStatusProofs` | the writers of one claim's status; theorems |
| `DriverProcess`, `DriverProcessProofs` | `RunPlugin` and its goroutines; theorems |
| `MC...` | instances for TLC |

The modules fit together by abstraction. `ClaimLifecycle` takes a bind call as one step with the
outcomes of `DriverTargets`; `DeviceSetup` shows that the write-by-write code has no others.
`ClaimLifecycle` and `PodNetwork` take a status update as one step, `ClaimStatus` opens it up;
`PolicyAdvertisement` takes discovery as one step, `Discovery` opens it up. `DriverProcess` is the frame in which all
of these start and stop.

### ClaimLifecycle

`mem` is `preparedClaimsByPodUID` as a set of records, `ckpt` the checkpoint file, `drv` the sysfs
binding, `claimSpec`/`podSpec`/`devInfo` the files. The kubelet plugin helper serialises calls, so
one call is in progress (`op`, `pod`, `stage`, `todo`, `result`) with the claim it works on
(`claim`, `left`, `cur`). One step is the code between two writes that survive a crash:
`PrepareResourceClaim` → `ApplyConfigOnDevice`* → `SyncDeviceInfoFiles` → `CreateClaimSpecFile` →
`SetClaim`, then `CreateGlobalPodSpecFile`; failures lead through `CleanDeviceInfoFiles` and
`RestoreDeviceDriver`* back to the loop; an unprepare goes the same way on to `DeleteSpecFiles` and
`DeleteClaim`. `Faults` names the operations that may fail; `MaxFaults`, `MaxCrashes`,
`MaxReboots` and `MaxReprepares` bound how often. A failed bind leaves the device where it was,
unbound, or bound (`FailedBind`). Orders Go or the cluster does not fix (claims, devices, map
iteration) are all taken. The kubelet (`Admit`, `Terminate`, `Reply`, when it calls) is external:
it ends a pod between two of its calls and never gives a device to two live pods. `resumed` is a
history variable: the pods that a prepare call has found with some claims recorded and some not.

### PolicyAdvertisement

Reconcile is four steps, `GetNode`, `ListPolicies`, `ListDeviceAttributes` (which computes the map)
and `UpdatePolicyDevices`, then `Republish`; its client reads the API server directly
(`pkg/flags/kubeclient.go`), so each read sees the objects of its moment. `ChangePolicy`,
`ChangeDeviceAttributes`, `ChangeNode` and `ConfigureVFs` happen between any two steps. `pending`
holds undelivered watch events and the one queued request. Names of objects are numbers, since only
their order matters; selectors and labels are sets. `slice` is the ResourceSlice; the library's
ResourceSlice controller takes a snapshot of what it is given.

### PodNetwork

The runtime calls one hook at a time (`hook`); while the process is down it runs and stops
sandboxes without the plugin. The network data of a device is the number of the sandbox whose ADD
returned it, so that "current", "older" and "none" can be told apart. `queue` is the channel,
`runner` the goroutine; an update carries which preparation of the pod it belongs to (`record`),
because the code keeps a pointer to the prepared device. `lost` is a history variable: the latest
sandbox of a pod whose update ended in a logged error or with the process. How the runtime reacts
to a failed stop (try again, or go on) is left open. The claim path is reduced to `Prepare` and
`Unprepare`. The kubelet prepares a pod before its first sandbox and, after a restart of its own,
again in any state of the sandbox, a running one and one that a hook is working on included: the
answer "already prepared" rewrites the metadata files from the record, and a failed pod spec rolls the
record back under the sandbox. It unprepares after the sandbox was stopped. The history variable
`repeated` holds the pods that were prepared since their hook wrote the metadata, `dropped` those
whose record was rolled back since their sandbox began. The API server that fails may go on failing
for the attempts that follow (`Outage`).

### DeviceSetup, DriverBinding and VfConfig

`pc` walks one call through `applyConfigOnDevice` or `unprepareDevices` (`config`, `bind`, `vhost`,
`vfio`, `rdma`, `record`, `reply`) and, inside a bind call, through the sysfs accesses (`default`,
`modules`, `check`, `unbind`, `override`, `attach`, `clear`, `reset`, `probe`); `after` is who waits
for the bind call. `drv` and `override` are sysfs, `loaded` is `/proc/modules`. The kernel is
external: a `bind` file takes a device its `driver_override` names, or one without override whose
host driver it is, and `drivers_probe` follows the same rule. Each access may fail, and
`CrashRestart` may come between any two. Surroundings (several claims, the checkpoint) belong to
`ClaimLifecycle`; here a record is kept once the setup is done and dropped once the restore is.

`BindCallsAreAtomic` is the refinement: with `drv` frozen at its value from before the call until the call
returns or dies, every behaviour of `DeviceSetup` is one of `DriverBinding`, in which a call binds
what was asked for or leaves one of the three drivers of `FailedBind`.

`VfConfig` is pure: a config is a function from field names to values. `ConfigForRequest` merges as
the code does, by `Override` on the default: the entries of the class in their order, then those of
the claim (`MergeFrom`). `SetByHighest` says the same without merging, from `Precedes` alone. TLC
compares the two for the entry lists of the run, and a theorem for all others: entries from class and claim in either order, of other drivers and other requests,
undecodable and of an unknown source.

### ClaimStatus

`api` is the object in the API server with its UID and version, `hook` and `runner` the copies the
two writers hold with the list of their first attempt (`original`) and the number of attempts. An
update is answered *ok*, *conflict* (another version or another UID), *invalid* (a device listed
twice) or *gone*, and may fail on the way with or without having been carried out. A device's data
is 0 for the config a prepare writes and *n* for the network data of the *n*-th sandbox. The
history variables `listed` and `lost` say since when, and with which exceptions, the data of a
sandbox is due. The failure of the checkpoint write before the status update is the failed
`GetClaim`.

### DriverProcess

`stage` is the statement of `RunPlugin`, in `StartOrder` and `StopOrder`; an error return goes
to `down` without the shutdown, as in the code. The gRPC servers, the health check in progress, the
controller, the NRI connection, a hook and the runner are processes of their own; the signal handler
is installed after the first statement and removed when the context is done (`Caught`). Socket
files and the slice outlive the process. The servers of the plugin were given the main context and
may end at any time once it is done (`ServersEnd`). A reconcile stores what it matched before it
publishes; when the callback fails the slice stays as it was, and no later reconcile repeats it
(`unpublished`). A probe call may fail by itself, its deadline included (`DEADLINE`), and the answer of
a plugin whose server is away is `NOT_SERVING`. The wait for the registration ends with a timeout; bar a
fault, a running kubelet registers a served socket in time. A send on the closed channel panics.
All four combinations of health service and MULTUS mode are initial states.

### Discovery

`nic` is what the host tells about each function: devlink answer, eswitch mode, link type, PCI
subclass, NUMA node, MTU and speed, RDMA, masters, VLANs, each with the values that mean "cannot be
read". `away` are the functions on another driver than the host's, `exists` the VFs that
exist, which `ConfigureVFs` changes between any two steps. The functions are scanned, and the PFs
found are listed, in every order. Text is reduced to what is compared: the VLAN
ranges are pairs, with the length their text would have. Sorting is stated by rank (`Ascending`: the
i-th ID has i - 1 smaller ones). The VLAN IDs of a bridge are assumed to be in 1..4094, as in the
kernel's VLAN table.

## 3. Runs

Passing runs (distinct states):

| Run | Instance | What it shows |
|---|---|---|
| `Retries` (9,176) | MULTUS; three pods, one with a claim without devices; a device that is not discovered; one failure of a claim, device file, device-info file, spec file or answer | `RunningIsPrepared`, `NothingLeftBehind`, `OriginalDriverIsHosts` |
| `Crashes` (312,502) | a pod with two claims, of two devices and one, that share the interface index, and a later pod that reuses one of them; two crashes, a repeated prepare of a running pod, one failure of any kind but `podSpec` and `checkpoint` | `ClaimInv`, `OneOwner`, `IfNamesDistinct`, `DriverStableInUse` |
| `Storm` (143,333) | two pods with devices of their own, prepared and running at the same time; one failure of any kind, a crash and a reboot, fairness | `TypeOK`, `DriverStableInUse`, `EventuallyUnprepared`, `EventuallyPrepared` |
| `DeviceSetup` (273,154) | two devices, one with override file, IOMMU group and RDMA; boot drivers `iavf`, `vfio-pci`, `igb_uio` or none; seven lists of configs; two failures, a crash, fairness | `LeftoverOverrideHarmless`, `PreparedStaysBound`, `FailedPrepareRestores`, `PrecedenceRespected`, `BindCallsAreAtomic`, `EventuallyRestored` |
| `Advertise` (309,831) | a PF and two VFs, two policies, two attribute objects, node labels; two changes, a failed read, a crash, fairness | `SliceIsCurrent`, `AttributesTracked`, `PFsOptIn`, `EventuallyCurrent` |
| `PhysicalFunctions` (33,148) | policies that ask for PF and VFs at once; VFs come and go; failed publishes | `TypeOK`, `NoPFWithItsVFs` |
| `Discovery` (650,720) | two PFs, two VFs; every set of VLANs from six IDs, and one deviation at a time of what the host tells; any functions on other drivers; one change of the VFs, one failed read | `CountsAgree`, `VlansFaithful` |
| `Sandboxes` (665,082) | a pod with two claims, three sandboxes, two preparations and any number of repeated ones, a channel of one entry, two attempts; one failure, a rollback included, one crash, fairness | `TypeOK`, `RunningIsAttached`, `StoppedIsDetached`, `NothingForgotten`, `StatusNeverGoesBack`, `RepeatedPrepareKeepsData`, `HookReturns` |
| `Status` (631,569) | a claim created twice, prepared twice, three sandboxes, two writes of others, three attempts; one failed or lost call, fairness | `LastSandboxWins`, `TheirsLostOnlyOnRetry`, `UpdatesEnd` |
| `Process` (339,399) | every flag combination, two failures of any statement, server, republish, probe, connection or of the kubelet, a signal, two hooks, a health check, fairness | `CallsSeeRecords`, `HealthIsTrue`, `StopEnds`, `OrderlyStop`, `EventuallyInService` |

Runs in which TLC finds a violation, each of a sentence of the repository:

| Run | Violated | What happens |
|---|---|---|
| `TwoClaimUnprepare` | `NothingLeftBehind` | `DeleteClaim` deletes the pod's whole entry; the pod's other claim is then unknown, its device stays bound and its spec file stays |
| `ConfigDropped` | `EveryFieldApplies` | `Override` leaves out `addVhostMount` and `netAttachDefNamespace`; as every config is merged onto the default, neither is ever applied |

**Known violations.** The passing instances exclude, by their `Faults`, pods and policies, cases in
which the code does not keep a property. Each can be seen by changing the instance as
said, and is listed with its line under the hazards:

| Property | Instance in which it fails | What happens |
|---|---|---|
| `RunningIsPrepared` | a `checkpoint` failure in `Retries` | `Set` (`podmanager.go:73`) leaves the claim in the map when the checkpoint cannot be written; the devices are undone, and the retry answers "already prepared" |
| `RunningIsPrepared` | a reboot | "already prepared" is answered from the checkpoint although bindings and `/var/run` files are gone |
| `RunningIsPrepared`, `DriverStableInUse` | a `podSpec` failure and `MaxReprepares = 1` in `Storm` | a running pod is prepared again and `CreateGlobalPodSpecFile` fails: the rollback (`dra_hook.go:76`) undoes claims of earlier calls and restores the driver under the containers |
| `DriverStableInUse` | a `checkpoint` failure, a crash and `MaxReprepares = 1` in `Storm` | the pod was started on "already prepared" from the map; after the crash its record is gone, and the next prepare binds the device under the containers |
| `OneOwner` | a `checkpoint` failure in `Crashes` | a deleted record is still on file (`podmanager.go:160`) and comes back with the restart, when its device has a new owner |
| `OriginalDriverIsHosts` | a crash | between bind (`state.go:252`) and record; the retry records the driver the first attempt bound |
| `SliceIsCurrent` | a policy without attributes in `Advertise` | it is deleted; `clearPolicyAttributes` (`state.go:627`) reports no change and nothing is republished |
| `SliceIsCurrent` | a `publish` failure in `Advertise` | the state is stored before the publish (`state.go:615`); the retry sees no change |
| `CountsAgree` | `MaxChanges = 2` | a VF that is away in the first pass and back in the second is listed as a PF without VFs |
| a PF with VFs is not in the slice | `ConfigureVFs` while the PF is advertised | only a restart discovers (`docs/design/pf-advertisement.md:213` expects otherwise) |

Other properties say exactly how far the code goes; the cases they leave out happen in their runs:

* `IfNamesDistinct`: a call that finds one claim of a pod recorded and another not (the first call
  failed, or the driver crashed, in between) numbers from zero again (`dra_hook.go:29`) and may give
  the name of a recorded interface to another one. The property is about the pods that have not been
  through this (`resumed`).
* `RunningIsAttached`, `RepeatedPrepareKeepsData`: a prepare repeated for a running pod
  (`dra_hook.go:133-140`) writes the network data on record into the metadata files. While the update
  of the sandbox waits in the channel, after it was lost (`nri.go:204-222`, or a crash) and after a
  rollback, that is nothing or the data of an earlier sandbox, which the containers then read; nothing
  repairs it before the next sandbox. The second property says that these are the only cases.
* `NothingForgotten`: a rollback under a running sandbox takes the record and with it the data
  (`dropped`).
* `EventuallyInService`: after a failed republish (`state.go:615-618`) the driver is in service with an
  older slice until the process ends (`unpublished`).
* `HealthIsTrue`: a probe during a stop may find the servers gone; during the start it does not.
* `TheirsLostOnlyOnRetry`: a retry after a conflict does drop entries other drivers have made meanwhile.
* `OrderlyStop`: a hook that sends while the channel is closed does panic.
* `EventuallyRestored`: a device that was on `igb_uio` or `uio_pci_generic`, or on `vfio-pci` with
  built-in modules or without an override file, cannot be given back (`Restorable`).

**Bounds.** Two claims are the least with which a failure of one of several, the order of claims
and the loss of the other can happen; two devices in a claim the least for an undo of the earlier
one; two pods in sequence the least for a stale record to meet a new owner. Two changes let one
fall between two reads and another while the first is handled. In `Sandboxes` three updates meet a
channel of one entry and a runner that holds one, so that the send blocks; the code's 100 entries
and 5 attempts only need more of the same; one failure of the API server lasts over as many attempts as
it takes to run out of them. In `Crashes` the claim with two devices and the one with one need three
numbers from the shared index. `DeviceSetup` needs two failures so that the restore of a
failed setup can fail as well, and a crash on top. In `Status` two creations let an update meet a
claim of another UID, three attempts let one retry fail and the next succeed. In `Process` the second
failure may hit the stop or the restart after the first. In `Discovery` the six VLAN IDs give ranges of
every length up to four, gaps and a change in the number of digits; a text of six characters puts
both sides of the limit in reach. Counters are capped in the guards of the actions that
raise them, never by a state constraint.

**Deadlock** is not checked where the system may stop: a node whose pods have all ended, a
controller that has handled every change, and a driver without a kubelet have nothing left to do.
`Discovery` can always go on and checks it.

**Fairness.** `ClaimLifecycle`: weak fairness of the steps of a call, and strong fairness of each
pod's prepare and unprepare, as the kubelet repeats a call until it succeeds and the helper's lock
lets every caller in (other pods' calls may come in between, hence strong). `DeviceSetup`: the same,
for the steps of a call and the unprepare of each device. `PolicyAdvertisement`:
weak fairness of the controller's worker, of the delivery of watch events and of the restart of a
dead driver. `PodNetwork` and `ClaimStatus`: weak fairness of the goroutines of the hook and of the
runner; none for the runtime, the kubelet or other writers. `DriverProcess`: weak fairness of each
goroutine, of the kubelet starting the container and of its look at the sockets; none for signals,
failures, hooks or a kubelet that is down, which is why `EventuallyInService` assumes that there is
a kubelet in the end.

**Mutants.** Every property of a passing run has a mutant: a definition of the model changed the
way a plausible bug would change the code (an error lost, a checkpoint write skipped, a restore
taken as done, an index per claim, a record that is not found, network data left out of an answer, an unknown claim refused, a criterion dropped, a failed Reconcile taken as handled,
a channel without bound, a goroutine that returns early, an override not set or not reset, configs
of the class merged last, a conflict answered with the fresh list, two statements of the
start or the stop exchanged). TLC finds each of them.

## 4. Theorems

Every theorem holds for all values of the constants that satisfy the assumptions named in the
component's module (`ASSUME ...Assumption`, evaluated by TLC in each run): any number of pods,
claims, devices, policies, attempts, crashes and failures. All safety properties of the passing runs
are theorems. Some theorems have a hypothesis besides, which names the
circumstances the property needs; each part of it answers a row of "Known violations" or a case said
below, and an instance of section 3 satisfies it (`NoRollback` and `CheckpointWrites`: `Crashes`;
`PreparedOnce`: `Storm`; `CleanUndo`: `Retries`; `NamedPolicies`: `Advertise`;
`OneChange`: `Discovery`).

The pattern is the same everywhere: an invariant with `Init => Inv` and `Inv /\ [Next]_vars => Inv'`,
one lemma per action, the property as a consequence, the step of an action property from the
invariant before it.

### Claim path (`ClaimLifecycleProofs`, `ClaimInvProofs`)

* `TypeCorrect`: `TypeOK`, under any failures, crashes and reboots.
* `ClaimInvCorrect`: `ClaimInv`, assuming `NoRollback` (no `checkpoint` or `podSpec` failure, all
  devices discovered, no reboot). `RunningIsPrepared` is not inductive: a running pod may be prepared
  again, and an answer is given from what earlier steps achieved. `ClaimInv` adds the shape of the
  call (`CallInv`), that live pods share nothing (`Exclusive`), that the map equals the checkpoint
  and a claim is recorded completely or not at all, with its spec file and drivers until its pod
  ends (`RecordInv`), what is true of the claim at hand (`WorkInv`), and what a call without errors
  has achieved so far (`ProgressInv`).
* `RunningIsPreparedCorrect` follows from it; `DriverStableInUseCorrect` is an action property: the
  claim a bind or restore works on is not recorded, or its pod is terminating, and no live pod
  shares the device.
* `StableInvCorrect`: `StableInv`, without a hypothesis: a call works on claims of its own pod and on
  their devices, its pod runs only if it is prepared again, and records, in the map, on file or to be
  made, name claims and devices that belong together. `DriverStableUnderFaults` follows, assuming
  `PreparedOnce` instead of `NoRollback`: any failure (a lost checkpoint write included), rollbacks,
  crashes and reboots. Of the case that both leave out, a running pod prepared again
  where the other faults happen as well, a lost checkpoint write and a rollback break the property
  (section 3); with a reboot TLC finds no violation in a variant of `Storm`.
* `OwnerInvCorrect`: `OwnerInv`, assuming `CheckpointWrites` only (no `checkpoint` failure; all other
  failures, rollbacks, devices not discovered, crashes and reboots). It adds to `StableInv` that the
  file is the map (why a restart brings nothing back), that records belong to pods that have not
  ended, and that an unprepare without errors so far has no record of its pod left but those it still
  has to delete: the last is why the second survives the answer of an unprepare.
  `OneOwnerCorrect` follows. TLC checked `StableInv` and `OwnerInv`
  on variants of `Storm` and `Crashes` with every failure they allow, a crash, a reboot and a repeated
  prepare.
* `IfNamesDistinctCorrect`, without a hypothesis: over all claims of a pod, under any failures,
  rollbacks, crashes and reboots. `NameInv` says, of pods that are not in `resumed`, that the names in
  the map, in the checkpoint and in the work at hand are distinct (`NameRecords`, `NameWork`) and that
  those of the running call are below its index: a call that began with no claim of the pod recorded
  has numbered all that are now, and one that began with all of them numbers none (`NameCall`). TLC
  checked it with every failure, two at a time, a crash and a reboot (2,620,376 states).
* `UndoInvCorrect`, `NothingLeftBehindCorrect`, `OriginalDriverIsHostsCorrect`, assuming `CleanUndo`
  (no crash or reboot, no failed bind or restore, one failed device-info write at most, and
  one claim with devices per pod: `TwoClaimUnprepare` shows why). `UndoInv` turns the question round: what is
  on the host and in the directories has a record or is the work at hand (`UndoHost`), so that
  whatever has neither is as it was before; `UndoRecords` says that a record restores the driver of the
  host, `UndoWork` how far the undo of the claim at hand has come.

### Device setup (`DeviceSetupProofs`)

* `SetupInvariant`: `SetupInv`, without a hypothesis. `LeftoverOverrideHarmless` needs to know where
  the device is at each sysfs access (`BindInv`: on its old driver up to the unbind, on none from
  there to the bind, without override at the probe) and that a device without the file has no
  override. `PreparedStaysBound` and `FailedPrepareRestores` need `PrepareInv`: what the steps after
  the bind have established, and that the original driver is the one from before the call.
* `OverridesHarmless`, `PreparedDevicesStayBound`, `FailedPreparesRestore` follow from it.
* `BindCallsRefine`: `Spec => BindCallsAreAtomic`, the refinement of `DriverBinding`. With `drv`
  frozen during a call, a step inside a bind call is a stutter, the step that returns from it (or the
  crash in it) is the abstract `BindSucceeds` or `BindFails`, because by `BindInv` the device is then
  where was asked or on one of the drivers of `FailedBind`.
* `PrecedenceAlwaysRespected`: for entry lists of any length, each field that `Override` merges comes
  from the entry of the highest precedence that sets it. The merge is a recursive function; its
  values are found by minimal counterexample (`LeastNumber`, from the well-foundedness of the natural
  numbers): `MergeExists` shows that the function is what its recursive definition says,
  `MergeFromLast` that it returns the last entry of its source that sets the field, or the base.

### Advertisement (`PolicyAdvertisementProofs`)

* `AdvertTypes`: `TypeOK`.
* `AdvertInvCorrect`: attributes are tracked, policy keys never are reserved ones, and no PF is
  together with one of its VFs in the advertised set, in the computed map or in the slice. The second
  conjunct is why the first is inductive; the first is why the third is, since `deviceTypeOf`
  reads an attribute that a policy could otherwise change. `AttributesTrackedCorrect` and
  `NoPFWithItsVFsCorrect` follow.
* `FreshInvCorrect`, `SliceIsCurrentCorrect`, `PFsOptInCorrect`, assuming `NamedPolicies` (publishes do
  not fail, and whatever the policies select sets an attribute of its own). `FreshInv` says that
  what a Reconcile has read is of this moment or another request is on its way, and that what is
  advertised is published before the next read. The core of the step of `UpdatePolicyDevices` is that
  "no change" means that nothing has to be published: every advertised device has policy keys, hence
  a device that leaves has attributes to clear.

### Pod network (`PodNetworkProofs`)

* `PodInvariant`: `PodInv`, without a hypothesis: what the hook has attached, detached and written so
  far (`HookInv`), what the runner is at (`RunnerInv`), that the updates of a pod wait in the order
  of its sandboxes and nothing written is newer than what waits (`OrderInv`), what is done of the
  update at hand (`ProgressInv`), that a sandbox begins with a record and keeps it unless it is rolled
  back, so that the data of its update goes to the record of now (`RecordInv`), and that the data of
  each running sandbox is on its way, lost or delivered, or its record rolled back (`DeliveredInv`).
* `PodTypes` (with the bounds of the channel and of the attempts), `RunningAlwaysAttached`,
  `StoppedAlwaysDetached`, `NothingEverForgotten` follow; `StatusNeverReverts` is an action property
  that needs `OrderInv`, `RepeatedPrepareAlwaysKeepsData` one that needs `DeliveredInv`: what is neither
  pending, lost nor rolled back is on record, and the record is what a repeated prepare writes.

### Claim status (`ClaimStatusProofs`)

* `StatusInvariant`: `StatusInv`, without a hypothesis. A list that names one device of this driver
  names all (`ObjectInv`); a writer's copy is not newer than the object, and at a first attempt with
  the current version it has every entry of others (`WriterOK`); the runner's lists carry the data of
  its update (`RunnerInv`), and the channel holds the updates that come after it (`QueueInv`).
* `LastSandboxAlwaysWins` follows; `OthersLoseOnlyOnRetry` is an action property from `WriterOK`.

### Process (`DriverProcessProofs`)

* `ProcessInvariant`: `ProcessInv`, without a hypothesis: what is set up (`ReadyInv`) and served
  (`ServerInv`) before and after the statement that makes the difference, and that a server of the
  plugin is away in between only once the context is done. `AfterIs` computes the successor of each statement from `StartOrder` and `StopOrder`.
* `CallsAlwaysSeeRecords`, `HealthAlwaysTrue` follow.

### Discovery (`DiscoveryProofs`)

* `CountsAlwaysAgree`, assuming `OneChange` (`sriov_numvfs` is written once at most). `DiscoveryInv`
  says that a candidate of the first pass that is no PF is a VF that has gone for good
  (`CandidateInv`), that the scan loses no PF (`ScanInv`), and that the PFs listed so far have the
  VFs that are listed (`ListInv`).
* `VlansAlwaysFaithful`, without a hypothesis: for any set of VLANs of an uplink. `AscendingSorts`
  finds the sorted sequence from the ranks, each of which exactly one ID has. `formatVlanRanges` is a
  recursive function: it is what its definition says (`FromExists`), and by minimal counterexample,
  from the end backwards, the ranges from an index on begin where a gap ends, end where one begins
  and cover what is between (`RangesFrom`), so that they stand for the set (`RangesStandFor`).
  `SumIs` shows that the sum over a function does not depend on the order the IDs are taken in,
  `TextNamesEnds` that the length of the text is therefore the digits of the ends of the ranges
  with a separator after each but the last. `VlansInv` carries this from the first pass to the list.

### Only model-checked

* Liveness (`EventuallyUnprepared`, `EventuallyPrepared`, `EventuallyRestored`, `EventuallyCurrent`,
  `EventuallyInService`, `HookReturns`, `UpdatesEnd`, `StopEnds`, `OrderlyStop`): fairness is out of
  the prover's reach.

## 5. What is not modelled

* contents: environment variables and format of CDI files, JSON of the checkpoint, attributes copied
  from sysfs as they are, CNI configuration and results; log messages;
* the execution of the CNI binary (`pkg/cni/exec.go`) and the conversion of its result;
* torn reads of the manager's maps, which have no lock (a fatal error of the Go runtime is covered
  as a crash);
* flags, type registration, generated code, charts and demos: no behaviour of their own.

## 6. Plan

Done: every component of section 1 is modelled, its safety properties are checked and proved. What
is left:

1. **Known violations** – once the code is changed in one of these places, the fault goes into the
   instance and out of the hypothesis of the theorem.
2. **Shorter proofs** – lemmas for the steps that several action lemmas of `PodNetworkProofs` repeat.
