---------------------------- MODULE DeviceSetup -----------------------------
(***************************************************************************)
(* The setup of one device at a time, write by write: applyConfigOnDevice  *)
(* and unprepareDevices of pkg/devicestate/state.go down to the sysfs      *)
(* writes and kernel modules of pkg/host/host.go.  The process may crash   *)
(* between any two writes.  What surrounds it (claims, spec files, the     *)
(* checkpoint, retries of the kubelet) is the subject of ClaimLifecycle;   *)
(* here a device is recorded once it is set up, and forgotten once it is   *)
(* restored.                                                               *)
(***************************************************************************)
EXTENDS VfConfig, DriverTargets

CONSTANTS
    NoDevice,
    BootDrivers,   \* [device -> drivers it may be bound to at the first start]
    EntryLists,    \* the configuration lists a claim may carry
    RequestOf,     \* the request a device is allocated for
    Overridable,   \* devices that have a driver_override file
    Iommu,         \* devices that are in an IOMMU group
    RdmaHardware,  \* devices whose host driver makes an RDMA device
    BuiltIn,       \* kernel modules built in: never listed in /proc/modules
    Faults,        \* kinds of operations that may fail
    MaxFaults, MaxCrashes

VfioModules == {"vfio", "vfio_pci"}
VhostModules == {"tun", "vhost_net"}
Modules == VfioModules \cup VhostModules

FaultKinds == {"network", "sysfs", "modprobe", "iommu", "rdma"}

ASSUME SetupAssumption ==
    /\ NoDevice \notin Devices
    /\ BootDrivers \in [Devices -> SUBSET BoundDriver]
    /\ Overridable \subseteq Devices /\ Iommu \subseteq Devices
    /\ RdmaHardware \subseteq Devices /\ BuiltIn \subseteq Modules
    /\ Faults \subseteq FaultKinds
    /\ MaxFaults \in Nat /\ MaxCrashes \in Nat

\* Drivers holds every driver name that a resolved configuration asks for.
ASSUME ConfigAssumption ==
    \A es \in EntryLists :
        /\ Len(es) \in Nat /\ DOMAIN es = 1 .. Len(es)
        /\ \A d \in Devices : ~ConfigError(es) =>
              ConfigForRequest(es, RequestOf[d])["driver"] \in ConfigDriver

VARIABLES
    drv, override,     \* sysfs: bound driver and driver_override of a device
    loaded,            \* modules listed in /proc/modules
    rdmaCapable,       \* devices with the rdmaCapable attribute, from discovery
    rec,               \* device -> its record, NoRecord when not prepared
    ending,            \* devices whose claim is to be unprepared
    op, pc, dev, result,           \* the running call
    entries, cfg, orig,            \* the config of the claim, the old driver
    nodes,                         \* device nodes for the container so far
    ask, after,                    \* the bind call in flight, who waits for it
    before, start, last,           \* history: drv[dev] when the bind call and
                                   \* the whole call began; the last bind call
    faults, crashes

sysVars == <<drv, override, loaded, rdmaCapable>>
recVars == <<rec, ending>>
callVars == <<op, dev, entries, start>>
setupVars == <<cfg, orig, nodes>>
bindVars == <<ask, after, before>>
vars == <<sysVars, recVars, callVars, setupVars, bindVars, pc, result, last,
          faults, crashes>>

NoRecord == [driver |-> "none", orig |-> NoDriver, nodes |-> {}]
NoCall == [dev |-> "none", ask |-> NoDriver, ok |-> TRUE]

\* A bind call is in flight at these steps.
BindSteps == {"default", "modules", "check", "unbind", "override", "attach",
              "clear", "reset", "probe"}

\* The abstract device changes when the bind call returns or dies.
Binding == INSTANCE DriverBinding WITH
    drv <- IF pc \in BindSteps THEN [drv EXCEPT ![dev] = before] ELSE drv

TypeOK ==
    /\ drv \in [Devices -> BoundDriver] /\ override \in [Devices -> BoundDriver]
    /\ loaded \in SUBSET Modules /\ rdmaCapable \in SUBSET Devices
    /\ rec \in [Devices -> [driver : ConfigDriver \cup {"none"}, orig : BoundDriver,
                            nodes : SUBSET {"vfio", "vhost", "rdma"}]]
    /\ ending \in SUBSET Devices
    /\ op \in {"none", "prepare", "unprepare"} /\ dev \in Devices \cup {NoDevice}
    /\ pc \in BindSteps \cup {"idle", "config", "bind", "vhost", "vfio", "rdma",
                             "record", "reply"}
    /\ (pc = "idle") = (dev = NoDevice)
    /\ result \in {"ok", "error"} /\ after \in {"none", "setup", "undo", "restore"}
    /\ orig \in BoundDriver /\ before \in BoundDriver /\ start \in BoundDriver
    /\ ask \in ConfigDriver /\ nodes \in SUBSET {"vfio", "vhost", "rdma"}

-----------------------------------------------------------------------------
(* The kernel *)

\* The kernel makes an RDMA device for a function bound to its host driver.
RdmaDevice(d) == d \in RdmaHardware /\ drv[d] = HostDriver[d]

\* The bind file of a driver takes a device that its override names, or that
\* has none and whose IDs the driver lists.
Accepts(d, x) == IF override[d] = NoDriver THEN x = HostDriver[d] ELSE override[d] = x

Fault(kind) == kind \in Faults /\ faults < MaxFaults /\ faults' = faults + 1
NoFault == UNCHANGED faults

\* Missing modules are loaded one by one and looked up again; some may fail,
\* and a built-in module is never found.  ok is whether all were found.
LoadModules(names, ok) ==
    \E done \in SUBSET (names \ loaded) :
        /\ loaded' = loaded \cup (done \ BuiltIn)
        /\ IF done = names \ loaded THEN NoFault ELSE Fault("modprobe")
        /\ ok = (names \subseteq loaded')

-----------------------------------------------------------------------------
(* Steps of a call *)

At(l) == pc = l
Goto(l) == pc' = l /\ UNCHANGED <<result, rec, last>>

Fail == pc' = "reply" /\ result' = "error" /\ UNCHANGED <<rec, last>>

\* A bind call begins: RestoreDeviceDriver and BindDeviceDriver both end in
\* BindDefaultDriver or BindDriverByBusAndDevice.
Call(driver, who) ==
    /\ ask' = driver /\ after' = who /\ before' = drv[dev]
    /\ Goto(IF driver = DefaultDriver THEN "default" ELSE "modules")

\* The driver RestoreDeviceDriver asks for.
RestoreAsk(original) == IF original = NoDriver THEN DefaultDriver ELSE original

\* The bind call returns to whoever waits for it.
\* Mutant: the setup goes on when it failed.
ReturnUnchecked(ok) ==
    /\ last' = [dev |-> dev, ask |-> ask, ok |-> ok]
    /\ pc' = IF after = "setup" THEN "vhost" ELSE "reply"
    /\ UNCHANGED result
    /\ rec' = IF after = "restore" THEN [rec EXCEPT ![dev] = NoRecord] ELSE rec
Return(ok) ==
    /\ last' = [dev |-> dev, ask |-> ask, ok |-> ok]
    /\ pc' = IF ok /\ after = "setup" THEN "vhost" ELSE "reply"
    /\ result' = IF ok THEN result ELSE "error"
    /\ rec' = IF ok /\ after = "restore" THEN [rec EXCEPT ![dev] = NoRecord] ELSE rec

\* Setup fails after the bind: restoreDriverOnError, unless no driver was asked
\* for.  Mutant: the error is returned as it is.
FailAtOnce == Fail /\ UNCHANGED bindVars
RestoreDriverOnError ==
    IF cfg["driver"] = Unset
      THEN Fail /\ UNCHANGED bindVars
      ELSE /\ ask' = RestoreAsk(orig) /\ after' = "undo" /\ before' = drv[dev]
           /\ pc' = IF orig = NoDriver THEN "default" ELSE "modules"
           /\ result' = "error" /\ UNCHANGED <<rec, last>>

\* No call is running.
Idle ==
    /\ pc' = "idle" /\ op' = "none" /\ dev' = NoDevice /\ result' = "ok"
    /\ entries' = <<>> /\ cfg' = DefaultVfConfig /\ orig' = NoDriver /\ nodes' = {}
    /\ ask' = NoDriver /\ after' = "none" /\ before' = NoDriver /\ start' = NoDriver

-----------------------------------------------------------------------------
(* applyConfigOnDevice *)

PrepareDevice(d) ==
    /\ At("idle") /\ rec[d] = NoRecord /\ d \notin ending
    /\ op' = "prepare" /\ dev' = d /\ start' = drv[d]
    /\ entries' \in EntryLists
    /\ Goto("config") /\ NoFault
    /\ UNCHANGED <<sysVars, ending, setupVars, bindVars, crashes>>

\* The config of the request is resolved and, in STANDALONE mode, the network
\* attachment definition it names is read.
ResolveConfig ==
    /\ At("config")
    /\ UNCHANGED <<sysVars, ending, callVars, bindVars, orig, nodes, crashes>>
    /\ \/ /\ ~ConfigError(entries) /\ NoFault
          /\ cfg' = ConfigForRequest(entries, RequestOf[dev])
          /\ Goto("bind")
       \/ ConfigError(entries) /\ NoFault /\ Fail /\ UNCHANGED cfg
       \/ Fault("network") /\ Fail /\ UNCHANGED cfg

\* The driver a device had is read before anything is changed.
KeepOriginal == orig' = drv[dev]

BindDeviceDriver ==
    /\ At("bind") /\ entries' = <<>>
    /\ UNCHANGED <<sysVars, ending, op, dev, start, cfg, nodes, crashes>>
    /\ \/ /\ cfg["driver"] = Unset /\ NoFault /\ orig' = NoDriver
          /\ Goto("vhost") /\ UNCHANGED bindVars
       \/ /\ cfg["driver"] # Unset /\ NoFault /\ KeepOriginal
          /\ Call(cfg["driver"], "setup")
       \/ /\ cfg["driver"] # Unset /\ Fault("sysfs") /\ Fail
          /\ UNCHANGED <<orig, bindVars>>

\* The vhost modules are needed for the vhost device nodes only.
EnsureVhostModulesLoaded ==
    LET wanted == cfg["addVhostMount"] # Unset
    IN /\ At("vhost")
       /\ UNCHANGED <<drv, override, rdmaCapable, ending, callVars, cfg, orig,
                      crashes>>
       /\ \E ok \in BOOLEAN :
             /\ LoadModules(IF wanted THEN VhostModules ELSE {}, ok)
             /\ nodes' = IF ok /\ wanted THEN nodes \cup {"vhost"} ELSE nodes
             /\ IF ok THEN Goto("vfio") /\ UNCHANGED bindVars
                      ELSE RestoreDriverOnError

GetVFIODeviceFile ==
    /\ At("vfio")
    /\ UNCHANGED <<sysVars, ending, callVars, cfg, orig, crashes>>
    /\ \/ /\ cfg["driver"] # "vfio-pci" /\ NoFault
          /\ Goto("rdma") /\ UNCHANGED <<nodes, bindVars>>
       \/ /\ cfg["driver"] = "vfio-pci" /\ dev \in Iommu /\ NoFault
          /\ nodes' = nodes \cup {"vfio"}
          /\ Goto("rdma") /\ UNCHANGED bindVars
       \/ /\ cfg["driver"] = "vfio-pci"
          /\ IF dev \in Iommu THEN Fault("iommu") ELSE NoFault
          /\ RestoreDriverOnError /\ UNCHANGED nodes

\* The attribute is the one of the last discovery; a capable device must have
\* one RDMA device with character devices now.
HandleRDMADevice ==
    /\ At("rdma")
    /\ UNCHANGED <<sysVars, ending, callVars, cfg, orig, crashes>>
    /\ \/ /\ dev \notin rdmaCapable /\ NoFault
          /\ Goto("record") /\ UNCHANGED <<nodes, bindVars>>
       \/ /\ dev \in rdmaCapable /\ RdmaDevice(dev) /\ NoFault
          /\ nodes' = nodes \cup {"rdma"}
          /\ Goto("record") /\ UNCHANGED bindVars
       \/ /\ dev \in rdmaCapable
          /\ IF RdmaDevice(dev) THEN Fault("rdma") ELSE NoFault
          /\ RestoreDriverOnError /\ UNCHANGED nodes

Record ==
    /\ At("record")
    /\ rec' = [rec EXCEPT ![dev] =
                 [driver |-> cfg["driver"], orig |-> orig, nodes |-> nodes]]
    /\ pc' = "reply" /\ NoFault
    /\ UNCHANGED <<sysVars, ending, callVars, setupVars, bindVars, result, last,
                   crashes>>

-----------------------------------------------------------------------------
(* unprepareDevices *)

\* The claim of a prepared device ends.
EndClaim(d) ==
    /\ rec[d] # NoRecord /\ d \notin ending
    /\ ending' = ending \cup {d}
    /\ UNCHANGED <<sysVars, rec, callVars, setupVars, bindVars, pc, result, last,
                   faults, crashes>>

\* Nothing is restored when there is no record, or no driver was asked for.
UnprepareDevice(d) ==
    /\ At("idle") /\ d \in ending
    /\ op' = "unprepare" /\ dev' = d /\ start' = drv[d]
    /\ UNCHANGED <<sysVars, ending, entries, setupVars, crashes>>
    /\ NoFault
    /\ IF rec[d] = NoRecord \/ rec[d].driver = Unset
         THEN /\ rec' = [rec EXCEPT ![d] = NoRecord]
              /\ pc' = "reply" /\ UNCHANGED <<result, last, bindVars>>
         ELSE /\ ask' = RestoreAsk(rec[d].orig) /\ after' = "restore"
              /\ before' = drv[d]
              /\ Goto(IF rec[d].orig = NoDriver THEN "default" ELSE "modules")

\* The answer; the kubelet repeats an unprepare that failed.
Reply ==
    /\ At("reply")
    /\ Idle
    /\ ending' = IF rec[dev] = NoRecord THEN ending \ {dev} ELSE ending
    /\ last' = NoCall /\ NoFault
    /\ UNCHANGED <<sysVars, rec, crashes>>

-----------------------------------------------------------------------------
(* BindDefaultDriver and BindDriverByBusAndDevice, one sysfs access per step *)

InBind(l) ==
    /\ At(l)
    /\ UNCHANGED <<rdmaCapable, ending, callVars, setupVars, bindVars, crashes>>

\* A failed access ends the bind call.
SysfsError == Fault("sysfs") /\ Return(FALSE) /\ UNCHANGED <<drv, override>>

\* setDriverOverride: a device without the file is skipped.
\* Mutant: so is every device.
NoOverride(driver) == UNCHANGED override
SetDriverOverride(driver) ==
    override' = IF dev \in Overridable THEN [override EXCEPT ![dev] = driver] ELSE override

BindDefaultDriver ==
    /\ InBind("default") /\ UNCHANGED loaded
    /\ \/ /\ drv[dev] \notin DpdkDrivers \cup {NoDriver} /\ NoFault
          /\ Return(TRUE) /\ UNCHANGED <<drv, override>>
       \/ /\ drv[dev] \in DpdkDrivers \cup {NoDriver} /\ NoFault
          /\ Goto(IF drv[dev] = NoDriver THEN "reset" ELSE "unbind")
          /\ UNCHANGED <<drv, override>>
       \/ SysfsError

\* Only the modules of vfio-pci are known.
EnsureDpdkModuleLoaded ==
    /\ InBind("modules") /\ UNCHANGED <<drv, override>>
    /\ \/ /\ ask \notin DpdkDrivers /\ NoFault
          /\ Goto("check") /\ UNCHANGED loaded
       \/ /\ ask \in DpdkDrivers \ {"vfio-pci"} /\ NoFault
          /\ Return(FALSE) /\ UNCHANGED loaded
       \/ /\ ask = "vfio-pci"
          /\ \/ LoadModules(VfioModules, TRUE) /\ Goto("check")
             \/ LoadModules(VfioModules, FALSE) /\ Return(FALSE)

\* Mutant: a device that is bound is not unbound first.
NoUnbind == "override"
UnbindFirst == IF drv[dev] = NoDriver THEN "override" ELSE "unbind"

CheckDriver ==
    /\ InBind("check") /\ UNCHANGED loaded
    /\ \/ /\ drv[dev] = ask /\ NoFault
          /\ Return(TRUE) /\ UNCHANGED <<drv, override>>
       \/ /\ drv[dev] # ask /\ NoFault
          /\ Goto(UnbindFirst)
          /\ UNCHANGED <<drv, override>>
       \/ SysfsError

UnbindDriver ==
    /\ InBind("unbind") /\ UNCHANGED loaded
    /\ \/ /\ drv' = [drv EXCEPT ![dev] = NoDriver] /\ NoFault
          /\ Goto(IF ask = DefaultDriver THEN "reset" ELSE "override")
          /\ UNCHANGED override
       \/ SysfsError

OverrideDriver ==
    /\ InBind("override") /\ UNCHANGED loaded
    /\ \/ SetDriverOverride(ask) /\ NoFault /\ Goto("attach") /\ UNCHANGED drv
       \/ SysfsError

BindDriver ==
    /\ InBind("attach") /\ UNCHANGED <<loaded, override>>
    /\ \/ /\ Accepts(dev, ask) /\ NoFault
          /\ drv' = [drv EXCEPT ![dev] = ask] /\ Goto("clear")
       \/ /\ IF Accepts(dev, ask) THEN Fault("sysfs") ELSE NoFault
          /\ Return(FALSE) /\ UNCHANGED drv

\* The override is reset once the device is bound.
ClearOverride ==
    /\ InBind("clear") /\ UNCHANGED loaded
    /\ \/ SetDriverOverride(NoDriver) /\ NoFault /\ Return(TRUE) /\ UNCHANGED drv
       \/ SysfsError

\* Mutant: the default driver is probed for with the old override in place.
ProbeWithOverride == UNCHANGED override
ResetForProbe == SetDriverOverride(NoDriver)

ResetDefault ==
    /\ InBind("reset") /\ UNCHANGED loaded
    /\ \/ ResetForProbe /\ NoFault /\ Goto("probe") /\ UNCHANGED drv
       \/ SysfsError

\* drivers_probe binds the driver the override names, else the host driver.
ProbeDriver ==
    /\ InBind("probe") /\ UNCHANGED loaded
    /\ \/ /\ drv' = [drv EXCEPT ![dev] =
                       IF override[dev] = NoDriver THEN HostDriver[dev]
                       ELSE override[dev]]
          /\ NoFault /\ Return(TRUE) /\ UNCHANGED override
       \/ SysfsError

-----------------------------------------------------------------------------

\* Records are in the checkpoint; the call in flight is lost, and discovery
\* looks for RDMA devices again.
CrashRestart ==
    /\ crashes < MaxCrashes /\ crashes' = crashes + 1
    /\ rdmaCapable' = {d \in Devices : RdmaDevice(d)}
    /\ last' = IF pc \in BindSteps
                 THEN [dev |-> dev, ask |-> ask, ok |-> FALSE] ELSE last
    /\ Idle
    /\ UNCHANGED <<drv, override, loaded, rec, ending, faults>>

Init ==
    /\ drv \in {f \in [Devices -> BoundDriver] : \A d \in Devices : f[d] \in BootDrivers[d]}
    /\ override = [d \in Devices |-> NoDriver] /\ loaded = {}
    /\ rdmaCapable = {d \in Devices : RdmaDevice(d)}
    /\ rec = [d \in Devices |-> NoRecord] /\ ending = {}
    /\ op = "none" /\ pc = "idle" /\ dev = NoDevice /\ result = "ok"
    /\ entries = <<>> /\ cfg = DefaultVfConfig /\ orig = NoDriver /\ nodes = {}
    /\ ask = NoDriver /\ after = "none" /\ before = NoDriver /\ start = NoDriver
    /\ last = NoCall /\ faults = 0 /\ crashes = 0

\* The steps of a running call.
DriverStep ==
    \/ ResolveConfig \/ BindDeviceDriver \/ EnsureVhostModulesLoaded
    \/ GetVFIODeviceFile \/ HandleRDMADevice \/ Record \/ Reply
    \/ BindDefaultDriver \/ EnsureDpdkModuleLoaded \/ CheckDriver
    \/ UnbindDriver \/ OverrideDriver \/ BindDriver \/ ClearOverride
    \/ ResetDefault \/ ProbeDriver

Next ==
    \/ DriverStep
    \/ \E d \in Devices : PrepareDevice(d) \/ EndClaim(d) \/ UnprepareDevice(d)
    \/ CrashRestart

Spec == Init /\ [][Next]_vars

\* A running call goes on, and the kubelet repeats an unprepare until it
\* succeeds, whatever other devices are prepared in between.
FairSpec ==
    /\ Spec /\ WF_vars(DriverStep)
    /\ \A d \in Devices : SF_vars(UnprepareDevice(d))

-----------------------------------------------------------------------------
(* Properties *)

\* The bind and restore calls of pkg/host, taken apart into sysfs writes with
\* failures and crashes in between, have only the outcomes ClaimLifecycle
\* assumes: success binds what was asked for, failure leaves one of three
\* drivers, and no other device is touched.
BindCallsAreAtomic == Binding!Spec

\* A driver_override that a failed or interrupted bind left behind never names
\* another driver than the one its device is bound to: a later drivers_probe
\* or reload does not pull the device to a driver it left long ago.
LeftoverOverrideHarmless ==
    \A d \in Devices : override[d] # NoDriver => drv[d] \in {NoDriver, override[d]}

\* A prepared device stays on the driver its config asked for until its claim
\* ends, whatever is set up, restored or interrupted on the others; the device
\* nodes its container was given belong to that driver.
PreparedStaysBound ==
    \A d \in Devices : rec[d] # NoRecord /\ d \notin ending =>
        /\ rec[d].driver \in Drivers => drv[d] = rec[d].driver
        /\ rec[d].driver = DefaultDriver => drv[d] \notin DpdkDrivers \cup {NoDriver}
        /\ rec[d].driver = "vfio-pci" => "vfio" \in rec[d].nodes /\ VfioModules \subseteq loaded
        /\ "rdma" \in rec[d].nodes => RdmaDevice(d)

\* A prepare that fails leaves the device on the driver it found, unless one of
\* its own bind calls failed: every error path after the bind goes through
\* restoreDriverOnError.
FailedPrepareRestores ==
    pc = "reply" /\ op = "prepare" /\ result = "error" =>
        /\ after = "none" => drv[dev] = start
        /\ after # "none" /\ last.ok /\ start # NoDriver => drv[dev] = start

\* Each field that Override merges has the value of the entry of the highest
\* precedence that sets it: claim before class, later before earlier.
PrecedenceRespected ==
    pc = "bind" => \A f \in Overridden :
        SetByHighest(cfg, entries, RequestOf[dev], f)

\* The same for every documented field of a VfConfig, the vhost mount and the
\* namespace of the network attachment definition included.
EveryFieldApplies ==
    pc = "bind" => \A f \in Fields : SetByHighest(cfg, entries, RequestOf[dev], f)

\* The code can bind the driver a device had: not a DPDK driver it has no
\* modules for, not vfio-pci without an override or with built-in modules.
Restorable(d) ==
    rec[d].orig \in DpdkDrivers =>
        /\ rec[d].orig = "vfio-pci" /\ d \in Overridable
        /\ VfioModules \cap BuiltIn = {}

\* Every device whose claim has ended is restored in the end, whatever failed
\* or crashed at which write: no half-finished bind blocks the retry.
EventuallyRestored ==
    \A d \in Devices : d \in ending /\ Restorable(d) ~> d \notin ending
=============================================================================
