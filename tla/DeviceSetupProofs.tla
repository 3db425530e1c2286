-------------------------- MODULE DeviceSetupProofs -------------------------
(***************************************************************************)
(* Theorems about DeviceSetup: the sysfs writes of a bind call have the    *)
(* outcomes DriverBinding promises, and no override, failure or crash in   *)
(* between moves a prepared device.  They rest on one inductive invariant  *)
(* that says where the device of the running call is at each step.  Last,  *)
(* the merge of the configurations of a claim respects their precedence.   *)
(***************************************************************************)
EXTENDS DeviceSetup, TLAPS, WellFoundedInduction

\* The steps of applyConfigOnDevice that follow the bind.
AfterBind == {"vhost", "vfio", "rdma", "record"}

\* Device d is on the driver that a config asks for as x.
IsBound(d, x) ==
    /\ x \in Drivers => drv[d] = x
    /\ x = DefaultDriver => drv[d] \notin DpdkDrivers \cup {NoDriver}

\* The device of the running call and the configuration of its claim.
CallInv ==
    /\ pc = "idle" => after = "none" /\ result = "ok" /\ nodes = {}
    /\ pc # "idle" => op # "none"
    /\ pc = "config" => entries \in EntryLists
    /\ pc \in {"config", "bind"} \cup AfterBind => op = "prepare"
    /\ cfg["driver"] \in ConfigDriver

\* Inside a bind call: what is asked for, and the driver of the device.
BindInv ==
    pc \in BindSteps =>
        /\ ask # NoDriver /\ after # "none"
        /\ pc \in {"default", "reset", "probe"} => ask = DefaultDriver
        /\ pc \in {"modules", "check", "override", "attach", "clear"} => ask # DefaultDriver
        /\ pc \in {"default", "modules", "check", "unbind"} => drv[dev] = before
        /\ pc \in {"override", "attach", "reset", "probe"} => drv[dev] = NoDriver
        /\ pc = "clear" => drv[dev] = ask
        /\ ask = DefaultDriver /\ pc # "default" => before \in DpdkDrivers \cup {NoDriver}
        /\ pc = "probe" => override[dev] = NoDriver
        /\ ask = "vfio-pci" /\ pc # "modules" => VfioModules \subseteq loaded

\* A device without the file has no override.
NoFileNoOverride == \A d \in Devices \ Overridable : override[d] = NoDriver

\* A prepare: its device has no record yet and, up to the bind, its old driver;
\* what the steps after the bind have established.
PrepareInv ==
    op = "prepare" =>
        /\ pc # "reply" => rec[dev] = NoRecord
        /\ pc \in {"config", "bind"} =>
              after = "none" /\ result = "ok" /\ nodes = {} /\ drv[dev] = start
        /\ pc \in BindSteps =>
              /\ cfg["driver"] # Unset /\ orig = start /\ after \in {"setup", "undo"}
              /\ after = "setup" => ask = cfg["driver"] /\ result = "ok" /\ nodes = {}
              /\ after = "undo" => ask = RestoreAsk(orig)
        /\ pc \in AfterBind =>
              /\ result = "ok" /\ IsBound(dev, cfg["driver"])
              /\ IF cfg["driver"] = Unset
                   THEN after = "none" /\ drv[dev] = start
                   ELSE after = "setup" /\ orig = start
              /\ cfg["driver"] = "vfio-pci" =>
                    /\ VfioModules \subseteq loaded
                    /\ pc \in {"rdma", "record"} => "vfio" \in nodes
              /\ "rdma" \in nodes => pc = "record" /\ RdmaDevice(dev)

\* An unprepare: its claim has ended.
UnprepareInv ==
    op = "unprepare" =>
        /\ dev \in ending /\ pc \in BindSteps \cup {"reply"}
        /\ pc \in BindSteps => after = "restore"

SetupInv ==
    /\ TypeOK /\ CallInv /\ BindInv /\ NoFileNoOverride /\ LeftoverOverrideHarmless
    /\ PrepareInv /\ UnprepareInv /\ PreparedStaysBound /\ FailedPrepareRestores

-----------------------------------------------------------------------------
(* Facts about one state, and what a step leaves alone *)

\* Device d is as it was, or no claim can rely on it.
LeftAlone(d) ==
    \/ drv'[d] = drv[d] /\ rec'[d] = rec[d] /\ (d \in ending => d \in ending')
    \/ rec'[d] = NoRecord
    \/ d \in ending'

\* What a step inside a bind call keeps: all but the driver and the override of
\* the call's device, and the modules loaded.
BindFrame ==
    /\ UNCHANGED <<rdmaCapable, ending, callVars, setupVars, bindVars>>
    /\ drv' \in [Devices -> BoundDriver] /\ override' \in [Devices -> BoundDriver]
    /\ \A d \in Devices \ {dev} : drv'[d] = drv[d]
    /\ loaded \subseteq loaded' /\ loaded' \subseteq Modules
    /\ NoFileNoOverride' /\ LeftoverOverrideHarmless'

\* A device inside a bind call has no record or its claim has ended.
LEMMA BoundIsFree ==
  ASSUME SetupInv, pc \in BindSteps
  PROVE  /\ dev \in Devices /\ op \in {"prepare", "unprepare"}
         /\ rec[dev] = NoRecord \/ dev \in ending
BY SetupAssumption
   DEF SetupInv, TypeOK, CallInv, PrepareInv, UnprepareInv, BindSteps

\* A step that leaves every device alone keeps the prepared ones bound.
LEMMA PreparedKept ==
  ASSUME PreparedStaysBound, loaded \subseteq loaded', \A d \in Devices : LeftAlone(d)
  PROVE  PreparedStaysBound'
BY DEF PreparedStaysBound, LeftAlone, RdmaDevice

\* A bind call returns, with success only when the modules were looked for and
\* the device is on the driver asked for.
LEMMA ReturnKeeps ==
  ASSUME SetupInv, pc \in BindSteps, BindFrame, NEW ok \in BOOLEAN, Return(ok),
         ok => IsBound(dev, ask)' /\ pc # "modules"
  PROVE  SetupInv'
<1>1. /\ dev \in Devices /\ op \in {"prepare", "unprepare"}
      /\ rec[dev] = NoRecord \/ dev \in ending
  BY BoundIsFree
<1>2. rec' \in {rec, [rec EXCEPT ![dev] = NoRecord]} /\ pc' \in {"vhost", "reply"}
  BY DEF Return
<1>3. TypeOK'
  <2>1. rec' \in [Devices -> [driver : ConfigDriver \cup {"none"}, orig : BoundDriver,
                              nodes : SUBSET {"vfio", "vhost", "rdma"}]]
    BY <1>1, <1>2 DEF SetupInv, TypeOK, NoRecord, BoundDriver
  <2> QED
    BY <1>1, <1>2, <2>1, SetupAssumption
    DEF SetupInv, TypeOK, BindFrame, Return, callVars, setupVars, bindVars, BindSteps
<1>4. CallInv' /\ BindInv' /\ UnprepareInv'
  BY <1>1, <1>2 DEF SetupInv, CallInv, BindInv, UnprepareInv, PrepareInv, BindFrame,
     Return, callVars, setupVars, bindVars, BindSteps, AfterBind
<1>5. PrepareInv'
  BY <1>1, <1>2 DEF SetupInv, BindInv, PrepareInv, BindFrame, Return, callVars,
     setupVars, bindVars, BindSteps, AfterBind, IsBound, RdmaDevice
<1>6. PreparedStaysBound'
  <2>1. \A d \in Devices : LeftAlone(d)
    BY <1>1, <1>2 DEF SetupInv, TypeOK, BindFrame, LeftAlone
  <2> QED
    BY <2>1, PreparedKept DEF SetupInv, BindFrame
<1>7. FailedPrepareRestores'
  BY <1>1, <1>2, DriverAssumption
  DEF SetupInv, TypeOK, PrepareInv, FailedPrepareRestores, BindFrame, Return, callVars,
      setupVars, bindVars, BindSteps, IsBound, RestoreAsk, BoundDriver
<1> QED
  BY <1>3, <1>4, <1>5, <1>6, <1>7 DEF SetupInv, BindFrame

\* A bind call goes on with its next sysfs access.
LEMMA GotoKeeps ==
  ASSUME SetupInv, pc \in BindSteps, BindFrame, NEW l \in BindSteps, Goto(l), BindInv'
  PROVE  SetupInv'
<1>1. /\ dev \in Devices /\ op \in {"prepare", "unprepare"}
      /\ rec[dev] = NoRecord \/ dev \in ending
  BY BoundIsFree
<1>2. TypeOK'
  BY <1>1, SetupAssumption
  DEF SetupInv, TypeOK, BindFrame, Goto, callVars, setupVars, bindVars, BindSteps
<1>3. CallInv' /\ UnprepareInv' /\ FailedPrepareRestores'
  BY <1>1 DEF SetupInv, CallInv, UnprepareInv, FailedPrepareRestores, BindFrame, Goto,
     callVars, setupVars, bindVars, BindSteps, AfterBind
<1>4. PrepareInv'
  BY <1>1 DEF SetupInv, PrepareInv, BindFrame, Goto, callVars, setupVars, bindVars,
     BindSteps, AfterBind
<1>5. PreparedStaysBound'
  <2>1. \A d \in Devices : LeftAlone(d)
    BY <1>1 DEF SetupInv, TypeOK, BindFrame, LeftAlone, Goto
  <2> QED
    BY <2>1, PreparedKept DEF SetupInv, BindFrame
<1> QED
  BY <1>2, <1>3, <1>4, <1>5 DEF SetupInv, BindFrame

-----------------------------------------------------------------------------
(* The steps of a bind call.  Each keeps BindFrame; then it goes on and       *)
(* BindInv holds at the next step, or it returns.                             *)

\* One sysfs access or the module check of a bind call.
BindStep ==
    \/ BindDefaultDriver \/ EnsureDpdkModuleLoaded \/ CheckDriver \/ UnbindDriver
    \/ OverrideDriver \/ BindDriver \/ ClearOverride \/ ResetDefault \/ ProbeDriver

\* A step of a bind call touches no other device and no record, and whatever it
\* leaves in the override is harmless.
LEMMA BindStepFrame ==
  ASSUME SetupInv, BindStep PROVE pc \in BindSteps /\ BindFrame
<1>1. pc \in BindSteps /\ dev \in Devices
  BY BoundIsFree DEF BindStep, BindDefaultDriver, EnsureDpdkModuleLoaded, CheckDriver,
     UnbindDriver, OverrideDriver, BindDriver, ClearOverride, ResetDefault, ProbeDriver,
     InBind, At, BindSteps
<1> USE DEF SetupInv, TypeOK, NoFileNoOverride, LeftoverOverrideHarmless, BindFrame,
        InBind, At
<1>2. CASE BindDefaultDriver
  BY <1>1, <1>2 DEF BindDefaultDriver, SysfsError
<1>3. CASE EnsureDpdkModuleLoaded
  BY <1>1, <1>3, SetupAssumption DEF EnsureDpdkModuleLoaded, LoadModules, Modules
<1>4. CASE CheckDriver
  BY <1>1, <1>4 DEF CheckDriver, SysfsError
<1>5. CASE UnbindDriver
  BY <1>1, <1>5 DEF UnbindDriver, SysfsError, BoundDriver
<1>6. CASE OverrideDriver
  BY <1>1, <1>6 DEF BindInv, OverrideDriver, SysfsError, SetDriverOverride,
     BoundDriver, ConfigDriver, BindSteps
<1>7. CASE BindDriver
  BY <1>1, <1>7 DEF BindInv, BindDriver, Accepts, BoundDriver, ConfigDriver, BindSteps
<1>8. CASE ClearOverride
  BY <1>1, <1>8 DEF ClearOverride, SysfsError, SetDriverOverride, BoundDriver
<1>9. CASE ResetDefault
  BY <1>1, <1>9 DEF ResetDefault, ResetForProbe, SysfsError, SetDriverOverride,
     BoundDriver
<1>10. CASE ProbeDriver
  BY <1>1, <1>10, DriverAssumption DEF BindInv, ProbeDriver, SysfsError, BoundDriver,
     BindSteps
<1> QED
  BY <1>1, <1>2, <1>3, <1>4, <1>5, <1>6, <1>7, <1>8, <1>9, <1>10 DEF BindStep

\* BindDefaultDriver: a device on a kernel driver is left there.
LEMMA BindDefaultDriverKeeps ==
  ASSUME SetupInv, BindDefaultDriver PROVE SetupInv'
<1>1. pc = "default" /\ pc \in BindSteps /\ BindFrame
  BY BindStepFrame DEF BindStep, BindDefaultDriver, InBind, At
<1>2. ASSUME NEW l \in {"reset", "unbind"}, Goto(l), UNCHANGED <<drv, loaded>>,
             drv[dev] \in DpdkDrivers \cup {NoDriver}, l = "reset" <=> drv[dev] = NoDriver
      PROVE  SetupInv'
  <2>1. BindInv'
    BY <1>1, <1>2 DEF SetupInv, BindInv, BindFrame, Goto, bindVars, callVars, BindSteps,
       DefaultDriver
  <2> QED
    BY <1>1, <1>2, <2>1, GotoKeeps DEF BindSteps
<1>3. ASSUME Return(TRUE), UNCHANGED drv, drv[dev] \notin DpdkDrivers \cup {NoDriver}
      PROVE  SetupInv'
  <2>1. IsBound(dev, ask)'
    BY <1>1, <1>3, DriverAssumption
    DEF SetupInv, BindInv, IsBound, BindFrame, bindVars, callVars
  <2> QED
    BY <1>1, <1>3, <2>1, ReturnKeeps
<1>4. ASSUME Return(FALSE) PROVE SetupInv'
  BY <1>1, <1>4, ReturnKeeps
<1> QED
  BY <1>2, <1>3, <1>4 DEF BindDefaultDriver, SysfsError

\* EnsureDpdkModuleLoaded: modules are only added.
LEMMA EnsureDpdkModuleLoadedKeeps ==
  ASSUME SetupInv, EnsureDpdkModuleLoaded PROVE SetupInv'
<1>1. pc = "modules" /\ pc \in BindSteps /\ BindFrame
  BY BindStepFrame DEF BindStep, EnsureDpdkModuleLoaded, InBind, At
<1>2. ASSUME Goto("check"), UNCHANGED drv, ask = "vfio-pci" => VfioModules \subseteq loaded'
      PROVE  SetupInv'
  <2>1. BindInv'
    BY <1>1, <1>2 DEF SetupInv, BindInv, BindFrame, Goto, bindVars, callVars, BindSteps
  <2> QED
    BY <1>1, <1>2, <2>1, GotoKeeps DEF BindSteps
<1>3. ASSUME Return(FALSE) PROVE SetupInv'
  BY <1>1, <1>3, ReturnKeeps
<1> QED
  BY <1>2, <1>3 DEF EnsureDpdkModuleLoaded, LoadModules, DpdkDrivers

\* CheckDriver: the call returns when the device is where it should be.
LEMMA CheckDriverKeeps ==
  ASSUME SetupInv, CheckDriver PROVE SetupInv'
<1>1. pc = "check" /\ pc \in BindSteps /\ BindFrame
  BY BindStepFrame DEF BindStep, CheckDriver, InBind, At
<1>2. ASSUME NEW l \in {"override", "unbind"}, Goto(l), UNCHANGED <<drv, loaded>>,
             l = "override" <=> drv[dev] = NoDriver
      PROVE  SetupInv'
  <2>1. BindInv'
    BY <1>1, <1>2 DEF SetupInv, BindInv, BindFrame, Goto, bindVars, callVars, BindSteps
  <2> QED
    BY <1>1, <1>2, <2>1, GotoKeeps DEF BindSteps
<1>3. ASSUME Return(TRUE), UNCHANGED drv, drv[dev] = ask PROVE SetupInv'
  <2>1. IsBound(dev, ask)'
    BY <1>1, <1>3 DEF SetupInv, BindInv, IsBound, BindFrame, bindVars, callVars
  <2> QED
    BY <1>1, <1>3, <2>1, ReturnKeeps
<1>4. ASSUME Return(FALSE) PROVE SetupInv'
  BY <1>1, <1>4, ReturnKeeps
<1> QED
  BY <1>2, <1>3, <1>4 DEF CheckDriver, SysfsError, UnbindFirst

\* UnbindDriver: the device is on no driver afterwards.
LEMMA UnbindDriverKeeps ==
  ASSUME SetupInv, UnbindDriver PROVE SetupInv'
<1>0. dev \in Devices
  BY BoundIsFree DEF UnbindDriver, InBind, At, BindSteps
<1>1. pc = "unbind" /\ pc \in BindSteps /\ BindFrame
  BY BindStepFrame DEF BindStep, UnbindDriver, InBind, At
<1>2. ASSUME NEW l \in {"reset", "override"}, Goto(l), UNCHANGED loaded,
             drv'[dev] = NoDriver, l = "reset" <=> ask = DefaultDriver
      PROVE  SetupInv'
  <2>1. BindInv'
    BY <1>1, <1>2 DEF SetupInv, BindInv, BindFrame, Goto, bindVars, callVars, BindSteps
  <2> QED
    BY <1>1, <1>2, <2>1, GotoKeeps DEF BindSteps
<1>3. ASSUME Return(FALSE) PROVE SetupInv'
  BY <1>1, <1>3, ReturnKeeps
<1> QED
  BY <1>0, <1>2, <1>3 DEF SetupInv, TypeOK, UnbindDriver, SysfsError

\* OverrideDriver: the override is written while the device is unbound.
LEMMA OverrideDriverKeeps ==
  ASSUME SetupInv, OverrideDriver PROVE SetupInv'
<1>0. dev \in Devices
  BY BoundIsFree DEF OverrideDriver, InBind, At, BindSteps
<1>1. pc = "override" /\ pc \in BindSteps /\ BindFrame
  BY BindStepFrame DEF BindStep, OverrideDriver, InBind, At
<1>2. ASSUME Goto("attach"), UNCHANGED <<drv, loaded>> PROVE SetupInv'
  <2>1. BindInv'
    BY <1>1, <1>2 DEF SetupInv, BindInv, BindFrame, Goto, bindVars, callVars, BindSteps
  <2> QED
    BY <1>1, <1>2, <2>1, GotoKeeps DEF BindSteps
<1>3. ASSUME Return(FALSE) PROVE SetupInv'
  BY <1>1, <1>3, ReturnKeeps
<1> QED
  BY <1>2, <1>3 DEF OverrideDriver, SysfsError

\* BindDriver: the bind file takes the device only for the driver of its override.
LEMMA BindDriverKeeps ==
  ASSUME SetupInv, BindDriver PROVE SetupInv'
<1>0. dev \in Devices
  BY BoundIsFree DEF BindDriver, InBind, At, BindSteps
<1>1. pc = "attach" /\ pc \in BindSteps /\ BindFrame
  BY BindStepFrame DEF BindStep, BindDriver, InBind, At
<1>2. ASSUME Goto("clear"), drv'[dev] = ask, UNCHANGED loaded PROVE SetupInv'
  <2>1. BindInv'
    BY <1>1, <1>2 DEF SetupInv, BindInv, BindFrame, Goto, bindVars, callVars, BindSteps
  <2> QED
    BY <1>1, <1>2, <2>1, GotoKeeps DEF BindSteps
<1>3. ASSUME Return(FALSE) PROVE SetupInv'
  BY <1>1, <1>3, ReturnKeeps
<1> QED
  BY <1>0, <1>2, <1>3 DEF SetupInv, TypeOK, BindDriver

\* ClearOverride: the device is on its driver whether or not the reset fails.
LEMMA ClearOverrideKeeps ==
  ASSUME SetupInv, ClearOverride PROVE SetupInv'
<1>0. dev \in Devices
  BY BoundIsFree DEF ClearOverride, InBind, At, BindSteps
<1>1. pc = "clear" /\ pc \in BindSteps /\ BindFrame
  BY BindStepFrame DEF BindStep, ClearOverride, InBind, At
<1>2. IsBound(dev, ask)'
  BY <1>1 DEF SetupInv, BindInv, IsBound, BindFrame, bindVars, callVars, ClearOverride,
     SysfsError
<1> QED
  BY <1>1, <1>2, ReturnKeeps DEF ClearOverride, SysfsError

\* ResetDefault: nothing but the host driver is left to probe for.
LEMMA ResetDefaultKeeps ==
  ASSUME SetupInv, ResetDefault PROVE SetupInv'
<1>0. dev \in Devices
  BY BoundIsFree DEF ResetDefault, InBind, At, BindSteps
<1>1. pc = "reset" /\ pc \in BindSteps /\ BindFrame
  BY BindStepFrame DEF BindStep, ResetDefault, InBind, At
<1>2. ASSUME Goto("probe"), ResetForProbe, UNCHANGED <<drv, loaded>> PROVE SetupInv'
  <2>1. override'[dev] = NoDriver
    BY <1>0, <1>2 DEF SetupInv, TypeOK, NoFileNoOverride, ResetForProbe, SetDriverOverride
  <2>2. BindInv'
    BY <1>1, <1>2, <2>1
    DEF SetupInv, BindInv, BindFrame, Goto, bindVars, callVars, BindSteps
  <2> QED
    BY <1>1, <1>2, <2>2, GotoKeeps DEF BindSteps
<1>3. ASSUME Return(FALSE) PROVE SetupInv'
  BY <1>1, <1>3, ReturnKeeps
<1> QED
  BY <1>2, <1>3 DEF ResetDefault, SysfsError

\* ProbeDriver: drivers_probe finds the host driver.
LEMMA ProbeDriverKeeps ==
  ASSUME SetupInv, ProbeDriver PROVE SetupInv'
<1>0. dev \in Devices
  BY BoundIsFree DEF ProbeDriver, InBind, At, BindSteps
<1>1. pc = "probe" /\ pc \in BindSteps /\ BindFrame
  BY BindStepFrame DEF BindStep, ProbeDriver, InBind, At
<1>2. ASSUME Return(TRUE), drv'[dev] = HostDriver[dev] PROVE SetupInv'
  <2>1. IsBound(dev, ask)'
    BY <1>0, <1>1, <1>2, DriverAssumption
    DEF SetupInv, BindInv, IsBound, BindFrame, bindVars, callVars
  <2> QED
    BY <1>1, <1>2, <2>1, ReturnKeeps
<1>3. ASSUME Return(FALSE) PROVE SetupInv'
  BY <1>1, <1>3, ReturnKeeps
<1> QED
  BY <1>0, <1>1, <1>2, <1>3 DEF SetupInv, TypeOK, BindInv, ProbeDriver, SysfsError

-----------------------------------------------------------------------------
(* The steps around the bind call *)

\* applyConfigOnDevice resolves the config; nothing is changed on the host.
LEMMA ResolveConfigKeeps ==
  ASSUME SetupInv, ResolveConfig PROVE SetupInv'
<1> USE DEF ResolveConfig, At, Goto, Fail, sysVars, recVars, callVars, bindVars
<1>1. dev \in Devices /\ op = "prepare"
  BY DEF SetupInv, TypeOK, CallInv
<1>2. TypeOK'
  BY <1>1, SetupAssumption DEF SetupInv, TypeOK, BindSteps
<1>3. CallInv' /\ BindInv' /\ UnprepareInv'
  BY <1>1, ConfigAssumption DEF SetupInv, CallInv, BindInv, UnprepareInv, BindSteps, AfterBind
<1>4. PrepareInv' /\ FailedPrepareRestores'
  BY <1>1 DEF SetupInv, PrepareInv, FailedPrepareRestores, BindSteps, AfterBind
<1>5. NoFileNoOverride' /\ LeftoverOverrideHarmless' /\ PreparedStaysBound'
  BY PreparedKept DEF SetupInv, NoFileNoOverride, LeftoverOverrideHarmless, LeftAlone
<1> QED
  BY <1>2, <1>3, <1>4, <1>5 DEF SetupInv

\* BindDeviceDriver keeps the original driver before the call begins.
LEMMA BindDeviceDriverKeeps ==
  ASSUME SetupInv, BindDeviceDriver PROVE SetupInv'
<1> USE DEF BindDeviceDriver, At, Goto, Fail, Call, KeepOriginal, sysVars, recVars,
        bindVars
<1>1. dev \in Devices /\ op = "prepare"
  BY DEF SetupInv, TypeOK, CallInv
<1>2. TypeOK'
  BY <1>1, SetupAssumption DEF SetupInv, TypeOK, CallInv, BindSteps, BoundDriver
<1>3. CallInv' /\ UnprepareInv'
  BY <1>1 DEF SetupInv, CallInv, UnprepareInv, BindSteps, AfterBind
<1>4. BindInv'
  BY <1>1 DEF SetupInv, BindInv, BindSteps, NoDriver, Unset, DefaultDriver
<1>5. PrepareInv' /\ FailedPrepareRestores'
  BY <1>1, DriverAssumption
  DEF SetupInv, PrepareInv, FailedPrepareRestores, BindSteps, AfterBind, IsBound,
      NoDriver, Unset, DefaultDriver
<1>6. NoFileNoOverride' /\ LeftoverOverrideHarmless' /\ PreparedStaysBound'
  BY PreparedKept DEF SetupInv, NoFileNoOverride, LeftoverOverrideHarmless, LeftAlone
<1> QED
  BY <1>2, <1>3, <1>4, <1>5, <1>6 DEF SetupInv

\* A step after the bind fails: restoreDriverOnError, or nothing to restore.
LEMMA RestoreOnErrorKeeps ==
  ASSUME SetupInv, pc \in AfterBind, RestoreDriverOnError,
         UNCHANGED <<drv, override, rdmaCapable, ending, callVars, cfg, orig>>,
         loaded \subseteq loaded', loaded' \subseteq Modules,
         nodes' \in SUBSET {"vfio", "vhost", "rdma"}
  PROVE  SetupInv'
<1> USE DEF RestoreDriverOnError, Fail, callVars, bindVars
<1>1. dev \in Devices /\ op = "prepare"
  BY DEF SetupInv, TypeOK, CallInv, AfterBind
<1>2. TypeOK'
  BY <1>1, SetupAssumption
  DEF SetupInv, TypeOK, BindSteps, BoundDriver, ConfigDriver, RestoreAsk
<1>3. CallInv' /\ UnprepareInv'
  BY <1>1 DEF SetupInv, CallInv, UnprepareInv, BindSteps, AfterBind
<1>4. BindInv'
  BY <1>1, DriverAssumption
  DEF SetupInv, TypeOK, BindInv, BindSteps, RestoreAsk, NoDriver, DefaultDriver, BoundDriver
<1>5. PrepareInv' /\ FailedPrepareRestores'
  BY <1>1 DEF SetupInv, PrepareInv, FailedPrepareRestores, BindSteps, AfterBind
<1>6. NoFileNoOverride' /\ LeftoverOverrideHarmless' /\ PreparedStaysBound'
  BY PreparedKept DEF SetupInv, NoFileNoOverride, LeftoverOverrideHarmless, LeftAlone
<1> QED
  BY <1>2, <1>3, <1>4, <1>5, <1>6 DEF SetupInv

\* A step after the bind goes on to the next one.
LEMMA SetupGoesOn ==
  ASSUME SetupInv, pc \in AfterBind, NEW l \in {"vfio", "rdma", "record"}, Goto(l),
         UNCHANGED <<drv, override, rdmaCapable, ending, callVars, cfg, orig, bindVars>>,
         loaded \subseteq loaded', loaded' \subseteq Modules,
         nodes' \in SUBSET {"vfio", "vhost", "rdma"}, nodes \subseteq nodes',
         cfg["driver"] = "vfio-pci" /\ l \in {"rdma", "record"} => "vfio" \in nodes',
         "rdma" \in nodes' => l = "record" /\ RdmaDevice(dev)
  PROVE  SetupInv'
<1> USE DEF Goto, callVars, bindVars
<1>1. dev \in Devices /\ op = "prepare"
  BY DEF SetupInv, TypeOK, CallInv, AfterBind
<1>2. TypeOK'
  BY <1>1, SetupAssumption DEF SetupInv, TypeOK, BindSteps
<1>3. CallInv' /\ BindInv' /\ UnprepareInv' /\ FailedPrepareRestores'
  BY <1>1 DEF SetupInv, CallInv, BindInv, UnprepareInv, FailedPrepareRestores, BindSteps,
     AfterBind
<1>4. PrepareInv'
  BY <1>1 DEF SetupInv, PrepareInv, BindSteps, AfterBind, IsBound, RdmaDevice
<1>5. NoFileNoOverride' /\ LeftoverOverrideHarmless' /\ PreparedStaysBound'
  BY PreparedKept DEF SetupInv, NoFileNoOverride, LeftoverOverrideHarmless, LeftAlone
<1> QED
  BY <1>2, <1>3, <1>4, <1>5 DEF SetupInv

\* Loading the vhost modules moves no device.
LEMMA EnsureVhostModulesLoadedKeeps ==
  ASSUME SetupInv, EnsureVhostModulesLoaded PROVE SetupInv'
<1> USE DEF EnsureVhostModulesLoaded, At
<1>1. /\ pc \in AfterBind /\ "rdma" \notin nodes /\ nodes \in SUBSET {"vfio", "vhost", "rdma"}
      /\ nodes' \in {nodes, nodes \cup {"vhost"}}
  BY DEF SetupInv, TypeOK, CallInv, PrepareInv, AfterBind
<1>2. loaded \subseteq loaded' /\ loaded' \subseteq Modules
  BY DEF SetupInv, TypeOK, LoadModules, Modules
<1> QED
  BY <1>1, <1>2, RestoreOnErrorKeeps, SetupGoesOn

\* Nor does the look-up of the VFIO group.
LEMMA GetVFIODeviceFileKeeps ==
  ASSUME SetupInv, GetVFIODeviceFile PROVE SetupInv'
<1> USE DEF GetVFIODeviceFile, At, sysVars
<1>1. /\ pc \in AfterBind /\ "rdma" \notin nodes /\ nodes \in SUBSET {"vfio", "vhost", "rdma"}
      /\ nodes' \in {nodes, nodes \cup {"vfio"}} /\ loaded \in SUBSET Modules
  BY DEF SetupInv, TypeOK, CallInv, PrepareInv, AfterBind
<1> QED
  BY <1>1, RestoreOnErrorKeeps, SetupGoesOn

\* Nor does the look-up of the RDMA devices.
LEMMA HandleRDMADeviceKeeps ==
  ASSUME SetupInv, HandleRDMADevice PROVE SetupInv'
<1> USE DEF HandleRDMADevice, At, sysVars
<1>1. /\ pc \in AfterBind /\ "rdma" \notin nodes /\ nodes \in SUBSET {"vfio", "vhost", "rdma"}
      /\ nodes' \in {nodes, nodes \cup {"rdma"}} /\ loaded \in SUBSET Modules
      /\ cfg["driver"] = "vfio-pci" => "vfio" \in nodes
  BY DEF SetupInv, TypeOK, CallInv, PrepareInv, AfterBind
<1> QED
  BY <1>1, RestoreOnErrorKeeps, SetupGoesOn

\* The record says what the steps before it have established.
LEMMA RecordKeeps ==
  ASSUME SetupInv, Record PROVE SetupInv'
<1> USE DEF Record, At, sysVars, callVars, setupVars, bindVars
<1>1. dev \in Devices /\ op = "prepare" /\ result = "ok"
  BY DEF SetupInv, TypeOK, CallInv, PrepareInv, AfterBind
<1>2. TypeOK'
  BY <1>1 DEF SetupInv, TypeOK, CallInv
<1>3. CallInv' /\ BindInv' /\ UnprepareInv' /\ PrepareInv' /\ FailedPrepareRestores'
  BY <1>1 DEF SetupInv, CallInv, BindInv, UnprepareInv, PrepareInv, FailedPrepareRestores,
     BindSteps, AfterBind
<1>4. NoFileNoOverride' /\ LeftoverOverrideHarmless'
  BY DEF SetupInv, NoFileNoOverride, LeftoverOverrideHarmless
<1>5. PreparedStaysBound'
  BY <1>1 DEF SetupInv, TypeOK, PreparedStaysBound, PrepareInv, IsBound, RdmaDevice,
     AfterBind
<1> QED
  BY <1>2, <1>3, <1>4, <1>5 DEF SetupInv

\* No call is running after the answer and after a restart.
LEMMA IdleKeeps ==
  ASSUME SetupInv, Idle, UNCHANGED <<drv, override, loaded, rec>>,
         rdmaCapable' \in SUBSET Devices, ending' \in SUBSET Devices,
         \A d \in Devices : LeftAlone(d)
  PROVE  SetupInv'
<1> USE DEF Idle
<1>1. TypeOK'
  BY SetupAssumption
  DEF SetupInv, TypeOK, BoundDriver, ConfigDriver, BindSteps
<1>2. CallInv' /\ BindInv' /\ UnprepareInv' /\ PrepareInv' /\ FailedPrepareRestores'
  BY DEF SetupInv, CallInv, BindInv, UnprepareInv, PrepareInv, FailedPrepareRestores,
     BindSteps, AfterBind, DefaultVfConfig, Fields, Unset, ConfigDriver, NoDriver
<1>3. NoFileNoOverride' /\ LeftoverOverrideHarmless' /\ PreparedStaysBound'
  BY PreparedKept DEF SetupInv, NoFileNoOverride, LeftoverOverrideHarmless
<1> QED
  BY <1>1, <1>2, <1>3 DEF SetupInv

\* The answer ends the call.
LEMMA ReplyKeeps ==
  ASSUME SetupInv, Reply PROVE SetupInv'
BY IdleKeeps DEF Reply, sysVars, SetupInv, TypeOK, LeftAlone

\* A crash ends the call wherever its device is: such a device has no record, or
\* its claim is ending.
LEMMA CrashRestartKeeps ==
  ASSUME SetupInv, CrashRestart PROVE SetupInv'
BY IdleKeeps DEF CrashRestart, SetupInv, TypeOK, LeftAlone

\* A prepare begins with a device that has no record.
LEMMA PrepareDeviceKeeps ==
  ASSUME SetupInv, NEW d \in Devices, PrepareDevice(d) PROVE SetupInv'
<1> USE DEF PrepareDevice, At, Goto, sysVars, setupVars, bindVars
<1>1. TypeOK'
  BY SetupAssumption DEF SetupInv, TypeOK, BindSteps
<1>2. CallInv' /\ BindInv' /\ UnprepareInv' /\ FailedPrepareRestores'
  BY DEF SetupInv, CallInv, BindInv, UnprepareInv, FailedPrepareRestores, BindSteps,
     AfterBind
<1>3. PrepareInv'
  BY DEF SetupInv, PrepareInv, CallInv, BindSteps, AfterBind
<1>4. NoFileNoOverride' /\ LeftoverOverrideHarmless' /\ PreparedStaysBound'
  BY PreparedKept DEF SetupInv, NoFileNoOverride, LeftoverOverrideHarmless, LeftAlone
<1> QED
  BY <1>1, <1>2, <1>3, <1>4 DEF SetupInv

\* The end of a claim moves no device.
LEMMA EndClaimKeeps ==
  ASSUME SetupInv, NEW d \in Devices, EndClaim(d) PROVE SetupInv'
<1> USE DEF EndClaim, sysVars, callVars, setupVars, bindVars
<1>1. TypeOK'
  BY DEF SetupInv, TypeOK
<1>2. CallInv' /\ BindInv' /\ UnprepareInv' /\ FailedPrepareRestores'
  BY DEF SetupInv, CallInv, BindInv, UnprepareInv, FailedPrepareRestores
<1>3. PrepareInv'
  BY DEF SetupInv, PrepareInv, IsBound, RdmaDevice
<1>4. NoFileNoOverride' /\ LeftoverOverrideHarmless' /\ PreparedStaysBound'
  BY PreparedKept DEF SetupInv, NoFileNoOverride, LeftoverOverrideHarmless, LeftAlone
<1> QED
  BY <1>1, <1>2, <1>3, <1>4 DEF SetupInv

\* An unprepare begins with the restore of its device, or is done at once.
LEMMA UnprepareDeviceKeeps ==
  ASSUME SetupInv, NEW d \in Devices, UnprepareDevice(d) PROVE SetupInv'
<1> USE DEF UnprepareDevice, At, Goto, sysVars, setupVars, bindVars
<1>1. rec[d] \in [driver : ConfigDriver \cup {"none"}, orig : BoundDriver,
                  nodes : SUBSET {"vfio", "vhost", "rdma"}]
  BY DEF SetupInv, TypeOK
<1>2. rec' \in {rec, [rec EXCEPT ![d] = NoRecord]}
  OBVIOUS
<1>3. TypeOK'
  <2>1. rec' \in [Devices -> [driver : ConfigDriver \cup {"none"}, orig : BoundDriver,
                              nodes : SUBSET {"vfio", "vhost", "rdma"}]]
    BY <1>2 DEF SetupInv, TypeOK, NoRecord, BoundDriver
  <2> QED
    BY <1>1, <2>1, SetupAssumption
    DEF SetupInv, TypeOK, RestoreAsk, ConfigDriver, BoundDriver, BindSteps
<1>4. CallInv' /\ UnprepareInv' /\ PrepareInv' /\ FailedPrepareRestores'
  BY DEF SetupInv, CallInv, UnprepareInv, PrepareInv, FailedPrepareRestores, BindSteps,
     AfterBind
<1>5. BindInv'
  BY <1>1, DriverAssumption
  DEF SetupInv, BindInv, BindSteps, RestoreAsk, NoDriver, DefaultDriver, BoundDriver
<1>6. NoFileNoOverride' /\ LeftoverOverrideHarmless' /\ PreparedStaysBound'
  <2>1. \A x \in Devices : LeftAlone(x)
    BY <1>2 DEF SetupInv, TypeOK, LeftAlone
  <2> QED
    BY <2>1, PreparedKept DEF SetupInv, NoFileNoOverride, LeftoverOverrideHarmless
<1> QED
  BY <1>3, <1>4, <1>5, <1>6 DEF SetupInv

-----------------------------------------------------------------------------
(* The invariant *)

\* The invariant holds at the first start.
LEMMA SetupInvInit ==
  ASSUME Init PROVE SetupInv
<1> USE DEF Init
<1>1. TypeOK
  BY SetupAssumption DEF TypeOK, NoRecord, BoundDriver, ConfigDriver, BindSteps
<1>2. CallInv /\ BindInv /\ UnprepareInv /\ PrepareInv /\ FailedPrepareRestores
  BY DEF CallInv, BindInv, UnprepareInv, PrepareInv, FailedPrepareRestores, BindSteps,
     AfterBind, DefaultVfConfig, Fields, Unset, ConfigDriver, NoDriver
<1>3. NoFileNoOverride /\ LeftoverOverrideHarmless /\ PreparedStaysBound
  BY DEF NoFileNoOverride, LeftoverOverrideHarmless, PreparedStaysBound
<1> QED
  BY <1>1, <1>2, <1>3 DEF SetupInv

\* Every step keeps the invariant.
LEMMA SetupInvNext ==
  ASSUME SetupInv, [Next]_vars PROVE SetupInv'
<1>1. ASSUME DriverStep PROVE SetupInv'
  BY <1>1, ResolveConfigKeeps, BindDeviceDriverKeeps, EnsureVhostModulesLoadedKeeps,
     GetVFIODeviceFileKeeps, HandleRDMADeviceKeeps, RecordKeeps, ReplyKeeps,
     BindDefaultDriverKeeps, EnsureDpdkModuleLoadedKeeps, CheckDriverKeeps,
     UnbindDriverKeeps, OverrideDriverKeeps, BindDriverKeeps, ClearOverrideKeeps,
     ResetDefaultKeeps, ProbeDriverKeeps DEF DriverStep
<1>2. CASE UNCHANGED vars
  BY <1>2 DEF vars, sysVars, recVars, callVars, setupVars, bindVars, SetupInv, TypeOK,
     CallInv, BindInv, NoFileNoOverride, LeftoverOverrideHarmless, PrepareInv,
     UnprepareInv, PreparedStaysBound, FailedPrepareRestores, IsBound, RdmaDevice
<1> QED
  BY <1>1, <1>2, PrepareDeviceKeeps, EndClaimKeeps, UnprepareDeviceKeeps,
     CrashRestartKeeps DEF Next

\* At every step of a setup, a restore and their bind calls the device is where
\* the code takes it to be, for any devices, drivers, configurations, faults and
\* crashes.
THEOREM SetupInvariant == Spec => []SetupInv
<1>1. Init => SetupInv
  BY SetupInvInit
<1>2. SetupInv /\ [Next]_vars => SetupInv'
  BY SetupInvNext
<1> QED
  BY <1>1, <1>2, PTL DEF Spec

\* setDriverOverride, unbind and bind of pkg/host: an override that a failed or
\* interrupted call left behind names no driver but the one its device is on.
THEOREM OverridesHarmless == Spec => []LeftoverOverrideHarmless
<1>1. SetupInv => LeftoverOverrideHarmless
  BY DEF SetupInv
<1> QED
  BY <1>1, SetupInvariant, PTL

\* applyConfigOnDevice and unprepareDevices: a prepared device stays on the
\* driver of its config, with the modules and device nodes that belong to it,
\* until its claim ends.
THEOREM PreparedDevicesStayBound == Spec => []PreparedStaysBound
<1>1. SetupInv => PreparedStaysBound
  BY DEF SetupInv
<1> QED
  BY <1>1, SetupInvariant, PTL

\* restoreDriverOnError: whichever step of a setup fails, the device goes back to
\* the driver it was found on, unless a bind call itself failed.
THEOREM FailedPreparesRestore == Spec => []FailedPrepareRestores
<1>1. SetupInv => FailedPrepareRestores
  BY DEF SetupInv
<1> QED
  BY <1>1, SetupInvariant, PTL

-----------------------------------------------------------------------------
(* The refinement: DeviceSetup implements DriverBinding *)

\* The device as the caller of a bind call sees it: where the call found it
\* until it returns.
SeenDrv == IF pc \in BindSteps THEN [drv EXCEPT ![dev] = before] ELSE drv

\* Inside a bind call the caller sees no change.
LEMMA BindStepUnseen ==
  ASSUME SetupInv, pc \in BindSteps, BindFrame, NEW l \in BindSteps, Goto(l)
  PROVE  SeenDrv' = SeenDrv /\ last' = last
<1>1. /\ dev \in Devices /\ dev' = dev /\ before' = before /\ pc' \in BindSteps
      /\ drv \in [Devices -> BoundDriver] /\ drv' \in [Devices -> BoundDriver]
  BY BoundIsFree DEF SetupInv, TypeOK, BindFrame, Goto, callVars, bindVars
<1>2. \A d \in Devices : [drv' EXCEPT ![dev] = before][d] = [drv EXCEPT ![dev] = before][d]
  BY <1>1 DEF BindFrame
<1>3. [drv' EXCEPT ![dev] = before] = [drv EXCEPT ![dev] = before]
  BY <1>1, <1>2
<1> QED
  BY <1>1, <1>3 DEF SeenDrv, Goto

\* A bind call that returns is a step of DriverBinding.
LEMMA ReturnSeen ==
  ASSUME SetupInv, pc \in BindSteps, BindFrame, NEW ok \in BOOLEAN, Return(ok),
         LET target == IF ask = DefaultDriver THEN DefaultFrom(dev, before) ELSE ask
         IN  IF ok THEN drv'[dev] = target ELSE drv'[dev] \in FailedBind(before, target)
  PROVE  Binding!Next
<1>1. dev \in Devices /\ ask \in Binding!Asks
  BY BoundIsFree
  DEF SetupInv, TypeOK, BindInv, ConfigDriver, Binding!Asks, Binding!DefaultDriver,
      DefaultDriver
<1>2. /\ SeenDrv = [drv EXCEPT ![dev] = before] /\ SeenDrv[dev] = before
      /\ SeenDrv' = drv' /\ drv' = [SeenDrv EXCEPT ![dev] = drv'[dev]]
  BY <1>1 DEF SetupInv, TypeOK, BindFrame, Return, SeenDrv, BindSteps
<1>3. last' = [dev |-> dev, ask |-> ask, ok |-> ok]
  BY DEF Return
<1> USE DEF Binding!DefaultFrom, DefaultFrom, Binding!FailedBind, FailedBind,
        Binding!DefaultDriver, DefaultDriver, Binding!NoDriver, NoDriver,
        Binding!DpdkDrivers, DpdkDrivers, Binding!Target, SeenDrv
<1>4. CASE ok
  <2>1. Binding!BindSucceeds(dev, ask)
    BY <1>2, <1>3, <1>4 DEF Binding!BindSucceeds
  <2> QED
    BY <1>1, <2>1 DEF Binding!Next
<1>5. CASE ~ok
  <2>1. Binding!BindFails(dev, ask)
    BY <1>2, <1>3, <1>5 DEF Binding!BindFails
  <2> QED
    BY <1>1, <2>1 DEF Binding!Next
<1> QED
  BY <1>4, <1>5

\* Every step of a bind call is one of these for the caller.
LEMMA BindStepSeen ==
  ASSUME SetupInv, BindStep
  PROVE  Binding!Next \/ (SeenDrv' = SeenDrv /\ last' = last)
<1> DEFINE target == IF ask = DefaultDriver THEN DefaultFrom(dev, before) ELSE ask
<1>1. pc \in BindSteps /\ BindFrame /\ dev \in Devices
  BY BindStepFrame, BoundIsFree
<1>2. SUFFICES ASSUME ~\E l \in BindSteps : Goto(l)
               PROVE  Binding!Next
  BY <1>1, BindStepUnseen
<1>3. ASSUME NEW ok \in BOOLEAN, Return(ok),
             IF ok THEN drv'[dev] = target ELSE drv'[dev] \in FailedBind(before, target)
      PROVE  Binding!Next
  BY <1>1, <1>3, ReturnSeen
<1> USE DEF SetupInv, TypeOK, BindInv, InBind, At, SysfsError, BindSteps, DefaultFrom,
        FailedBind
<1>4. CASE BindDefaultDriver
  BY <1>2, <1>3, <1>4 DEF BindDefaultDriver
<1>5. CASE EnsureDpdkModuleLoaded
  BY <1>2, <1>3, <1>5 DEF EnsureDpdkModuleLoaded
<1>6. CASE CheckDriver
  BY <1>2, <1>3, <1>6 DEF CheckDriver, UnbindFirst
<1>7. CASE UnbindDriver
  BY <1>2, <1>3, <1>7 DEF UnbindDriver
<1>8. CASE OverrideDriver
  BY <1>2, <1>3, <1>8 DEF OverrideDriver
<1>9. CASE BindDriver
  BY <1>2, <1>3, <1>9 DEF BindDriver
<1>10. CASE ClearOverride
  BY <1>2, <1>3, <1>10 DEF ClearOverride
<1>11. CASE ResetDefault
  BY <1>2, <1>3, <1>11 DEF ResetDefault
<1>12. CASE ProbeDriver
  BY <1>1, <1>2, <1>3, <1>12, DriverAssumption DEF ProbeDriver
<1> QED
  BY <1>4, <1>5, <1>6, <1>7, <1>8, <1>9, <1>10, <1>11, <1>12 DEF BindStep

\* The steps around a bind call begin one, which changes nothing yet, or are
\* about something else.
LEMMA OtherStepSeen ==
  ASSUME SetupInv, pc \notin BindSteps, UNCHANGED <<drv, last>>,
         pc' \in BindSteps => dev' \in Devices /\ before' = drv[dev']
  PROVE  SeenDrv' = SeenDrv /\ last' = last
BY DEF SetupInv, TypeOK, SeenDrv

\* A crash inside a bind call is one that fails.
LEMMA CrashSeen ==
  ASSUME SetupInv, CrashRestart
  PROVE  Binding!Next \/ (SeenDrv' = SeenDrv /\ last' = last)
<1>1. CASE pc \notin BindSteps
  BY <1>1, OtherStepSeen DEF CrashRestart, Idle, BindSteps
<1>2. CASE pc \in BindSteps
  <2>1. dev \in Devices /\ ask \in Binding!Asks
    BY <1>2, BoundIsFree
    DEF SetupInv, TypeOK, BindInv, ConfigDriver, Binding!Asks, Binding!DefaultDriver,
        DefaultDriver
  <2>2. /\ SeenDrv = [drv EXCEPT ![dev] = before] /\ SeenDrv[dev] = before
        /\ SeenDrv' = drv /\ drv = [SeenDrv EXCEPT ![dev] = drv[dev]]
    BY <1>2, <2>1 DEF SetupInv, TypeOK, CrashRestart, Idle, SeenDrv, BindSteps
  <2>3. drv[dev] \in {before, NoDriver, ask} /\ (ask = DefaultDriver => drv[dev] # ask)
    BY <1>2, <2>1, DriverAssumption
    DEF SetupInv, TypeOK, BindInv, BindSteps, BoundDriver, NoDriver, DefaultDriver
  <2>4. Binding!BindFails(dev, ask)
    BY <1>2, <2>2, <2>3
    DEF CrashRestart, SeenDrv, Binding!BindFails, Binding!Target, Binding!FailedBind,
        Binding!NoDriver, NoDriver, Binding!DefaultDriver, DefaultDriver
  <2> QED
    BY <2>1, <2>4 DEF Binding!Next
<1> QED
  BY <1>1, <1>2

\* Every step of a setup or a restore is a step of DriverBinding or none.
LEMMA StepSeen ==
  ASSUME SetupInv, [Next]_vars
  PROVE  [Binding!Next]_(Binding!bindingVars)
<1> SUFFICES Binding!Next \/ (SeenDrv' = SeenDrv /\ last' = last)
  BY DEF Binding!bindingVars, SeenDrv
<1>1. CASE BindStep
  BY <1>1, BindStepSeen
<1>2. CASE ResolveConfig
  BY <1>2, OtherStepSeen DEF ResolveConfig, At, Goto, Fail, sysVars, BindSteps
<1>3. CASE BindDeviceDriver
  BY <1>3, OtherStepSeen
  DEF BindDeviceDriver, SetupInv, TypeOK, At, Goto, Fail, Call, sysVars, BindSteps
<1>4. CASE EnsureVhostModulesLoaded
  BY <1>4, OtherStepSeen
  DEF EnsureVhostModulesLoaded, SetupInv, TypeOK, At, Goto, Fail, RestoreDriverOnError,
      callVars, BindSteps
<1>5. CASE GetVFIODeviceFile
  BY <1>5, OtherStepSeen
  DEF GetVFIODeviceFile, SetupInv, TypeOK, At, Goto, Fail, RestoreDriverOnError, sysVars,
      callVars, BindSteps
<1>6. CASE HandleRDMADevice
  BY <1>6, OtherStepSeen
  DEF HandleRDMADevice, SetupInv, TypeOK, At, Goto, Fail, RestoreDriverOnError, sysVars,
      callVars, BindSteps
<1>7. CASE Record
  BY <1>7, OtherStepSeen DEF Record, At, sysVars, BindSteps
<1>8. CASE Reply
  <2>1. SeenDrv' = SeenDrv /\ SeenDrv = drv /\ last' = NoCall
    BY <1>8 DEF Reply, Idle, At, sysVars, BindSteps, SeenDrv
  <2>2. Binding!NoCall = NoCall
    BY DEF Binding!NoCall, NoCall, Binding!NoDriver, NoDriver
  <2> QED
    BY <2>1, <2>2 DEF Binding!Next, Binding!Taken, SeenDrv
<1>9. ASSUME NEW d \in Devices, PrepareDevice(d) \/ EndClaim(d) \/ UnprepareDevice(d)
      PROVE  SeenDrv' = SeenDrv /\ last' = last
  <2>1. CASE PrepareDevice(d)
    BY <2>1, OtherStepSeen DEF PrepareDevice, At, Goto, sysVars, BindSteps
  <2>2. CASE EndClaim(d)
    BY <2>2 DEF EndClaim, SeenDrv, sysVars, callVars, bindVars
  <2>3. CASE UnprepareDevice(d)
    BY <2>3, OtherStepSeen DEF UnprepareDevice, At, Goto, sysVars, BindSteps
  <2> QED
    BY <1>9, <2>1, <2>2, <2>3
<1>10. CASE CrashRestart
  BY <1>10, CrashSeen
<1>11. CASE UNCHANGED vars
  BY <1>11 DEF vars, sysVars, callVars, bindVars, SeenDrv
<1> QED
  BY <1>1, <1>2, <1>3, <1>4, <1>5, <1>6, <1>7, <1>8, <1>9, <1>10, <1>11
  DEF Next, DriverStep, BindStep

\* BindDeviceDriver and RestoreDeviceDriver of pkg/host, write by write, with
\* failures and crashes anywhere, implement the atomic calls of DriverBinding:
\* what ClaimLifecycle takes as one step has no other outcomes.
THEOREM BindCallsRefine == Spec => BindCallsAreAtomic
<1>1. Init => Binding!Init
  BY DEF Init, Binding!Init, Binding!NoCall, NoCall, Binding!NoDriver, NoDriver,
     Binding!BoundDriver, BoundDriver, BindSteps
<1>2. SetupInv /\ [Next]_vars => [Binding!Next]_(Binding!bindingVars)
  BY StepSeen
<1> QED
  BY <1>1, <1>2, SetupInvariant, PTL DEF Spec, BindCallsAreAtomic, Binding!Spec

-----------------------------------------------------------------------------
(* The merge of configurations *)

\* A set of natural numbers has a least element.
LEMMA LeastNumber ==
  ASSUME NEW T \in SUBSET Nat, T # {}
  PROVE  \E x \in T : \A y \in T : x <= y
<1> DEFINE R == {ss \in Nat \X Nat : ss[1] < ss[2]}
<1>1. IsWellFoundedOn(R, Nat)
  BY NatLessThanWellFounded DEF OpToRel
<1> HIDE DEF R
<1>2. PICK x \in T : \A y \in T : ~(<<y, x>> \in R)
  BY <1>1, WFMin
<1>3. \A m, n \in Nat : <<n, m>> \in R <=> n < m
  BY DEF R
<1>4. ASSUME NEW y \in T PROVE x <= y
  <2>1. x \in Nat /\ y \in Nat
    OBVIOUS
  <2>2. <<y, x>> \notin R
    BY <1>2
  <2>3. ~(y < x)
    BY <1>3, <2>1, <2>2
  <2> QED
    BY <2>1, <2>3
<1> QED
  BY <1>4

\* The entries of one source that set field f for request r.
SettingFrom(es, source, r, f) ==
  {i \in Setting(es, r, f) : es[i].source = source}

\* One step of MergeFrom, on what it has merged so far.
Merge(es, source, r, base, g, n) ==
  IF n = 0 THEN base
  ELSE IF es[n].source = source /\ es[n].kind = "vf" /\ r \in es[n].requests
       THEN Override(g[n - 1], es[n].params)
       ELSE g[n - 1]

\* There is a function that MergeFrom defines: a least number up to which there
\* is none would be one more than a number up to which there is.
LEMMA MergeExists ==
  ASSUME NEW es, NEW source, NEW r, NEW base, NEW k \in Nat
  PROVE  \E g : g = [n \in 0 .. k |-> Merge(es, source, r, base, g, n)]
<1> DEFINE Has(j) == \E g : g = [n \in 0 .. j |-> Merge(es, source, r, base, g, n)]
           T == {j \in Nat : ~Has(j)}
<1> SUFFICES ASSUME T # {} PROVE FALSE
  OBVIOUS
<1>1. PICK j \in T : \A i \in T : j <= i
  <2> HIDE DEF T
  <2>1. T \in SUBSET Nat
    BY DEF T
  <2> QED
    BY <2>1, LeastNumber
<1>2. CASE j = 0
  <2> DEFINE h == [n \in 0 .. 0 |-> base]
  <2>1. h = [n \in 0 .. 0 |-> Merge(es, source, r, base, h, n)]
    BY DEF Merge
  <2> QED
    BY <1>2, <2>1
<1>3. CASE j # 0
  <2>1. j \in Nat /\ j - 1 \in Nat /\ ~(j <= j - 1) /\ j - 1 \notin T
    BY <1>1, <1>3
  <2>2. Has(j - 1)
    BY <2>1
  <2>3. PICK g : g = [n \in 0 .. j - 1 |-> Merge(es, source, r, base, g, n)]
    BY <2>2
  <2> DEFINE h == [n \in 0 .. j |-> IF n = j THEN Merge(es, source, r, base, g, j) ELSE g[n]]
  <2>4. ASSUME NEW n \in 0 .. j PROVE h[n] = Merge(es, source, r, base, h, n)
    <3>1. CASE n = j
      BY <2>1, <3>1 DEF Merge
    <3>2. CASE n # j
      <4>1. n \in 0 .. j - 1 /\ h[n] = g[n]
        BY <2>1, <3>2
      <4>2. g[n] = Merge(es, source, r, base, g, n)
        BY <2>3, <4>1
      <4>3. n # 0 => n - 1 \in 0 .. j /\ n - 1 # j /\ h[n - 1] = g[n - 1]
        BY <2>1, <4>1
      <4> QED
        BY <4>1, <4>2, <4>3 DEF Merge
    <3> QED
      BY <3>1, <3>2
  <2>5. h = [n \in 0 .. j |-> Merge(es, source, r, base, h, n)]
    BY <2>4
  <2> HIDE DEF h
  <2>6. Has(j)
    BY <2>5
  <2> QED
    BY <2>6
<1> QED
  BY <1>2, <1>3

\* MergeFrom is the last value of such a function.
LEMMA MergeFromIs ==
  ASSUME NEW es, NEW source, NEW r, NEW base, Len(es) \in Nat
  PROVE  \E g : /\ g = [n \in 0 .. Len(es) |-> Merge(es, source, r, base, g, n)]
                /\ MergeFrom(es, source, r, base) = g[Len(es)]
<1> DEFINE m == CHOOSE g : g = [n \in 0 .. Len(es) |-> Merge(es, source, r, base, g, n)]
<1>1. MergeFrom(es, source, r, base) = m[Len(es)]
  BY Zenon DEF MergeFrom, Merge
<1>2. m = [n \in 0 .. Len(es) |-> Merge(es, source, r, base, m, n)]
  <2>1. \E g : g = [n \in 0 .. Len(es) |-> Merge(es, source, r, base, g, n)]
    BY MergeExists
  <2> QED
    BY <2>1, Zenon
<1> QED
  BY <1>1, <1>2, Zenon

\* What MergeFrom leaves in a field: the value of the last entry that sets it.
LEMMA MergeFromLast ==
  ASSUME NEW es, NEW source, NEW r, NEW base, NEW f \in Overridden,
         Len(es) \in Nat, DOMAIN es = 1 .. Len(es)
  PROVE  LET s == SettingFrom(es, source, r, f)
             c == MergeFrom(es, source, r, base)
         IN  IF s = {} THEN c[f] = base[f]
             ELSE \E j \in s : (\A i \in s : i <= j) /\ c[f] = es[j].params[f]
<1> DEFINE N == Len(es)
           s(n) == {i \in SettingFrom(es, source, r, f) : i <= n}
<1>1. PICK g : /\ g = [n \in 0 .. N |-> Merge(es, source, r, base, g, n)]
               /\ MergeFrom(es, source, r, base) = g[N]
  BY MergeFromIs
<1> DEFINE Ok(n) == IF s(n) = {} THEN g[n][f] = base[f]
                    ELSE \E j \in s(n) : (\A i \in s(n) : i <= j) /\ g[n][f] = es[j].params[f]
           T == {n \in 0 .. N : ~Ok(n)}
<1>2. SettingFrom(es, source, r, f) \subseteq 1 .. N
  BY DEF SettingFrom, Setting
<1>3. T = {}
  <2> SUFFICES ASSUME T # {} PROVE FALSE
    OBVIOUS
  <2>1. PICK n \in T : \A i \in T : n <= i
    <3>1. T \in SUBSET Nat
      OBVIOUS
    <3> HIDE DEF T
    <3> QED
      BY <3>1, LeastNumber
  <2>2. n \in 0 .. N /\ n \in Nat /\ ~Ok(n) /\ g[n] = Merge(es, source, r, base, g, n)
    BY <1>1, <2>1
  <2>3. n # 0
    <3> SUFFICES ASSUME n = 0 PROVE FALSE
      OBVIOUS
    <3>1. s(n) = {}
      BY <1>2
    <3>2. g[n] = base
      BY <2>2 DEF Merge
    <3> QED
      BY <2>2, <3>1, <3>2
  <2>4. n - 1 \in 0 .. N /\ ~(n <= n - 1)
    BY <2>2, <2>3
  <2>5. Ok(n - 1)
    BY <2>1, <2>4
  <2> DEFINE e == es[n]
             applies == e.source = source /\ e.kind = "vf" /\ r \in e.requests
  <2>6. g[n] = IF applies THEN Override(g[n - 1], e.params) ELSE g[n - 1]
    BY <2>2, <2>3 DEF Merge
  <2>7. n \in SettingFrom(es, source, r, f) <=> applies /\ e.params[f] # Unset
    BY <2>2, <2>3 DEF SettingFrom, Setting
  <2>8. g[n][f] = IF n \in SettingFrom(es, source, r, f) THEN e.params[f] ELSE g[n - 1][f]
    BY <2>6, <2>7 DEF Override, Overridden, Fields
  <2> HIDE DEF e, applies
  <2>9. CASE n \in SettingFrom(es, source, r, f)
    <3>1. n \in s(n) /\ \A i \in s(n) : i <= n
      BY <2>2, <2>9
    <3> QED
      BY <2>2, <2>8, <2>9, <3>1 DEF e
  <2>10. CASE n \notin SettingFrom(es, source, r, f)
    <3>1. s(n) = s(n - 1)
      BY <1>2, <2>2, <2>10
    <3> HIDE DEF s
    <3> QED
      BY <2>2, <2>5, <2>8, <2>10, <3>1
  <2> QED
    BY <2>9, <2>10
<1>4. Ok(N)
  BY <1>3
<1>5. s(N) = SettingFrom(es, source, r, f)
  BY <1>2
<1> QED
  BY <1>1, <1>4, <1>5

\* Override and the order of the sources give each field to the entry of the
\* highest precedence, for every list of es.
LEMMA ConfigIsByPrecedence ==
  ASSUME NEW es, NEW r, NEW f \in Overridden, ~ConfigError(es),
         Len(es) \in Nat, DOMAIN es = 1 .. Len(es)
  PROVE  SetByHighest(ConfigForRequest(es, r), es, r, f)
<1> DEFINE cls == SettingFrom(es, "class", r, f)
           clm == SettingFrom(es, "claim", r, f)
           b == MergeFrom(es, "class", r, DefaultVfConfig)
           c == MergeFrom(es, "claim", r, b)
           s == Setting(es, r, f)
<1>1. IF cls = {} THEN b[f] = DefaultVfConfig[f]
      ELSE \E j \in cls : (\A i \in cls : i <= j) /\ b[f] = es[j].params[f]
  BY MergeFromLast
<1>2. IF clm = {} THEN c[f] = b[f]
      ELSE \E j \in clm : (\A i \in clm : i <= j) /\ c[f] = es[j].params[f]
  BY MergeFromLast
<1>3. DefaultVfConfig[f] = Unset
  BY DEF DefaultVfConfig, Overridden, Fields
<1>4. /\ s = cls \cup clm /\ s \subseteq 1 .. Len(es)
      /\ \A i \in cls : es[i].source = "class"
      /\ \A i \in clm : es[i].source = "claim"
  BY DEF SettingFrom, Setting, ConfigError
<1>5. ConfigForRequest(es, r) = c
  BY DEF ConfigForRequest, Normalize
<1> HIDE DEF b, c, s, cls, clm
<1>6. SetByHighest(c, es, r, f) <=>
         IF s = {} THEN c[f] = Unset
         ELSE \E j \in s : /\ \A i \in s \ {j} : Precedes(es, i, j)
                           /\ c[f] = es[j].params[f]
  BY DEF SetByHighest, s
<1>7. CASE clm # {}
  <2>1. PICK j \in clm : (\A i \in clm : i <= j) /\ c[f] = es[j].params[f]
    BY <1>2, <1>7
  <2>2. \A i \in s \ {j} : Precedes(es, i, j)
    BY <1>4, <2>1 DEF Precedes
  <2> QED
    BY <1>4, <1>5, <1>6, <2>1, <2>2
<1>8. CASE clm = {} /\ cls # {}
  <2>1. PICK j \in cls : (\A i \in cls : i <= j) /\ c[f] = es[j].params[f]
    BY <1>1, <1>2, <1>8
  <2>2. \A i \in s \ {j} : Precedes(es, i, j)
    BY <1>4, <1>8, <2>1 DEF Precedes
  <2> QED
    BY <1>4, <1>5, <1>6, <2>1, <2>2
<1>9. CASE clm = {} /\ cls = {}
  BY <1>1, <1>2, <1>3, <1>4, <1>5, <1>6, <1>9
<1> QED
  BY <1>7, <1>8, <1>9

\* Of the steps only ResolveConfig sets the configuration of the bind.
LEMMA PrecedenceStep ==
  ASSUME SetupInv, PrecedenceRespected, [Next]_vars
  PROVE  PrecedenceRespected'
<1>1. CASE ResolveConfig
  <2> SUFFICES ASSUME pc' = "bind", NEW f \in Overridden
               PROVE  SetByHighest(cfg', entries', RequestOf[dev'], f)
    BY DEF PrecedenceRespected
  <2>1. /\ cfg' = ConfigForRequest(entries, RequestOf[dev]) /\ ~ConfigError(entries)
        /\ entries' = entries /\ dev' = dev /\ entries \in EntryLists
    BY <1>1 DEF ResolveConfig, At, Fail, SetupInv, CallInv, callVars
  <2>2. Len(entries) \in Nat /\ DOMAIN entries = 1 .. Len(entries)
    BY <2>1, ConfigAssumption
  <2>3. SetByHighest(ConfigForRequest(entries, RequestOf[dev]), entries, RequestOf[dev], f)
    BY <2>1, <2>2, ConfigIsByPrecedence
  <2> QED
    BY <2>1, <2>3
<1>2. CASE UNCHANGED <<pc, cfg, entries, dev>>
  BY <1>2 DEF PrecedenceRespected
<1>3. CASE pc' # "bind"
  BY <1>3 DEF PrecedenceRespected
<1>4. CASE BindStep
  BY <1>3, <1>4
  DEF BindStep, BindDefaultDriver, EnsureDpdkModuleLoaded, CheckDriver, UnbindFirst, UnbindDriver,
      OverrideDriver, BindDriver, ClearOverride, ResetDefault, ProbeDriver, SysfsError, Goto, Return
<1>5. CASE BindDeviceDriver \/ EnsureVhostModulesLoaded \/ GetVFIODeviceFile
           \/ HandleRDMADevice \/ Record \/ Reply
  BY <1>3, <1>5
  DEF BindDeviceDriver, EnsureVhostModulesLoaded, GetVFIODeviceFile, HandleRDMADevice, Record,
      Reply, Idle, Goto, Fail, Call, RestoreDriverOnError
<1>6. ASSUME NEW d \in Devices, PrepareDevice(d) \/ EndClaim(d) \/ UnprepareDevice(d)
      PROVE  PrecedenceRespected'
  BY <1>2, <1>3, <1>6 DEF PrepareDevice, EndClaim, UnprepareDevice, Goto, callVars, setupVars
<1>7. CASE CrashRestart
  BY <1>3, <1>7 DEF CrashRestart, Idle
<1>8. CASE UNCHANGED vars
  BY <1>2, <1>8 DEF vars, callVars, setupVars
<1> QED
  BY <1>1, <1>4, <1>5, <1>6, <1>7, <1>8 DEF Next, DriverStep, BindStep

\* Whatever configurations a claim carries, and in whatever order, each field
\* that Override merges has the value of the entry of the highest precedence.
THEOREM PrecedenceAlwaysRespected == Spec => []PrecedenceRespected
<1>1. Init => PrecedenceRespected
  BY DEF Init, PrecedenceRespected
<1>2. SetupInv /\ PrecedenceRespected /\ [Next]_vars => PrecedenceRespected'
  BY PrecedenceStep
<1> QED
  BY <1>1, <1>2, SetupInvariant, PTL DEF Spec
=============================================================================
