--------------------------- MODULE DriverTargets ----------------------------
(***************************************************************************)
(* Which driver a PCI device ends up bound to: the outcomes of the driver  *)
(* calls of pkg/host, as operators of the driver a device is bound to when *)
(* a call starts.  ClaimLifecycle takes a call as one step with one of     *)
(* these outcomes; DeviceSetup takes it write by write and is shown to     *)
(* have no others (DriverBinding).                                         *)
(***************************************************************************)
CONSTANTS
    Devices, Drivers,
    HostDriver     \* driver that drivers_probe binds; also the boot binding

NoDriver == ""
DefaultDriver == "default"

DpdkDrivers == {"vfio-pci", "uio_pci_generic", "igb_uio"}

BoundDriver == Drivers \cup {NoDriver}
ConfigDriver == Drivers \cup {NoDriver, DefaultDriver}

ASSUME DriverAssumption ==
    /\ NoDriver \notin Drivers /\ DefaultDriver \notin Drivers
    /\ HostDriver \in [Devices -> Drivers \ DpdkDrivers]

\* The driver BindDefaultDriver leaves a device bound to, from driver b.
DefaultFrom(d, b) ==
    IF b # NoDriver /\ b \notin DpdkDrivers THEN b ELSE HostDriver[d]

\* What RestoreDeviceDriver leaves d bound to, from driver b.
\* Mutant: a device is taken to be restored already.
RestoreSkipped(d, orig, b) == b
RestoreTarget(d, orig, b) == IF orig = NoDriver THEN DefaultFrom(d, b) ELSE orig

\* A failed bind from b to t stops before the unbind, after it, or after the
\* bind (the driver_override reset fails).
FailedBind(b, t) == {b, NoDriver, t}
=============================================================================
