--------------------------- MODULE DriverBinding ----------------------------
(***************************************************************************)
(* What the driver calls of pkg/host promise their callers: a call is one  *)
(* step that binds one device to what it was asked for, or fails and       *)
(* leaves the device at one of three drivers.  ClaimLifecycle assumes      *)
(* exactly this of BindDeviceDriver and RestoreDeviceDriver.               *)
(***************************************************************************)
EXTENDS DriverTargets

VARIABLES
    drv,    \* the driver each device is bound to
    last    \* the last call: its device, the driver asked for, its outcome

bindingVars == <<drv, last>>

NoCall == [dev |-> "none", ask |-> NoDriver, ok |-> TRUE]

\* A call asks for a driver or for the default one.
Asks == Drivers \cup {DefaultDriver}

Target(d, a) == IF a = DefaultDriver THEN DefaultFrom(d, drv[d]) ELSE a

BindSucceeds(d, a) ==
    /\ drv' = [drv EXCEPT ![d] = Target(d, a)]
    /\ last' = [dev |-> d, ask |-> a, ok |-> TRUE]

\* The call returns an error, or the process dies in it.
BindFails(d, a) ==
    /\ \E x \in FailedBind(drv[d], Target(d, a)) : drv' = [drv EXCEPT ![d] = x]
    /\ last' = [dev |-> d, ask |-> a, ok |-> FALSE]

\* The caller has taken the outcome.
Taken == last # NoCall /\ last' = NoCall /\ UNCHANGED drv

Init == drv \in [Devices -> BoundDriver] /\ last = NoCall

Next ==
    \/ \E d \in Devices, a \in Asks : BindSucceeds(d, a) \/ BindFails(d, a)
    \/ Taken

Spec == Init /\ [][Next]_bindingVars
=============================================================================
