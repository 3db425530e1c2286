-------------------------- MODULE MCClaimLifecycle --------------------------
(* Small instances of ClaimLifecycle for TLC. *)
EXTENDS ClaimLifecycleInv

CONSTANTS p1, p2, p3, c1, c2, c3, d1, d2, d3

MCPods == {p1, p2}
MCClaims == {c1, c2, c3}
MCDevices == {d1, d2, d3}
MCDrivers == {"iavf", "vfio-pci"}
MCHostDriver == [d \in MCDevices |-> "iavf"]

\* One claim per pod: c1 has both devices, c2 reuses one of them later on.
OneClaimPerPod == [p \in MCPods |-> IF p = p1 THEN {c1} ELSE {c2}]
ReuseResults ==
    [c \in MCClaims |-> CASE c = c1 -> {d1, d2} [] c = c2 -> {d2} [] OTHER -> {}]

\* A pod with two claims, and a later pod that reuses one of them.
TwoClaimPod == [p \in MCPods |-> IF p = p1 THEN {c1, c2} ELSE {c2}]
TwoClaimResults ==
    [c \in MCClaims |-> CASE c = c1 -> {d1} [] c = c2 -> {d2} [] OTHER -> {}]

\* Claims on devices of their own, one of them with two.
DisjointResults ==
    [c \in MCClaims |-> CASE c = c1 -> {d1, d3} [] c = c2 -> {d2} [] OTHER -> {}]

\* A third pod, with two claims of which the second has no device of this driver.
ThreePods == MCPods \cup {p3}
EmptyClaimPod ==
    [p \in ThreePods |-> CASE p = p1 -> {c1} [] p = p2 -> {c2} [] OTHER -> {c1, c3}]

\* c1 takes its devices over for userspace drivers, the others keep the default.
MCConfig ==
    [c \in MCClaims |-> [d \in MCDevices |->
        CASE c = c1 -> "vfio-pci"
          [] c = c2 -> DefaultDriver
          [] OTHER -> NoDriver]]
VfioConfig == [c \in MCClaims |-> [d \in MCDevices |-> "vfio-pci"]]
AllDiscovered == {MCDevices}
SomeDiscovered == {MCDevices, {d1, d3}}

\* Failures that the code reports and, one at a time, undoes completely.
UndoneFaults ==
    {"claim", "vfio", "devinfo", "claimSpec", "podSpec", "specDelete", "reply"}
\* Failures that never make the driver roll a recorded claim back, nor leave
\* the checkpoint file behind.
PrepareFaults == FaultKinds \ {"podSpec", "checkpoint"}
NoFaults == {}
=============================================================================
