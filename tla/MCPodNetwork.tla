---------------------------- MODULE MCPodNetwork ----------------------------
(* A small instance of PodNetwork for TLC: a pod with two claims of a device *)
(* each.                                                                     *)
EXTENDS PodNetwork

CONSTANTS p1, c1, c2, d1, d2

MCPods == {p1}
MCClaims == {c1, c2}
MCDevices == {d1, d2}
MCPodOf == [c \in MCClaims |-> p1]
MCClaimOf == [d \in MCDevices |-> IF d = d1 THEN c1 ELSE c2]
=============================================================================
