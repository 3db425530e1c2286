---------------------------- MODULE MCDiscovery -----------------------------
(* A small instance of Discovery for TLC. *)
EXTENDS Discovery

CONSTANTS pf1, pf2, vf1, vf2

MCPFs == {pf1, pf2}
MCVFs == {vf1, vf2}
MCParentPF == [v \in MCVFs |-> pf1]
MCVFSets == {{}, {vf1}, {vf1, vf2}}

Plain ==
    [devlink |-> "ok", eswitch |-> "switchdev", subclass |-> "00", type |-> 1,
     numa |-> <<0>>, mtu |-> 1500, speed |-> 25000, rdma |-> TRUE,
     masters |-> <<"bridge">>, filtering |-> TRUE, untagged |-> 0, vlans |-> {1, 2, 4}]

\* Uplinks with any VLANs; then one deviation at a time: what cannot be read,
\* the other link types and modes, the ways to be or not to be a bridge port.
Uplinks == {[Plain EXCEPT !.vlans = v, !.untagged = 4] : v \in SUBSET {1, 2, 3, 4, 9, 10}}
Deviations ==
    {[Plain EXCEPT !.devlink = x] : x \in {"notFound", "error"}} \cup
    {[Plain EXCEPT !.eswitch = x] : x \in {"", "legacy"}} \cup
    {[Plain EXCEPT !.type = x] : x \in {0, 32, 512}} \cup
    {[Plain EXCEPT !.subclass = x, !.devlink = "error"] : x \in {"07", "80"}} \cup
    {[Plain EXCEPT !.numa = x] : x \in {<<>>, <<-1>>, <<1>>}} \cup
    {[Plain EXCEPT !.mtu = x, !.speed = x] : x \in {-1, 0}} \cup
    {[Plain EXCEPT !.masters = x] :
        x \in {<<>>, <<"bond">>, <<"bond", "bridge">>, <<"bond", "bond">>}} \cup
    {[Plain EXCEPT !.filtering = FALSE]}

MCHosts ==
    {[f \in MCPFs \cup MCVFs |-> IF f = pf1 THEN n ELSE [Plain EXCEPT !.rdma = f = vf1]] :
        n \in Uplinks \cup Deviations}
=============================================================================
