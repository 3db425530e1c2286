----------------------- MODULE MCPolicyAdvertisement -----------------------
(* Small instances of PolicyAdvertisement for TLC. *)
EXTENDS PolicyAdvertisement

CONSTANTS pf1, vf1, vf2

MCPFs == {pf1}
MCVFs == {vf1, vf2}
MCParentPF == [v \in MCVFs |-> pf1]

\* vendor and deviceType come from discovery, resourceName from policies.
MCKeys == {"deviceType", "vendor", "resourceName"}
MCReserved == {"deviceType", "vendor"}
MCValues == {"pf", "vf", "intel", "red", "blue"}
MCDiscovery ==
    [d \in MCPFs \cup MCVFs |-> [k \in MCKeys |->
        CASE k = "deviceType" -> (IF d \in MCPFs THEN "pf" ELSE "vf")
          [] k = "vendor" -> (IF d = vf2 THEN NoValue ELSE "intel")
          [] OTHER -> NoValue]]

Filter(type, vendors) ==
    [deviceType |-> type, want |-> [k \in {"vendor"} |-> vendors]]

Policy(terms, filters, selector) ==
    [nodeSelector |-> terms,
     configs |-> <<[resourceFilters |-> filters, deviceAttributesSelector |-> selector]>>]

Object(labels, name, vendor) ==
    [labels |-> labels,
     attributes |-> [k \in MCKeys |->
        CASE k = "resourceName" -> name [] k = "vendor" -> vendor [] OTHER -> NoValue]]

\* A policy with two configs, and one for a labelled node that may ask for VFs
\* or for the PF.
MixedPolicies ==
    <<{Absent,
       [nodeSelector |-> {},
        configs |-> <<[resourceFilters |-> {Filter("vf", {"intel"})},
                       deviceAttributesSelector |-> {{"a"}}],
                      [resourceFilters |-> {},
                       deviceAttributesSelector |-> {{}}]>>]},
      {Absent, Policy({{"rack"}}, {}, {{}}),
               Policy({{"rack"}}, {Filter("pf", {"intel"})}, {{}})}>>

\* A policy for the PF, one for the VFs.
PFPolicies ==
    <<{Absent, Policy({}, {Filter("pf", {"intel"}), Filter("vf", {})}, {{}})},
      {Absent, Policy({}, {}, {})}>>

\* Two objects that set the same key; the second also tries a built-in one.
\* The first is always there.
MCObjects ==
    <<{Object({"a"}, "red", NoValue), Object({"a"}, "blue", NoValue)},
      {Absent, Object({}, "blue", "red")}>>
OneObject == <<{Object({"a"}, "red", "blue"), Object({}, NoValue, "red")}>>

MCNodes == {{}, {"rack"}, NoNode}
OneNode == {{}}
SomeVFs == {{}, MCVFs}
ReadFaults == {"read"}
AllFaults == {"read", "publish"}
NoFaults == {}
=============================================================================
