--------------------------- MODULE MCDeviceSetup ----------------------------
(* Small instances of DeviceSetup for TLC. *)
EXTENDS DeviceSetup

CONSTANTS d1, d2

MCDevices == {d1, d2}
MCDrivers == {"iavf", "vfio-pci", "igb_uio"}
MCHostDriver == [d \in MCDevices |-> "iavf"]

\* d1 has RDMA hardware, an IOMMU group and an override file; d2 none of them.
\* Either may be bound, or left unbound, by an administrator before the start.
MCBootDrivers ==
    [d \in MCDevices |-> IF d = d1 THEN {"iavf", "vfio-pci", NoDriver}
                                   ELSE {"iavf", "igb_uio"}]
OnlyFirst == {d1}
MCRequestOf == [d \in MCDevices |-> IF d = d1 THEN "net" ELSE "other"]

Entry(source, kind, requests, field, value) ==
    [source |-> source, kind |-> kind, requests |-> requests,
     params |-> [DefaultVfConfig EXCEPT ![field] = value]]

Both == {"net", "other"}
Wants(driver) == Entry("claim", "vf", Both, "driver", driver)
ClassWants(driver) == Entry("class", "vf", Both, "driver", driver)

\* No config, each driver, precedence by source and by position, entries of
\* other drivers and for other requests, undecodable and unknown ones.
MCEntryLists ==
    {<<>>, <<Wants("igb_uio")>>, <<Wants("vfio-pci"), ClassWants("iavf")>>,
     <<ClassWants("vfio-pci"), Entry("claim", "vf", {"net"}, "driver", DefaultDriver)>>,
     <<Wants("iavf"), Entry("claim", "other", Both, "driver", "igb_uio"),
       Wants("vfio-pci"), Entry("class", "vf", Both, "mac", "m")>>,
     <<Entry("claim", "bad", Both, "mac", "m")>>,
     <<Entry("future", "vf", Both, "mac", "m")>>}

\* The VFIO example of the documentation: a driver and the vhost mount.
VhostEntryLists ==
    {<<[Wants("vfio-pci") EXCEPT !.params["addVhostMount"] = "true"]>>}

MCBuiltIn == {}
NoFaults == {}
=============================================================================
