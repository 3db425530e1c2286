------------------------------ MODULE VfConfig ------------------------------
(***************************************************************************)
(* The opaque configuration of a request: pkg/api/virtualfunction and      *)
(* getMapOfOpaqueDeviceConfigForDevice of pkg/devicestate/statehelpers.go. *)
(* A VfConfig is a function from its fields to values; Unset is the zero   *)
(* value of a field (the empty string, false).                             *)
(***************************************************************************)
EXTENDS Naturals, Sequences

Unset == ""

Fields == {"driver", "addVhostMount", "ifName", "netAttachDefName",
           "netAttachDefNamespace", "mac"}

DefaultVfConfig == [f \in Fields |-> Unset]

\* The fields Override looks at.
Overridden == {"driver", "ifName", "netAttachDefName", "mac"}

Override(c, other) ==
    [f \in Fields |->
        IF f \in Overridden /\ other[f] # Unset THEN other[f] ELSE c[f]]

\* Normalize implies no values.
Normalize(c) == c

-----------------------------------------------------------------------------
(* An allocated claim carries a sequence of configurations; each is        *)
(*   source    where it comes from: "class", "claim", or an unknown source *)
(*   kind      "vf" a VfConfig of this driver, "other" one of another      *)
(*             driver, "bad" not opaque or not decodable                   *)
(*   requests  the requests it names                                       *)
(*   params    the VfConfig                                                *)

ConfigError(entries) ==
    \E i \in DOMAIN entries : \/ entries[i].source \notin {"class", "claim"}
                              \/ entries[i].kind = "bad"

\* The entries of one source that name request r, each on top of the others.
MergeFrom(entries, source, r, base) ==
    LET Applies(e) == e.source = source /\ e.kind = "vf" /\ r \in e.requests
        merged[n \in 0 .. Len(entries)] ==
            IF n = 0 THEN base
            ELSE IF Applies(entries[n]) THEN Override(merged[n - 1], entries[n].params)
            ELSE merged[n - 1]
    IN merged[Len(entries)]

\* The VfConfig of request r, lowest precedence first; the default one when no
\* entry names r.  Mutant: the class comes last.
ClassLast(entries, r) ==
    Normalize(MergeFrom(entries, "class", r,
                        MergeFrom(entries, "claim", r, DefaultVfConfig)))
ConfigForRequest(entries, r) ==
    Normalize(MergeFrom(entries, "claim", r,
                        MergeFrom(entries, "class", r, DefaultVfConfig)))

-----------------------------------------------------------------------------
(* What the documentation promises, stated without merging anything.       *)

\* Entry j of the claim takes precedence over entry i.
Precedes(entries, i, j) ==
    IF entries[i].source = entries[j].source THEN i < j
    ELSE entries[i].source = "class"

\* The entries that set field f for request r.
Setting(entries, r, f) ==
    {i \in DOMAIN entries : /\ entries[i].kind = "vf" /\ r \in entries[i].requests
                            /\ entries[i].params[f] # Unset}

\* Field f of config c has the value of the entry of the highest precedence
\* that sets it, and no value when there is none.
SetByHighest(c, entries, r, f) ==
    LET s == Setting(entries, r, f)
    IN IF s = {} THEN c[f] = Unset
       ELSE \E j \in s : /\ \A i \in s \ {j} : Precedes(entries, i, j)
                         /\ c[f] = entries[j].params[f]
=============================================================================
