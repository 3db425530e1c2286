------------------------- MODULE ClaimLifecycleInv -------------------------
(***************************************************************************)
(* The inductive invariants behind the properties of ClaimLifecycle, and   *)
(* the circumstances each needs.                                           *)
(***************************************************************************)
EXTENDS ClaimLifecycle

-----------------------------------------------------------------------------
(* ClaimInv, behind RunningIsPrepared and DriverStableInUse.  It holds     *)
(* when nothing makes the driver roll recorded claims back                 *)
(* (CreateGlobalPodSpecFile succeeds and every device is discovered at     *)
(* every start), the checkpoint can be written and the node does not       *)
(* reboot; crashes of the driver, failed binds, failed restores, lost      *)
(* answers and repeated calls are all allowed.                             *)

NoRollback ==
    /\ "checkpoint" \notin Faults /\ "podSpec" \notin Faults
    /\ Discoverable \subseteq {Devices}
    /\ MaxReboots = 0

Recorded(p, c) == \E r \in mem : r.pod = p /\ r.claim = c

\* d is bound to the driver that claim c asks for.
Bound(c, d) == Config[c][d] \notin {NoDriver, DefaultDriver} => drv[d] = Config[c][d]

\* The shape of the running call.
CallInv ==
    /\ op # "rollback" /\ (op = "none" <=> stage = "idle")
    /\ stage \in {"devices", "claimSpec", "record"} => op = "prepare"
    /\ stage = "forget" => op = "unprepare"
    /\ stage \in {"clean", "restore"} => (undo = "claim" <=> op = "unprepare")
    /\ op = "prepare" => phase[pod] \in {"admitted", "running"}
    /\ op = "unprepare" => phase[pod] = "terminating"
    /\ stage = "reply" => todo = {}
    /\ stage # "idle" => todo \subseteq ClaimsOf[pod]
    /\ claim # NoClaim => claim \in ClaimsOf[pod]

\* Live pods share neither claims nor devices.
Exclusive ==
    \A p, q \in Pods : Live(p) /\ Live(q) /\ p # q =>
        \A c \in ClaimsOf[p], e \in ClaimsOf[q] :
            c # e /\ Results[c] \cap Results[e] = {}

\* A record belongs to a live pod, comes with the records of all devices of its
\* claim and, until the pod ends, with the claim's spec file and driver.
RecordInv ==
    /\ ckpt = mem
    /\ \A r \in mem :
          /\ Live(r.pod) /\ r.claim \in ClaimsOf[r.pod]
          /\ r.dev \in Results[r.claim]
          /\ \A d \in Results[r.claim] :
                \E x \in mem : x.pod = r.pod /\ x.claim = r.claim /\ x.dev = d
          /\ phase[r.pod] # "terminating"
                => r.claim \in claimSpec /\ Bound(r.claim, r.dev)

RunningInv ==
    \A p \in Pods : phase[p] = "running" =>
        /\ podSpec[p] = DevicesOf(p)
        /\ \A c \in ClaimsOf[p] : Recorded(p, c)

\* The claim the call is working on.
WorkInv ==
    /\ claim # NoClaim =>
          /\ \A r \in cur : r.pod = pod /\ r.claim = claim /\ r.dev \in Results[claim]
          /\ left \subseteq Results[claim]
    /\ op = "prepare" /\ claim # NoClaim => ~Recorded(pod, claim)
    /\ stage \in {"devices", "claimSpec", "record"} =>
          /\ \A d \in Results[claim] : d \in left \/ \E r \in cur : r.dev = d
          /\ \A r \in cur : r.dev \notin left /\ Bound(claim, r.dev)
    /\ stage \in {"claimSpec", "record"} => left = {} /\ cur # {}
    /\ stage = "record" => claim \in claimSpec

\* What a call that has met no error so far has achieved.
ProgressInv ==
    /\ op = "prepare" /\ result = "ok" =>
          /\ stage \notin {"clean", "restore"}
          /\ \A c \in ClaimsOf[pod] : c \in todo \/ c = claim \/ Recorded(pod, c)
          /\ stage = "reply" => podSpec[pod] = DevicesOf(pod)
    /\ op = "unprepare" /\ result = "ok" =>
          \A r \in mem : r.pod = pod => r.claim \in todo \/ r.claim = claim

\* The inductive invariant of the claim path.
ClaimInv ==
    /\ TypeOK /\ allocatable = Devices
    /\ CallInv /\ Exclusive /\ RecordInv /\ RunningInv /\ WorkInv /\ ProgressInv

-----------------------------------------------------------------------------
(* StableInv, behind DriverStableInUse when the kubelet prepares no pod    *)
(* that runs, and OwnerInv, behind OneOwner when the checkpoint can be     *)
(* written; any other failure, rollbacks, crashes and reboots are allowed. *)

PreparedOnce == MaxReprepares = 0
CheckpointWrites == "checkpoint" \notin Faults

\* A call works on claims of its pod, which is not running unless it is
\* prepared again.
StableCall ==
    /\ op = "none" <=> stage = "idle"
    /\ stage \in {"devices", "claimSpec", "record"} => op = "prepare"
    /\ op \in {"prepare", "rollback"} =>
          phase[pod] = "admitted" \/ (phase[pod] = "running" /\ ~PreparedOnce)
    /\ op = "unprepare" => phase[pod] = "terminating"
    /\ stage # "idle" => todo \subseteq ClaimsOf[pod]
    /\ claim # NoClaim => claim \in ClaimsOf[pod] /\ left \subseteq Results[claim]
    /\ claim = NoClaim => cur = {}

\* A record, also one that is on file or to be made, names a claim of its pod
\* and a device of that claim; the work at hand is on one claim.
StableRecords ==
    /\ \A r \in mem \cup ckpt \cup cur : r.claim \in ClaimsOf[r.pod] /\ r.dev \in Results[r.claim]
    /\ \A r \in cur : r.claim = claim

StableInv == TypeOK /\ Exclusive /\ StableCall /\ StableRecords

\* The file is the map, records belong to live pods, and an unprepare without
\* errors leaves none of its pod's.
OwnerRecords ==
    /\ ckpt = mem
    /\ \A r \in mem : Live(r.pod)
    /\ \A r \in cur : r.pod = pod
    /\ stage = "reply" => todo = {}
    /\ op = "rollback" => result = "error"
    /\ stage \in {"clean", "restore"} => op = "prepare" \/ undo = "claim"
    /\ op = "unprepare" /\ result = "ok" =>
          \A r \in mem : r.pod = pod => r.claim \in todo \/ r.claim = claim

OwnerInv == StableInv /\ OwnerRecords

-----------------------------------------------------------------------------
(* NameInv, behind IfNamesDistinct, whatever fails, crashes or reboots:    *)
(* the index of a call is above every name that the pod has, unless the    *)
(* call found the pod partly prepared.                                     *)

\* The interface names in a set of records are distinct within a pod.
NamesDistinct(rs) ==
    \A r1, r2 \in rs :
        /\ r1.pod = r2.pod /\ r1.pod \notin resumed
        /\ r1.ifname = r2.ifname /\ r1.ifname # NoIndex
        => r1.dev = r2.dev

\* The claim that is being prepared has no record, and its names are new.
NameWork ==
    stage \in {"devices", "claimSpec", "record"} =>
        /\ op = "prepare" /\ ~Recorded(pod, claim)
        /\ NamesDistinct(cur)
        /\ \A r \in cur : r.pod = pod /\ r.claim = claim /\ r.ifname < ifNameIndex
        /\ pod \notin resumed =>
              \A r \in cur, x \in mem :
                  x.pod = pod /\ r.ifname # NoIndex => x.ifname < r.ifname

\* Names that are on record, or on file, are distinct.
NameRecords ==
    /\ NamesDistinct(mem) /\ NamesDistinct(ckpt)
    /\ \A r \in mem \cup ckpt : r.claim \in ClaimsOf[r.pod]

\* The call has claims of its pod, and an index above every name on record.
NameCall ==
    /\ stage # "idle" => todo \subseteq ClaimsOf[pod]
    /\ claim # NoClaim => claim \in ClaimsOf[pod]
    /\ stage = "forget" => op # "prepare"
    /\ op = "prepare" /\ pod \notin resumed =>
          \/ \A c \in ClaimsOf[pod] : Recorded(pod, c)
          \/ \A r \in mem : r.pod = pod => r.ifname < ifNameIndex

NameInv == NameRecords /\ NameCall /\ NameWork

-----------------------------------------------------------------------------
(* UndoInv, behind NothingLeftBehind and OriginalDriverIsHosts.  Each      *)
(* circumstance is one in which the code leaves something behind           *)
(* otherwise: a crash between bind and record, a failed bind or restore, a *)
(* second failed write of device-info files, another claim of the pod.     *)

CleanUndo ==
    /\ Faults \cap {"bind", "restore"} = {}
    /\ "devinfo" \in Faults => MaxFaults <= 1
    /\ MaxCrashes = 0 /\ MaxReboots = 0
    /\ \A p \in Pods : \A c, e \in ClaimsOf[p] : Results[c] # {} /\ Results[e] # {} => c = e

\* The shape of the running call.
UndoCall ==
    /\ op = "none" <=> stage = "idle"
    /\ stage \in {"devices", "claimSpec", "record"} => op = "prepare" /\ undo = "devices"
    /\ stage = "forget" => op \in {"unprepare", "rollback"} /\ undo = "claim"
    /\ stage \in {"clean", "restore"} => op = "prepare" \/ undo = "claim"
    /\ stage = "clean" /\ op = "prepare" => faults >= 1
    /\ op \in {"prepare", "rollback"} => phase[pod] \in {"admitted", "running"}
    /\ op = "unprepare" => phase[pod] = "terminating"
    /\ op = "rollback" => result = "error"
    /\ stage = "reply" => todo = {}
    /\ stage # "idle" => todo \subseteq ClaimsOf[pod]
    /\ claim # NoClaim => claim \in ClaimsOf[pod]
    /\ claim = NoClaim => cur = {} /\ undo = "devices"

\* A record, or what will be one, belongs to a live pod and its original driver
\* is the host's.
UndoRecords ==
    /\ \A r \in mem \cup cur :
          /\ Live(r.pod) /\ r.claim \in ClaimsOf[r.pod] /\ r.dev \in Results[r.claim]
          /\ r.driver = Config[r.claim][r.dev]
          /\ r.driver # NoDriver => r.orig = HostDriver[r.dev]
    /\ \A r \in cur : r.pod = pod /\ r.claim = claim

\* The claim at hand: not recorded while it is prepared, recorded while it is
\* undone with its files.
UndoWork ==
    /\ claim # NoClaim /\ undo = "devices" => \A r \in mem : r.dev \notin Results[claim]
    /\ claim # NoClaim /\ undo = "claim" => cur # {} /\ cur = Get(pod, claim)
    /\ claim # NoClaim => left \subseteq Results[claim]
    /\ stage = "devices" => \A r \in cur : r.dev \notin left
    /\ stage \in {"claimSpec", "record"} => cur # {}
    /\ stage = "restore" =>
          /\ left \subseteq ToRestore(cur)
          /\ \A r \in cur : r.driver # NoDriver /\ r.dev \notin left
                            => drv[r.dev] = HostDriver[r.dev]
    /\ stage = "restore" /\ (undo = "devices" \/ claimResult = "ok") =>
          \A r \in cur : r.info = "file" => r.dev \notin devInfo
    /\ stage = "forget" =>
          /\ \A r \in cur : r.driver # NoDriver => drv[r.dev] = HostDriver[r.dev]
          /\ \A r \in cur : r.info = "file" => r.dev \notin devInfo
          /\ claim \notin claimSpec /\ podSpec[pod] = {}

\* What is on the host and in the directories has a record, or is the work at
\* hand.
UndoHost ==
    /\ \A d \in Devices : drv[d] # HostDriver[d] =>
          \E r \in mem \cup cur : r.dev = d /\ r.driver # NoDriver
    /\ \A d \in devInfo :
          \/ \E r \in mem : r.dev = d /\ r.info = "file"
          \/ /\ stage \in {"claimSpec", "record", "clean"}
             /\ \E r \in cur : r.dev = d /\ r.info = "file"
    /\ \A c \in claimSpec :
          (\E r \in mem : r.claim = c) \/ (stage = "record" /\ claim = c)
    /\ \A p \in Pods : podSpec[p] # {} => \E r \in mem : r.pod = p

\* What an unprepare without errors has achieved.
UndoProgress ==
    op = "unprepare" /\ result = "ok" =>
        \A r \in mem : r.pod = pod => r.claim \in todo \cup {claim}

UndoInv ==
    /\ TypeOK /\ Exclusive /\ UndoCall /\ UndoRecords /\ UndoWork /\ UndoHost /\ UndoProgress
=============================================================================
