----------------------------- MODULE PodNetwork -----------------------------
(***************************************************************************)
(* The pod network in STANDALONE mode.  The container runtime calls the    *)
(* NRI plugin (pkg/nri) when it runs and stops a pod sandbox; the plugin   *)
(* runs CNI ADD and DEL (pkg/cni) for the prepared devices of the pod,     *)
(* refreshes the metadata files and queues the network data, which one     *)
(* goroutine writes to the checkpoint and to the status of the claims.     *)
(*                                                                         *)
(* The runtime calls one hook at a time.  When the plugin is away it runs  *)
(* and stops sandboxes without it.  The network data of a device is the    *)
(* number of the sandbox it was attached to, 0 is none.  The claim path is *)
(* that of ClaimLifecycle, one step per call and pod.  The hooks leave     *)
(* pods without claims of this driver alone.                               *)
(***************************************************************************)
EXTENDS Integers, Sequences, FiniteSets

CONSTANTS
    Pods, Claims, Devices, NoPod, NoClaim,
    PodOf,          \* the pod a claim is reserved for
    ClaimOf,        \* the claim a device is allocated to
    MetadataEnabled,
    Capacity,       \* of networkDeviceDataUpdateChan
    Steps,          \* attempts of consts.Backoff
    Faults, MaxFaults, MaxSandboxes, MaxPrepares, MaxCrashes

FaultKinds == {"add", "del", "metadata", "api", "checkpoint", "podSpec"}

ASSUME AllocationAssumption ==
    /\ NoPod \notin Pods /\ NoClaim \notin Claims
    /\ PodOf \in [Claims -> Pods] /\ ClaimOf \in [Devices -> Claims]
    /\ MetadataEnabled \in BOOLEAN
ASSUME BoundAssumption ==
    /\ Capacity \in Nat \ {0} /\ Steps \in Nat \ {0} /\ Faults \subseteq FaultKinds
    /\ MaxFaults \in Nat /\ MaxSandboxes \in Nat
    /\ MaxPrepares \in Nat /\ MaxCrashes \in Nat

ClaimsOf(p) == {c \in Claims : PodOf[c] = p}
Results(c) == {d \in Devices : ClaimOf[d] = c}

VARIABLES
    up,            \* the driver process runs
    hostNetwork,   \* pods without a network namespace of their own
    record,        \* pod -> which of its preparations is recorded, 0 is none
    data,          \* PreparedDevice.NetworkDeviceData
    saved,         \* the same in the checkpoint file
    metadata,      \* network data in the metadata files of the device
    listed,        \* claims whose status lists their devices
    status,        \* network data in the status of the claims
    sandbox,       \* pod -> the number of its latest sandbox
    state,         \* ... and what the runtime holds it for
    attached,      \* devices added to the latest sandbox of their pod, without a DEL
    hook,          \* the NRI hook in progress
    queue,         \* networkDeviceDataUpdateChan
    runner,        \* updateNetworkDeviceDataRunner
    lost,          \* pod -> its latest sandbox whose update ended in an error message
                   \* or with the process
    repeated,      \* history: pods prepared again since their hook wrote the metadata
    dropped,       \* history: pods whose record was rolled back since their latest
                   \* sandbox began
    faults, prepares, crashes

podVars == <<up, hostNetwork>>
recordVars == <<record, data, saved, prepares>>
fileVars == <<metadata, repeated>>
statusVars == <<listed, status>>
lossVars == <<lost, dropped>>
hostVars == <<sandbox, state, attached>>
vars == <<podVars, recordVars, fileVars, statusVars, hostVars, hook, queue, runner,
          lossVars, faults, crashes>>

Update == [pod : Pods, sandbox : Nat, record : Nat]

GetDevicesByPodUID(p) == UNION {Results(c) : c \in ClaimsOf(p)}

NoHook == [stage |-> "idle", pod |-> NoPod, record |-> 0, left |-> {}]
NoUpdate == [pod |-> NoPod, sandbox |-> 0, record |-> 0]
IdleRunner ==
    [stage |-> "idle", update |-> NoUpdate, claims |-> {}, claim |-> NoClaim,
     left |-> {}, found |-> FALSE, writes |-> {}, tries |-> 0]

TypeOK ==
    /\ up \in BOOLEAN /\ hostNetwork \subseteq Pods
    /\ record \in [Pods -> Nat]
    /\ data \in [Devices -> Nat] /\ saved \in [Devices -> Nat]
    /\ metadata \in [Devices -> Nat]
    /\ listed \subseteq Claims /\ status \in [Devices -> Nat]
    /\ sandbox \in [Pods -> Nat]
    /\ state \in [Pods -> {"none", "starting", "running", "unhooked", "failed",
                           "stopping", "stopped", "dead"}]
    /\ attached \subseteq Devices
    /\ hook \in [stage : {"idle", "attach", "metadata", "send", "detach"},
                 pod : Pods \cup {NoPod}, record : Nat, left : SUBSET Devices]
    /\ hook.stage = "idle" <=> hook.pod = NoPod
    /\ queue \in Seq(Update) /\ Len(queue) <= Capacity
    /\ runner \in [stage : {"idle", "claims", "persist", "status"},
                   update : Update \cup {NoUpdate}, claims : SUBSET Claims,
                   claim : Claims \cup {NoClaim}, left : SUBSET Devices,
                   found : BOOLEAN, writes : SUBSET Devices, tries : 0 .. Steps - 1]
    /\ runner.stage = "idle" <=> runner.update = NoUpdate
    /\ lost \in [Pods -> Nat]
    /\ repeated \subseteq Pods /\ dropped \subseteq Pods
    /\ faults \in Nat /\ prepares \in Nat /\ crashes \in Nat

Fault(kind) == kind \in Faults /\ faults < MaxFaults /\ faults' = faults + 1
NoFault == UNCHANGED faults

-----------------------------------------------------------------------------
(* RunPodSandbox *)

\* The runtime starts a sandbox of a prepared pod; the network namespace of the
\* last one is gone, and what was attached to it with it.
MayRun(p) ==
    /\ state[p] \in {"none", "failed", "stopped", "dead"} /\ record[p] # 0
    /\ sandbox[p] < MaxSandboxes /\ hook = NoHook
    /\ sandbox' = [sandbox EXCEPT ![p] = @ + 1]
    /\ attached' = attached \ GetDevicesByPodUID(p)
    /\ dropped' = dropped \ {p}

RunPodSandbox(p) ==
    /\ MayRun(p)
    /\ \/ /\ up /\ p \notin hostNetwork
          /\ hook' = [stage |-> "attach", pod |-> p, record |-> record[p],
                      left |-> GetDevicesByPodUID(p)]
          /\ state' = [state EXCEPT ![p] = "starting"]
       \/ \* no network namespace: nothing to attach
          /\ up /\ p \in hostNetwork
          /\ state' = [state EXCEPT ![p] = "running"] /\ UNCHANGED hook
       \/ \* the plugin is away
          /\ ~up /\ state' = [state EXCEPT ![p] = "unhooked"] /\ UNCHANGED hook
    /\ UNCHANGED <<podVars, recordVars, fileVars, statusVars, queue, runner, lost, faults,
                   crashes>>

\* The hook returns an error: the sandbox is not started, and what is attached
\* stays attached.
RunFails ==
    /\ hook' = NoHook
    /\ state' = [state EXCEPT ![hook.pod] = "failed"]

\* CNI ADD of one device; it may fail before or after the plugin's work.
AttachNetwork(d) ==
    /\ hook.stage = "attach" /\ d \in hook.left
    /\ UNCHANGED <<podVars, recordVars, fileVars, statusVars, sandbox, queue, runner,
                   lossVars, crashes>>
    /\ \/ /\ attached' = attached \cup {d}
          /\ hook' = [hook EXCEPT !.left = @ \ {d},
                !.stage = CASE hook.left # {d} -> "attach"
                            [] hook.left = {d} /\ MetadataEnabled -> "metadata"
                            [] OTHER -> "send"]
          /\ NoFault /\ UNCHANGED state
       \/ /\ Fault("add") /\ RunFails
          /\ attached' \in {attached, attached \cup {d}}

\* The metadata files are written claim by claim, in any order, up to a failure.
\* Mutant: the network data is the one on record.
MetadataOnRecord(S, n) == [d \in Devices |-> IF d \in S THEN data[d] ELSE metadata[d]]
MetadataWith(S, n) == [d \in Devices |-> IF d \in S THEN n ELSE metadata[d]]

UpdateRequestMetadata ==
    /\ hook.stage = "metadata"
    /\ UNCHANGED <<podVars, recordVars, statusVars, sandbox, attached, queue, runner,
                   lossVars, crashes>>
    /\ \/ /\ metadata' = MetadataWith(GetDevicesByPodUID(hook.pod), sandbox[hook.pod])
          /\ repeated' = repeated \ {hook.pod}
          /\ hook' = [hook EXCEPT !.stage = "send"]
          /\ NoFault /\ UNCHANGED state
       \/ /\ Fault("metadata") /\ RunFails /\ UNCHANGED repeated
          /\ \E written \in SUBSET ClaimsOf(hook.pod) :
                metadata' = MetadataWith(UNION {Results(c) : c \in written},
                                         sandbox[hook.pod])

\* The send blocks while the channel is full.  Mutant: the channel has no bound.
Unbounded == TRUE
Room == Len(queue) < Capacity

SendUpdate ==
    /\ hook.stage = "send" /\ Room
    /\ queue' = Append(queue, [pod |-> hook.pod, sandbox |-> sandbox[hook.pod],
                               record |-> hook.record])
    /\ hook' = NoHook
    /\ state' = [state EXCEPT ![hook.pod] = "running"]
    /\ UNCHANGED <<podVars, recordVars, fileVars, statusVars, sandbox, attached, runner,
                   lossVars, faults, crashes>>

-----------------------------------------------------------------------------
(* StopPodSandbox *)

\* The hook returns an error: the runtime calls again, or goes on without.
\* Mutant: the error is swallowed.
StopSucceeds(p) == state' = [state EXCEPT ![p] = "stopped"]
StopFails(p) == \E s \in {"stopping", "dead"} : state' = [state EXCEPT ![p] = s]

\* The runtime stops a sandbox, and may stop one again.
StopPodSandbox(p) ==
    /\ hook = NoHook /\ state[p] # "none"
    /\ UNCHANGED <<podVars, recordVars, fileVars, statusVars, sandbox, attached, queue,
                   runner, lossVars, faults, crashes>>
    /\ \/ /\ up /\ record[p] # 0 /\ p \notin hostNetwork
          /\ hook' = [stage |-> "detach", pod |-> p, record |-> record[p],
                      left |-> GetDevicesByPodUID(p)]
          /\ state' = [state EXCEPT ![p] = "stopping"]
       \/ \* no network namespace is an error here
          /\ up /\ record[p] # 0 /\ p \in hostNetwork
          /\ StopFails(p) /\ UNCHANGED hook
       \/ \* no prepared devices
          /\ up /\ record[p] = 0 /\ UNCHANGED hook
          /\ state' = [state EXCEPT ![p] = IF @ = "stopped" THEN @ ELSE "dead"]
       \/ /\ ~up /\ UNCHANGED hook
          /\ state' = [state EXCEPT ![p] = IF @ = "stopped" THEN @ ELSE "dead"]

DetachNetwork(d) ==
    /\ hook.stage = "detach" /\ d \in hook.left
    /\ UNCHANGED <<podVars, recordVars, fileVars, statusVars, sandbox, queue, runner,
                   lossVars, crashes>>
    /\ \/ /\ attached' = attached \ {d} /\ NoFault
          /\ IF hook.left = {d}
               THEN hook' = NoHook /\ state' = [state EXCEPT ![hook.pod] = "stopped"]
               ELSE hook' = [hook EXCEPT !.left = @ \ {d}] /\ UNCHANGED state
       \/ /\ Fault("del") /\ StopFails(hook.pod)
          /\ hook' = NoHook /\ UNCHANGED attached

-----------------------------------------------------------------------------
(* updateNetworkDeviceDataRunner *)

Lose ==
    /\ lost' = [lost EXCEPT ![runner.update.pod] = runner.update.sandbox]
    /\ UNCHANGED dropped

\* The claims an update is about.  Mutant: the grouping keeps one claim.
OneGroup(p) == {CHOOSE c \in ClaimsOf(p) : TRUE}
GroupNetworkDataByClaim(p) == ClaimsOf(p)

ReceiveUpdate ==
    /\ up /\ runner.stage = "idle" /\ queue # <<>>
    /\ runner' = [IdleRunner EXCEPT
                    !.stage = "claims", !.update = Head(queue),
                    !.claims = GroupNetworkDataByClaim(Head(queue).pod)]
    /\ queue' = Tail(queue)
    /\ UNCHANGED <<podVars, recordVars, fileVars, statusVars, hostVars, hook, lossVars,
                   faults, crashes>>

\* The loop goes on with the next claim, or waits for the next update.
\* Mutant: the goroutine stops after the first claim.
RunnerReturns(rest) == runner' = [runner EXCEPT !.stage = "claims", !.claims = {}]
NextClaim(rest) ==
    runner' = IF rest = {} THEN IdleRunner
              ELSE [IdleRunner EXCEPT !.stage = "claims", !.update = runner.update,
                                      !.claims = rest]

\* The claim may be gone once its pod is unprepared.
GetClaim(c) ==
    /\ runner.stage = "claims" /\ c \in runner.claims
    /\ UNCHANGED <<podVars, recordVars, fileVars, statusVars, hostVars, hook, queue,
                   crashes>>
    /\ \/ /\ runner' = [runner EXCEPT !.stage = "persist", !.claim = c,
                                      !.claims = @ \ {c}, !.left = Results(c),
                                      !.found = c \in listed]
          /\ NoFault /\ UNCHANGED lossVars
       \/ /\ IF record[runner.update.pod] = 0 THEN NoFault ELSE Fault("api")
          /\ NextClaim(runner.claims \ {c}) /\ Lose

\* The devices to write in the claim's status: those it listed when fetched.
UpdateClaimDeviceStatus(d) ==
    IF runner.found THEN runner.writes \cup {d} ELSE runner.writes

\* The data goes to the prepared device the hook was given, which may no longer
\* be the one on record; then the whole map is written.  A device whose data
\* was not saved is left out of the claim's status.
UpdatePreparedDeviceNetworkData(d) ==
    LET After(ws) == IF runner.left = {d} /\ ws = {} THEN NextClaim(runner.claims)
                    ELSE runner' = [runner EXCEPT
                            !.stage = IF runner.left = {d} THEN "status" ELSE @,
                            !.left = @ \ {d}, !.writes = ws]
    IN /\ runner.stage = "persist" /\ d \in runner.left
       /\ data' = IF record[runner.update.pod] = runner.update.record
                    THEN [data EXCEPT ![d] = runner.update.sandbox] ELSE data
       /\ UNCHANGED <<podVars, record, prepares, fileVars, statusVars, hostVars, hook,
                      queue, crashes>>
       /\ \/ /\ saved' = data' /\ NoFault /\ UNCHANGED lossVars
             /\ After(UpdateClaimDeviceStatus(d))
          \/ Fault("checkpoint") /\ UNCHANGED saved /\ Lose /\ After(runner.writes)

\* What the status says of a device.  Mutant: what is on record.
RecordedData(d) == data[d]
StatusData(d) == runner.update.sandbox

\* The API server fails; it may go on failing for the attempts that follow.
Outage == IF runner.tries = 0 THEN Fault("api") ELSE "api" \in Faults /\ NoFault

\* updateClaimNetworkDataWithRetry: a conflict and any other error take one of
\* the attempts each.
UpdateStatus ==
    /\ runner.stage = "status"
    /\ UNCHANGED <<podVars, recordVars, fileVars, listed, hostVars, hook, queue,
                   crashes>>
    /\ \/ /\ status' = [d \in Devices |-> IF d \in runner.writes
                            THEN StatusData(d) ELSE status[d]]
          /\ NextClaim(runner.claims) /\ NoFault /\ UNCHANGED lossVars
       \/ /\ Outage /\ UNCHANGED status
          /\ IF runner.tries + 1 < Steps
               THEN /\ runner' = [runner EXCEPT !.tries = @ + 1]
                    /\ UNCHANGED lossVars
               ELSE NextClaim(runner.claims) /\ Lose

-----------------------------------------------------------------------------
(* The claim path, crashes *)

Without(f, p) == [d \in Devices |-> IF d \in GetDevicesByPodUID(p) THEN 0 ELSE f[d]]

\* ToKubeletPluginDevice(nil): the network data of the answer for a prepared
\* device.  Mutant: there is none.
NoNetworkData(d) == 0
NetworkDataOf(d) == data[d]

\* The kubelet prepares a pod before it has its sandbox run, and again, whatever
\* the pod is doing, after a restart of its own.  A successful answer writes the
\* metadata files: without network data when the pod is prepared, with what is on
\* record when it already is.
Prepare(p) ==
    /\ up /\ ClaimsOf(p) # {}
    /\ UNCHANGED <<podVars, status, hostVars, hook, queue, runner, lost, crashes>>
    /\ \/ /\ record[p] = 0
          /\ prepares < MaxPrepares /\ prepares' = prepares + 1
          /\ record' = [record EXCEPT ![p] = prepares + 1]
          /\ data' = Without(data, p) /\ saved' = data'
          /\ metadata' = Without(metadata, p) /\ repeated' = repeated \cup {p}
          /\ \/ listed' = listed \cup ClaimsOf(p) /\ NoFault
             \/ Fault("api") /\ UNCHANGED listed
          /\ UNCHANGED dropped
       \/ /\ record[p] # 0
          /\ metadata' = [d \in Devices |->
                IF d \in GetDevicesByPodUID(p) THEN NetworkDataOf(d) ELSE metadata[d]]
          /\ repeated' = repeated \cup {p}
          /\ NoFault /\ UNCHANGED <<recordVars, listed, dropped>>
       \/ \* no spec file for the pod: every claim is rolled back, also a recorded one
          /\ Fault("podSpec")
          /\ record' = [record EXCEPT ![p] = 0]
          /\ data' = Without(data, p) /\ saved' = data'
          /\ listed' = IF record[p] = 0 THEN listed \cup ClaimsOf(p) ELSE listed
          /\ dropped' = dropped \cup {p}
          /\ UNCHANGED <<prepares, fileVars>>

\* It unprepares a pod after the sandbox was stopped.
NoSandbox(p) == hook.pod # p /\ state[p] \in {"none", "failed", "stopped", "dead"}

Unprepare(p) ==
    /\ up /\ NoSandbox(p) /\ record[p] # 0
    /\ record' = [record EXCEPT ![p] = 0]
    /\ data' = Without(data, p) /\ saved' = data'
    /\ metadata' = Without(metadata, p)
    /\ UNCHANGED <<podVars, prepares, repeated, statusVars, hostVars, hook, queue, runner,
                   lossVars, faults, crashes>>

\* The sandboxes of p whose update waits or is being handled.
Pending(p) == {u.sandbox : u \in {v \in {queue[i] : i \in DOMAIN queue} \cup
                                         {runner.update} : v.pod = p}}

\* The process ends: a crash, or a hook took longer than the runtime waits, which
\* closes the plugin and cancels the main context.  The runtime goes on without
\* it, or gives the sandbox up.
Crash ==
    /\ up /\ crashes < MaxCrashes /\ crashes' = crashes + 1
    /\ up' = FALSE
    /\ hook' = NoHook /\ queue' = <<>> /\ runner' = IdleRunner
    /\ lost' = [p \in Pods |->
          IF sandbox[p] \in Pending(p) THEN sandbox[p] ELSE lost[p]]
    /\ data' = saved
    /\ CASE hook.stage = "idle" -> UNCHANGED state
         [] hook.stage = "detach" -> StopFails(hook.pod)
         [] OTHER -> \E s \in {"unhooked", "failed"} :
                        state' = [state EXCEPT ![hook.pod] = s]
    /\ UNCHANGED <<hostNetwork, record, saved, prepares, fileVars, statusVars,
                   sandbox, attached, dropped, faults>>

Restart ==
    /\ ~up /\ up' = TRUE
    /\ UNCHANGED <<hostNetwork, recordVars, fileVars, statusVars, hostVars, hook,
                   queue, runner, lossVars, faults, crashes>>

-----------------------------------------------------------------------------

Init ==
    /\ up = TRUE /\ hostNetwork \in SUBSET Pods
    /\ record = [p \in Pods |-> 0]
    /\ data = [d \in Devices |-> 0] /\ saved = data /\ metadata = data
    /\ listed = {} /\ status = [d \in Devices |-> 0]
    /\ sandbox = [p \in Pods |-> 0] /\ state = [p \in Pods |-> "none"]
    /\ attached = {} /\ hook = NoHook /\ queue = <<>> /\ runner = IdleRunner
    /\ lost = [p \in Pods |-> 0] /\ repeated = {} /\ dropped = {}
    /\ faults = 0 /\ prepares = 0 /\ crashes = 0

HookStep ==
    \/ \E d \in Devices : AttachNetwork(d) \/ DetachNetwork(d)
    \/ UpdateRequestMetadata \/ SendUpdate

RunnerStep ==
    \/ ReceiveUpdate
    \/ \E c \in Claims : GetClaim(c)
    \/ \E d \in Devices : UpdatePreparedDeviceNetworkData(d)
    \/ UpdateStatus

Next ==
    \/ HookStep
    \/ RunnerStep
    \/ \E p \in Pods : RunPodSandbox(p) \/ StopPodSandbox(p)
    \/ \E p \in Pods : Prepare(p) \/ Unprepare(p)
    \/ Crash \/ Restart

Spec == Init /\ [][Next]_vars

\* The goroutines of the hook and of the runner are scheduled.
FairSpec == Spec /\ WF_vars(HookStep) /\ WF_vars(RunnerStep)

-----------------------------------------------------------------------------
(* Properties *)

\* A sandbox that the hook let start has every device of its pod attached, and
\* the metadata files the containers read carry the data of exactly these
\* attachments, whatever failed, crashed or was prepared before; a prepare that
\* is repeated after the hook wrote them is the subject of the next property.
RunningIsAttached ==
    \A p \in Pods \ hostNetwork : state[p] = "running" =>
        \A d \in GetDevicesByPodUID(p) :
            /\ d \in attached
            /\ MetadataEnabled /\ p \notin repeated => metadata[d] = sandbox[p]

\* A repeated prepare leaves the data of a running sandbox in the metadata files,
\* unless the update of that sandbox is still queued or being handled, or was
\* lost, or the record has been rolled back meanwhile.
RepeatedPrepareKeepsData ==
    [][\A p \in Pods \ hostNetwork : state[p] = "running" /\ state'[p] = "running" =>
          \A d \in GetDevicesByPodUID(p) :
              metadata[d] = sandbox[p] /\ metadata'[d] # sandbox[p] =>
                  sandbox[p] \in Pending(p) \cup {lost[p]} \/ p \in dropped]_vars

\* A sandbox whose stop hook succeeded has no device left attached.
StoppedIsDetached ==
    \A p \in Pods : state[p] = "stopped" =>
        GetDevicesByPodUID(p) \cap attached = {}

\* The network data of a running sandbox is in the checkpoint and in the status
\* of its claims, or on its way there, or its loss has been logged or caused by
\* the end of the process: no update disappears in the grouping, in the queue or
\* in a record that was replaced.  A rollback under the sandbox takes the record.
NothingForgotten ==
    \A p \in Pods \ hostNetwork : state[p] = "running" /\ p \notin dropped =>
        \/ sandbox[p] \in Pending(p) \cup {lost[p]}
        \/ \A d \in GetDevicesByPodUID(p) :
              /\ saved[d] = sandbox[p]
              /\ ClaimOf[d] \in listed => status[d] = sandbox[p]

\* The status of a claim never goes back to the data of an earlier sandbox.
StatusNeverGoesBack ==
    [][\A d \in Devices : status'[d] >= status[d]]_vars

\* A hook always returns, although the send blocks when the channel is full and
\* the runner waits for the API server.
HookReturns == hook.stage # "idle" ~> hook.stage = "idle"
=============================================================================
