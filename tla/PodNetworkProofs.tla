-------------------------- MODULE PodNetworkProofs --------------------------
(***************************************************************************)
(* Theorems about PodNetwork, for every set of pods, claims and devices:   *)
(* what the hooks leave attached, what the hooks and a repeated prepare    *)
(* leave in the metadata files, and that the network data of a running     *)
(* sandbox reaches the checkpoint and the status of its claims, or its     *)
(* loss is known, in whatever order hooks, the runner, preparations,       *)
(* rollbacks, failures and crashes interleave.                             *)
(***************************************************************************)
EXTENDS PodNetwork, SequenceTheorems, TLAPS

\* The devices of pod p, each device being allocated to one claim of one pod.
Devs(p) == {d \in Devices : PodOf[ClaimOf[d]] = p}

\* The hook in progress: its pod, what it has attached or detached so far, and
\* what it has written to the metadata files.
HookInv ==
    hook.stage # "idle" =>
        /\ hook.pod \notin hostNetwork /\ hook.left \subseteq Devs(hook.pod)
        /\ hook.stage = "detach" =>
              /\ state[hook.pod] = "stopping"
              /\ \A d \in Devs(hook.pod) \ hook.left : d \notin attached
        /\ hook.stage # "detach" =>
              /\ state[hook.pod] = "starting"
              /\ \A d \in Devs(hook.pod) : hook.stage = "attach" => d \in attached \cup hook.left
              /\ \A d \in Devs(hook.pod) : hook.stage # "attach" => d \in attached
        /\ hook.stage = "send" /\ MetadataEnabled /\ hook.pod \notin repeated =>
              \A d \in Devs(hook.pod) : metadata[d] = sandbox[hook.pod]

\* A sandbox starts with a record and, unless that one is rolled back, keeps it:
\* a prepare that is repeated finds the pod prepared.
RecordInv ==
    /\ \A p \in Pods : state[p] \in {"starting", "running"} /\ p \notin dropped => record[p] # 0
    /\ hook.stage \in {"attach", "metadata", "send"} /\ hook.pod \notin dropped =>
          hook.record = record[hook.pod]

\* What the runner is at belongs to the pod of the update.
RunnerInv ==
    runner.stage # "idle" =>
        /\ \A c \in runner.claims : PodOf[c] = runner.update.pod
        /\ runner.stage = "claims" => runner.claim = NoClaim /\ runner.writes = {}
        /\ runner.stage # "claims" =>
              /\ runner.claim \in Claims /\ PodOf[runner.claim] = runner.update.pod
              /\ runner.left \subseteq Results(runner.claim)
              /\ runner.writes \subseteq Results(runner.claim)
        /\ runner.stage = "status" => runner.left = {}

\* No data of the devices of p is of a sandbox later than n, nor is a known loss.
PastUpTo(p, n) ==
    /\ lost[p] <= n
    /\ \A d \in Devs(p) : data[d] <= n /\ saved[d] <= n /\ status[d] <= n

\* An update that waits or is handled: it is of a sandbox that was started, and
\* while that one runs its preparation is the one on record, if not rolled back.
PendingOK(u) ==
    /\ u.sandbox <= sandbox[u.pod]
    /\ state[u.pod] = "starting" => u.sandbox <= sandbox[u.pod] - 1
    /\ state[u.pod] = "running" /\ u.sandbox = sandbox[u.pod] /\ u.pod \notin dropped
       => u.record = record[u.pod]

\* The updates of a pod are handled in the order of its sandboxes, so nothing
\* that was written is newer than what is still to be written.
OrderInv ==
    /\ \A p \in Pods : PastUpTo(p, IF state[p] = "starting" THEN sandbox[p] - 1 ELSE sandbox[p])
    /\ \A i \in DOMAIN queue :
          PendingOK(queue[i]) /\ PastUpTo(queue[i].pod, queue[i].sandbox - 1)
    /\ \A i, j \in DOMAIN queue :
          i < j /\ queue[i].pod = queue[j].pod => queue[i].sandbox < queue[j].sandbox
    /\ runner.stage # "idle" =>
          /\ PendingOK(runner.update) /\ PastUpTo(runner.update.pod, runner.update.sandbox)
          /\ \A i \in DOMAIN queue :
                queue[i].pod = runner.update.pod => runner.update.sandbox < queue[i].sandbox

\* The data n is in memory and in the checkpoint.
Stored(d, n) == data[d] = n /\ saved[d] = n
\* ... and, if the claim lists its devices, in its status.
Delivered(d, n) == Stored(d, n) /\ (ClaimOf[d] \in listed => status[d] = n)

\* What is done of the update of a running sandbox.
ProgressInv ==
    runner.stage # "idle" /\ state[runner.update.pod] = "running"
    /\ runner.update.sandbox = sandbox[runner.update.pod]
    /\ runner.update.pod \notin dropped
    /\ lost[runner.update.pod] # runner.update.sandbox
    => /\ \A d \in Devs(runner.update.pod) :
             ClaimOf[d] \notin runner.claims \cup {runner.claim}
             => Delivered(d, runner.update.sandbox)
       /\ runner.stage # "claims" =>
             /\ runner.found = (runner.claim \in listed)
             /\ \A d \in Results(runner.claim) \ runner.left :
                   /\ Stored(d, runner.update.sandbox)
                   /\ runner.found => d \in runner.writes

\* Every running sandbox: its update is pending, lost, or done.
DeliveredInv ==
    \A p \in Pods \ hostNetwork : state[p] = "running" /\ p \notin dropped =>
        \/ runner.stage # "idle" /\ runner.update.pod = p /\ runner.update.sandbox = sandbox[p]
        \/ \E i \in DOMAIN queue : queue[i].pod = p /\ queue[i].sandbox = sandbox[p]
        \/ lost[p] = sandbox[p]
        \/ \A d \in Devs(p) : Delivered(d, sandbox[p])

PodInv ==
    /\ TypeOK /\ HookInv /\ RunningIsAttached /\ StoppedIsDetached /\ RecordInv
    /\ RunnerInv /\ OrderInv /\ ProgressInv /\ DeliveredInv

-----------------------------------------------------------------------------
(* Operators *)

\* GetDevicesByPodUID collects exactly the devices whose claim is the pod's.
LEMMA DevsAre == \A p : GetDevicesByPodUID(p) = Devs(p)
  BY AllocationAssumption DEF GetDevicesByPodUID, ClaimsOf, Results, Devs

\* The values of the runner.
Runners == [stage : {"idle", "claims", "persist", "status"},
            update : Update \cup {NoUpdate}, claims : SUBSET Claims,
            claim : Claims \cup {NoClaim}, left : SUBSET Devices,
            found : BOOLEAN, writes : SUBSET Devices, tries : 0 .. Steps - 1]
Hooks == [stage : {"idle", "attach", "metadata", "send", "detach"},
          pod : Pods \cup {NoPod}, record : Nat, left : SUBSET Devices]
States == {"none", "starting", "running", "unhooked", "failed", "stopping", "stopped", "dead"}

\* An idle hook and an idle runner; the update of an idle runner is of no pod.
LEMMA IdleIs ==
    /\ NoHook \in Hooks /\ NoHook.stage = "idle" /\ NoHook.pod = NoPod
    /\ IdleRunner \in Runners /\ IdleRunner.stage = "idle" /\ IdleRunner.update = NoUpdate
    /\ NoUpdate \notin Update /\ NoUpdate.pod = NoPod /\ NoPod \notin Pods
    /\ NoUpdate.sandbox = 0
  <1>1. NoHook \in Hooks /\ NoHook.stage = "idle" /\ NoHook.pod = NoPod
    BY DEF NoHook, Hooks
  <1>2. 0 \in 0 .. Steps - 1 BY BoundAssumption
  <1>3. IdleRunner \in Runners /\ IdleRunner.stage = "idle" /\ IdleRunner.update = NoUpdate
    BY <1>2 DEF IdleRunner, Runners
  <1>4. NoUpdate \notin Update /\ NoUpdate.pod = NoPod /\ NoPod \notin Pods
        /\ NoUpdate.sandbox = 0
    BY AllocationAssumption DEF NoUpdate, Update
  <1> QED BY <1>1, <1>3, <1>4

\* TypeOK in one fact per variable.
LEMMA Types ==
    TypeOK <=>
        /\ up \in BOOLEAN /\ hostNetwork \subseteq Pods
        /\ record \in [Pods -> Nat]
        /\ data \in [Devices -> Nat] /\ saved \in [Devices -> Nat]
        /\ metadata \in [Devices -> Nat]
        /\ listed \subseteq Claims /\ status \in [Devices -> Nat]
        /\ sandbox \in [Pods -> Nat] /\ state \in [Pods -> States]
        /\ attached \subseteq Devices
        /\ hook \in Hooks /\ (hook.stage = "idle" <=> hook.pod = NoPod)
        /\ queue \in Seq(Update) /\ Len(queue) <= Capacity
        /\ runner \in Runners /\ (runner.stage = "idle" <=> runner.update = NoUpdate)
        /\ lost \in [Pods -> Nat]
        /\ repeated \subseteq Pods /\ dropped \subseteq Pods
        /\ faults \in Nat /\ prepares \in Nat /\ crashes \in Nat
  BY DEF TypeOK, Runners, Hooks, States

\* The runner turns to the next claim of its update, or is done with it.
LEMMA NextClaimIs ==
    ASSUME TypeOK, runner.stage # "idle", NEW rest \in SUBSET Claims, NextClaim(rest)
    PROVE  /\ runner' \in Runners /\ (runner'.stage = "idle" <=> runner'.update = NoUpdate)
           /\ \/ rest = {} /\ runner' = IdleRunner /\ runner'.stage = "idle"
              \/ /\ rest # {} /\ runner'.stage = "claims" /\ runner'.update = runner.update
                 /\ runner'.claims = rest /\ runner'.claim = NoClaim /\ runner'.writes = {}
  <1>1. CASE rest = {} BY <1>1, IdleIs DEF NextClaim
  <1>2. CASE rest # {}
    <2>1. runner.update \in Update BY Types, IdleIs DEF Runners
    <2>2. runner' = [stage |-> "claims", update |-> runner.update, claims |-> rest,
                     claim |-> NoClaim, left |-> {}, found |-> FALSE, writes |-> {},
                     tries |-> 0]
      BY <1>2 DEF NextClaim, IdleRunner
    <2>3. 0 \in 0 .. Steps - 1 BY BoundAssumption
    <2>4. /\ runner'.stage = "claims" /\ runner'.update = runner.update
          /\ runner'.claims = rest /\ runner'.claim = NoClaim /\ runner'.writes = {}
      BY <2>2
    <2>5. runner' \in Runners BY <2>1, <2>2, <2>3 DEF Runners
    <2> QED BY <1>2, <2>1, <2>4, <2>5, IdleIs
  <1> QED BY <1>1, <1>2

\* The update the runner receives is the oldest of the channel.
LEMMA ReceiveIs ==
    ASSUME TypeOK, ReceiveUpdate
    PROVE  /\ runner.stage = "idle" /\ Len(queue) > 0
           /\ queue[1] \in Update /\ runner'.update = queue[1]
           /\ runner' \in Runners /\ runner'.stage = "claims" /\ runner'.writes = {}
           /\ runner'.claims = ClaimsOf(queue[1].pod) /\ runner'.claim = NoClaim
           /\ queue' \in Seq(Update) /\ Len(queue') = Len(queue) - 1
           /\ \A i \in DOMAIN queue' : i + 1 \in DOMAIN queue /\ queue'[i] = queue[i + 1]
           /\ 1 \in DOMAIN queue /\ \A i \in DOMAIN queue : i = 1 \/ i - 1 \in DOMAIN queue'
  <1>1. queue \in Seq(Update) BY Types
  <1>2. queue # <<>> /\ queue' = Tail(queue) /\ runner.stage = "idle"
    BY DEF ReceiveUpdate
  <1>3. /\ Len(queue) \in Nat /\ Len(queue) > 0 /\ Head(queue) = queue[1]
        /\ queue[1] \in Update /\ DOMAIN queue = 1 .. Len(queue)
    BY <1>1, <1>2
  <1>4. /\ queue' \in Seq(Update) /\ Len(queue') = Len(queue) - 1
        /\ \A i \in 1 .. Len(queue) - 1 : queue'[i] = queue[i + 1]
    BY <1>1, <1>2
  <1>5. DOMAIN queue' = 1 .. Len(queue) - 1 BY <1>4
  <1>6. /\ \A i \in DOMAIN queue' : i + 1 \in DOMAIN queue /\ queue'[i] = queue[i + 1]
        /\ 1 \in DOMAIN queue /\ \A i \in DOMAIN queue : i = 1 \/ i - 1 \in DOMAIN queue'
    BY <1>3, <1>4, <1>5
  <1>7. runner' = [stage |-> "claims", update |-> queue[1],
                   claims |-> ClaimsOf(queue[1].pod), claim |-> NoClaim, left |-> {},
                   found |-> FALSE, writes |-> {}, tries |-> 0]
    BY <1>3 DEF ReceiveUpdate, IdleRunner, GroupNetworkDataByClaim
  <1>8. 0 \in 0 .. Steps - 1 BY BoundAssumption
  <1>9. ClaimsOf(queue[1].pod) \subseteq Claims BY DEF ClaimsOf
  <1>10. runner' \in Runners BY <1>3, <1>7, <1>8, <1>9 DEF Runners
  <1>11. /\ runner'.update = queue[1] /\ runner'.stage = "claims" /\ runner'.writes = {}
         /\ runner'.claims = ClaimsOf(queue[1].pod) /\ runner'.claim = NoClaim
    BY <1>7
  <1> QED BY <1>2, <1>3, <1>4, <1>6, <1>10, <1>11

\* The hook queues the update behind those that wait.
LEMMA SendIs ==
    ASSUME TypeOK, SendUpdate
    PROVE  LET n == Len(queue) + 1
           IN  /\ hook.pod \in Pods /\ queue' \in Seq(Update) /\ Len(queue') <= Capacity
               /\ DOMAIN queue' = DOMAIN queue \cup {n} /\ \A i \in DOMAIN queue : i < n
               /\ DOMAIN queue \subseteq Nat /\ n \in Nat
               /\ \A i \in DOMAIN queue : queue'[i] = queue[i]
               /\ queue'[n].pod = hook.pod /\ queue'[n].sandbox = sandbox[hook.pod]
               /\ queue'[n].record = hook.record
  <1>1. queue \in Seq(Update) /\ hook \in Hooks /\ (hook.stage = "idle" <=> hook.pod = NoPod)
        /\ sandbox \in [Pods -> Nat]
    BY Types
  <1>2. hook.stage = "send" /\ Len(queue) < Capacity BY DEF SendUpdate, Room
  <1>3. hook.pod \in Pods /\ hook.record \in Nat BY <1>1, <1>2 DEF Hooks
  <1> DEFINE u == [pod |-> hook.pod, sandbox |-> sandbox[hook.pod], record |-> hook.record]
  <1>4. /\ u \in Update /\ u.pod = hook.pod /\ u.sandbox = sandbox[hook.pod]
        /\ u.record = hook.record
    BY <1>1, <1>3 DEF Update
  <1>5. queue' = Append(queue, u) BY DEF SendUpdate
  <1> HIDE DEF u
  <1>6. /\ queue' \in Seq(Update) /\ Len(queue') = Len(queue) + 1 /\ Len(queue) \in Nat
        /\ DOMAIN queue = 1 .. Len(queue) /\ DOMAIN queue' = 1 .. Len(queue) + 1
        /\ \A i \in 1 .. Len(queue) : queue'[i] = queue[i]
        /\ queue'[Len(queue) + 1] = u
    BY <1>1, <1>4, <1>5
  <1>7. Len(queue) + 1 <= Capacity BY <1>2, <1>6, BoundAssumption
  <1>8. /\ 1 .. Len(queue) + 1 = (1 .. Len(queue)) \cup {Len(queue) + 1}
        /\ \A i \in 1 .. Len(queue) : i < Len(queue) + 1
    BY <1>6
  <1> QED BY <1>3, <1>4, <1>6, <1>7, <1>8

-----------------------------------------------------------------------------
(* Types *)

\* The hook is about to return; the runtime holds the sandbox for failed.
LEMMA HookPod ==
    ASSUME TypeOK, hook.stage # "idle"
    PROVE  hook.pod \in Pods
  BY Types DEF Hooks

\* A state of pod p is replaced.
LEMMA StateType ==
    ASSUME TypeOK, NEW p, NEW s \in States, state' = [state EXCEPT ![p] = s]
    PROVE  state' \in [Pods -> States]
  BY Types

\* Steps of the hook keep the types.
LEMMA HookTypes == TypeOK /\ HookStep => TypeOK'
  <1> SUFFICES ASSUME TypeOK, HookStep PROVE TypeOK' OBVIOUS
  <1>0. /\ hook \in Hooks /\ attached \subseteq Devices /\ faults \in Nat
        /\ metadata \in [Devices -> Nat] /\ sandbox \in [Pods -> Nat]
        /\ state \in [Pods -> States] /\ repeated \subseteq Pods
    BY Types
  <1> USE DEF podVars, recordVars, fileVars, statusVars, lossVars, hostVars, Fault, NoFault
  <1>1. ASSUME NEW d \in Devices, AttachNetwork(d) PROVE TypeOK'
    <2>1. /\ UNCHANGED <<podVars, recordVars, fileVars, statusVars, sandbox, queue, runner,
                         lossVars, crashes>> /\ faults' \in Nat /\ attached' \subseteq Devices
          /\ hook.stage # "idle"
      BY <1>0, <1>1 DEF AttachNetwork
    <2>2. CASE RunFails
      <3>1. state' \in [Pods -> States] /\ hook' = NoHook
        BY <2>2, StateType DEF RunFails, States
      <3> QED BY <2>1, <3>1, IdleIs DEF TypeOK, Runners, Hooks, States
    <2>3. CASE state' = state /\ hook' = [hook EXCEPT !.left = @ \ {d},
                !.stage = CASE hook.left # {d} -> "attach"
                            [] hook.left = {d} /\ MetadataEnabled -> "metadata"
                            [] OTHER -> "send"]
      <3> DEFINE s == CASE hook.left # {d} -> "attach"
                        [] hook.left = {d} /\ MetadataEnabled -> "metadata"
                        [] OTHER -> "send"
                 r == hook.left \ {d}
      <3>1. s \in {"attach", "metadata", "send"} BY AllocationAssumption
      <3>2. hook' = [hook EXCEPT !.left = r, !.stage = s] BY <2>3
      <3>3. r \subseteq Devices BY <1>0 DEF Hooks
      <3> HIDE DEF s, r
      <3>4. hook' \in Hooks /\ hook'.stage # "idle" /\ hook'.pod = hook.pod
        BY <1>0, <3>1, <3>2, <3>3 DEF Hooks
      <3>5. hook.pod # NoPod BY <2>1, Types
      <3> QED BY <2>1, <2>3, <3>4, <3>5 DEF TypeOK, Runners, Hooks, States
    <2> QED BY <1>1, <2>2, <2>3 DEF AttachNetwork
  <1>2. ASSUME NEW d \in Devices, DetachNetwork(d) PROVE TypeOK'
    <2>1. /\ UNCHANGED <<podVars, recordVars, fileVars, statusVars, sandbox, queue, runner,
                         lossVars, crashes>> /\ faults' \in Nat /\ attached' \subseteq Devices
          /\ hook.stage # "idle"
      BY <1>0, <1>2 DEF DetachNetwork
    <2>2. CASE hook' = NoHook /\ (state' = [state EXCEPT ![hook.pod] = "stopped"]
                                  \/ StopFails(hook.pod))
      <3>1. state' \in [Pods -> States] BY <2>2, StateType DEF StopFails, States
      <3> QED BY <2>1, <2>2, <3>1, IdleIs DEF TypeOK, Runners, Hooks, States
    <2>3. CASE hook' = [hook EXCEPT !.left = @ \ {d}] /\ state' = state
      <3>1. hook' \in Hooks /\ hook'.stage = hook.stage /\ hook'.pod = hook.pod
        BY <1>0, <2>3 DEF Hooks
      <3> QED BY <2>1, <2>3, <3>1 DEF TypeOK, Runners, Hooks, States
    <2> QED BY <1>2, <2>2, <2>3 DEF DetachNetwork
  <1>3. CASE UpdateRequestMetadata
    <2>1. /\ UNCHANGED <<podVars, recordVars, statusVars, sandbox, attached, queue, runner,
                         lossVars, crashes>> /\ faults' \in Nat /\ hook.stage = "metadata"
      BY <1>0, <1>3 DEF UpdateRequestMetadata
    <2>2. sandbox[hook.pod] \in Nat BY <2>1, <1>0, HookPod
    <2>3. metadata' \in [Devices -> Nat] /\ repeated' \subseteq Pods
      BY <1>0, <1>3, <2>2 DEF UpdateRequestMetadata, MetadataWith
    <2>4. CASE RunFails
      <3>1. state' \in [Pods -> States] /\ hook' = NoHook
        BY <2>4, StateType DEF RunFails, States
      <3> QED BY <2>1, <2>3, <3>1, IdleIs DEF TypeOK, Runners, Hooks, States
    <2>5. CASE hook' = [hook EXCEPT !.stage = "send"] /\ state' = state
      <3>1. hook' \in Hooks /\ hook'.stage = "send" /\ hook'.pod = hook.pod
        BY <1>0, <2>5 DEF Hooks
      <3> QED BY <2>1, <2>3, <2>5, <3>1 DEF TypeOK, Runners, Hooks, States
    <2> QED BY <1>3, <2>4, <2>5 DEF UpdateRequestMetadata
  <1>4. CASE SendUpdate
    <2>1. UNCHANGED <<podVars, recordVars, fileVars, statusVars, sandbox, attached, runner,
                      lossVars, faults, crashes>> /\ hook' = NoHook
      BY <1>4 DEF SendUpdate
    <2>2. state' \in [Pods -> States] BY <1>4, StateType DEF SendUpdate, States
    <2>3. queue' \in Seq(Update) /\ Len(queue') <= Capacity BY <1>4, SendIs
    <2> QED BY <2>1, <2>2, <2>3, IdleIs DEF TypeOK, Runners, Hooks, States
  <1> QED BY <1>1, <1>2, <1>3, <1>4 DEF HookStep

\* Steps of the runner keep the types.
LEMMA RunnerTypes == TypeOK /\ RunnerInv /\ RunnerStep => TypeOK'
  <1> SUFFICES ASSUME TypeOK, RunnerInv, RunnerStep PROVE TypeOK' OBVIOUS
  <1>0. /\ runner \in Runners /\ faults \in Nat /\ lost \in [Pods -> Nat]
        /\ dropped \subseteq Pods
        /\ data \in [Devices -> Nat] /\ status \in [Devices -> Nat]
        /\ runner.claims \in SUBSET Claims /\ saved \in [Devices -> Nat]
    BY Types DEF Runners
  <1> USE DEF podVars, recordVars, fileVars, statusVars, lossVars, hostVars, Fault, NoFault
  <1>1. ASSUME runner.stage # "idle" PROVE runner.update \in Update /\ runner.update.sandbox \in Nat
    BY <1>1, Types DEF Runners, Update
  <1>2. ASSUME runner.stage # "idle", Lose
        PROVE  lost' \in [Pods -> Nat] /\ dropped' \subseteq Pods
    BY <1>0, <1>1, <1>2 DEF Lose
  <1>3. CASE ReceiveUpdate
    <2>1. /\ runner' \in Runners /\ queue' \in Seq(Update) /\ Len(queue') <= Capacity
          /\ (runner'.stage = "idle" <=> runner'.update = NoUpdate)
      <3>1. Len(queue) <= Capacity /\ Len(queue) \in Nat BY Types
      <3> QED BY <1>3, <3>1, ReceiveIs, IdleIs, BoundAssumption
    <2>2. UNCHANGED <<podVars, recordVars, fileVars, statusVars, hostVars, hook, lossVars,
                      faults, crashes>>
      BY <1>3 DEF ReceiveUpdate
    <2> QED BY <2>1, <2>2 DEF TypeOK, Runners, Hooks, States
  <1>4. ASSUME NEW c \in Claims, GetClaim(c) PROVE TypeOK'
    <2>1. /\ UNCHANGED <<podVars, recordVars, fileVars, statusVars, hostVars, hook, queue,
                         crashes>> /\ faults' \in Nat /\ runner.stage = "claims"
      BY <1>0, <1>4 DEF GetClaim
    <2>2. lost' \in [Pods -> Nat] /\ dropped' \subseteq Pods BY <1>0, <1>2, <1>4, <2>1 DEF GetClaim
    <2>3. runner' \in Runners /\ (runner'.stage = "idle" <=> runner'.update = NoUpdate)
      <3>1. CASE NextClaim(runner.claims \ {c})
        <4>1. runner.claims \ {c} \in SUBSET Claims BY <1>0
        <4> QED BY <2>1, <3>1, <4>1, NextClaimIs
      <3>2. CASE runner' = [runner EXCEPT !.stage = "persist", !.claim = c,
                                      !.claims = @ \ {c}, !.left = Results(c),
                                      !.found = c \in listed]
        <4>1. runner.claims \ {c} \in SUBSET Claims /\ Results(c) \in SUBSET Devices
          BY <1>0 DEF Results
        <4>2. (c \in listed) \in BOOLEAN OBVIOUS
        <4>3. runner' \in Runners /\ runner'.stage = "persist" /\ runner'.update = runner.update
          BY <1>0, <3>2, <4>1, <4>2 DEF Runners
        <4> QED BY <2>1, <4>3, <1>1, IdleIs
      <3> QED BY <1>4, <3>1, <3>2 DEF GetClaim
    <2> QED BY <2>1, <2>2, <2>3 DEF TypeOK, Runners, Hooks, States
  <1>5. ASSUME NEW d \in Devices, UpdatePreparedDeviceNetworkData(d) PROVE TypeOK'
    <2>1. /\ UNCHANGED <<podVars, record, prepares, fileVars, statusVars, hostVars, hook,
                         queue, crashes>> /\ faults' \in Nat /\ runner.stage = "persist"
      BY <1>0, <1>5 DEF UpdatePreparedDeviceNetworkData
    <2>2. data' \in [Devices -> Nat]
      BY <1>0, <1>1, <1>5, <2>1 DEF UpdatePreparedDeviceNetworkData
    <2>3. saved' \in [Devices -> Nat]
      BY <1>0, <1>5, <2>2 DEF UpdatePreparedDeviceNetworkData
    <2>4. lost' \in [Pods -> Nat] /\ dropped' \subseteq Pods
      BY <1>0, <1>2, <1>5, <2>1 DEF UpdatePreparedDeviceNetworkData
    <2>5. runner' \in Runners /\ (runner'.stage = "idle" <=> runner'.update = NoUpdate)
      <3>1. CASE NextClaim(runner.claims) BY <1>0, <2>1, <3>1, NextClaimIs
      <3>2. ASSUME NEW ws \in {runner.writes, UpdateClaimDeviceStatus(d)},
                   runner' = [runner EXCEPT
                            !.stage = IF runner.left = {d} THEN "status" ELSE @,
                            !.left = @ \ {d}, !.writes = ws]
            PROVE  runner' \in Runners /\ (runner'.stage = "idle" <=> runner'.update = NoUpdate)
        <4> DEFINE s == IF runner.left = {d} THEN "status" ELSE runner.stage
                   l == runner.left \ {d}
        <4>1. s \in {"persist", "status"} /\ l \in SUBSET Devices /\ ws \in SUBSET Devices
          BY <1>0, <2>1, <3>2 DEF Runners, UpdateClaimDeviceStatus
        <4>2. runner' = [runner EXCEPT !.stage = s, !.left = l, !.writes = ws] BY <3>2
        <4> HIDE DEF s, l
        <4>3. runner' \in Runners /\ runner'.stage = s /\ runner'.update = runner.update
          BY <1>0, <4>1, <4>2 DEF Runners
        <4> QED BY <2>1, <4>1, <4>3, <1>1, IdleIs
      <3> QED BY <1>5, <3>1, <3>2 DEF UpdatePreparedDeviceNetworkData
    <2> QED BY <2>1, <2>2, <2>3, <2>4, <2>5 DEF TypeOK, Runners, Hooks, States
  <1>6. CASE UpdateStatus
    <2>1. /\ UNCHANGED <<podVars, recordVars, fileVars, listed, hostVars, hook, queue,
                         crashes>> /\ faults' \in Nat /\ runner.stage = "status"
      BY <1>0, <1>6 DEF UpdateStatus, Outage
    <2>2. status' \in [Devices -> Nat] BY <1>0, <1>1, <1>6, <2>1 DEF UpdateStatus, StatusData
    <2>3. lost' \in [Pods -> Nat] /\ dropped' \subseteq Pods BY <1>0, <1>2, <1>6, <2>1 DEF UpdateStatus
    <2>4. runner' \in Runners /\ (runner'.stage = "idle" <=> runner'.update = NoUpdate)
      <3>1. CASE NextClaim(runner.claims) BY <1>0, <2>1, <3>1, NextClaimIs
      <3>2. CASE runner.tries + 1 < Steps /\ runner' = [runner EXCEPT !.tries = @ + 1]
        <4>1. runner.tries + 1 \in 0 .. Steps - 1
          BY <1>0, <3>2, BoundAssumption DEF Runners
        <4>2. runner' \in Runners /\ runner'.stage = "status" /\ runner'.update = runner.update
          BY <1>0, <2>1, <3>2, <4>1 DEF Runners
        <4> QED BY <2>1, <4>2, <1>1, IdleIs
      <3> QED BY <1>6, <3>1, <3>2 DEF UpdateStatus
    <2> QED BY <2>1, <2>2, <2>3, <2>4 DEF TypeOK, Runners, Hooks, States
  <1> QED BY <1>3, <1>4, <1>5, <1>6 DEF RunnerStep

\* Calls of the runtime and of the kubelet, crashes and restarts keep the types.
LEMMA OtherTypes ==
    ASSUME TypeOK,
           \/ \E p \in Pods : RunPodSandbox(p) \/ StopPodSandbox(p)
           \/ \E p \in Pods : Prepare(p) \/ Unprepare(p)
           \/ Crash \/ Restart
    PROVE  TypeOK'
  <1>0. /\ hook \in Hooks /\ attached \subseteq Devices /\ faults \in Nat
        /\ data \in [Devices -> Nat] /\ saved \in [Devices -> Nat] /\ prepares \in Nat
        /\ metadata \in [Devices -> Nat] /\ sandbox \in [Pods -> Nat]
        /\ state \in [Pods -> States] /\ record \in [Pods -> Nat] /\ lost \in [Pods -> Nat]
        /\ crashes \in Nat /\ listed \subseteq Claims /\ up \in BOOLEAN
        /\ repeated \subseteq Pods /\ dropped \subseteq Pods
    BY Types
  <1> USE DEF podVars, recordVars, fileVars, statusVars, lossVars, hostVars, Fault, NoFault
  <1>1. ASSUME NEW p \in Pods, NEW s \in {"attach", "detach"},
               hook' = [stage |-> s, pod |-> p, record |-> record[p],
                        left |-> GetDevicesByPodUID(p)]
        PROVE  hook' \in Hooks /\ (hook'.stage = "idle" <=> hook'.pod = NoPod)
    <2>1. GetDevicesByPodUID(p) \subseteq Devices BY DEF GetDevicesByPodUID, Results
    <2> QED BY <1>0, <1>1, <2>1, IdleIs DEF Hooks
  <1>2. ASSUME NEW p \in Pods, RunPodSandbox(p) PROVE TypeOK'
    <2>1. /\ UNCHANGED <<podVars, recordVars, fileVars, statusVars, queue, runner, lost,
                         faults, crashes>>
          /\ dropped' = dropped \ {p}
          /\ sandbox' = [sandbox EXCEPT ![p] = @ + 1]
          /\ attached' = attached \ GetDevicesByPodUID(p)
      BY <1>2 DEF RunPodSandbox, MayRun
    <2>2. sandbox' \in [Pods -> Nat] /\ attached' \subseteq Devices /\ dropped' \subseteq Pods
      BY <1>0, <2>1
    <2>3. state' \in [Pods -> States] BY <1>2, StateType DEF RunPodSandbox, States
    <2>4. hook' \in Hooks /\ (hook'.stage = "idle" <=> hook'.pod = NoPod)
      BY <1>1, <1>2, Types DEF RunPodSandbox
    <2> QED BY <2>1, <2>2, <2>3, <2>4 DEF TypeOK, Runners, Hooks, States
  <1>3. ASSUME NEW p \in Pods, StopPodSandbox(p) PROVE TypeOK'
    <2>1. UNCHANGED <<podVars, recordVars, fileVars, statusVars, sandbox, attached, queue,
                      runner, lossVars, faults, crashes>>
      BY <1>3 DEF StopPodSandbox
    <2>2. state' \in [Pods -> States]
      <3>1. (IF state[p] = "stopped" THEN state[p] ELSE "dead") \in States BY DEF States
      <3> QED BY <1>3, <3>1, StateType DEF StopPodSandbox, StopFails, States
    <2>3. hook' \in Hooks /\ (hook'.stage = "idle" <=> hook'.pod = NoPod)
      BY <1>1, <1>3, Types DEF StopPodSandbox
    <2> QED BY <2>1, <2>2, <2>3 DEF TypeOK, Runners, Hooks, States
  <1>4. ASSUME NEW p \in Pods, Prepare(p) PROVE TypeOK'
    <2>1. UNCHANGED <<podVars, status, hostVars, hook, queue, runner, lost, crashes>>
      BY <1>4 DEF Prepare
    <2>2. listed' \subseteq Claims /\ faults' \in Nat
      BY <1>0, <1>4 DEF Prepare, ClaimsOf
    <2>3. /\ record' \in [Pods -> Nat] /\ prepares' \in Nat
          /\ repeated' \subseteq Pods /\ dropped' \subseteq Pods
      BY <1>0, <1>4 DEF Prepare
    <2>4. data' \in [Devices -> Nat] /\ saved' \in [Devices -> Nat]
      BY <1>0, <1>4 DEF Prepare, Without
    <2>5. metadata' \in [Devices -> Nat]
      BY <1>0, <1>4 DEF Prepare, Without, NetworkDataOf
    <2> QED BY <2>1, <2>2, <2>3, <2>4, <2>5 DEF TypeOK, Runners, Hooks, States
  <1>5. ASSUME NEW p \in Pods, Unprepare(p) PROVE TypeOK'
    <2>1. UNCHANGED <<podVars, prepares, repeated, statusVars, hostVars, hook, queue, runner, lossVars,
                      faults, crashes>>
      BY <1>5 DEF Unprepare
    <2>2. /\ record' \in [Pods -> Nat] /\ data' \in [Devices -> Nat]
          /\ saved' \in [Devices -> Nat] /\ metadata' \in [Devices -> Nat]
      BY <1>0, <1>5 DEF Unprepare, Without
    <2> QED BY <2>1, <2>2 DEF TypeOK, Runners, Hooks, States
  <1>6. CASE Crash
    <2>1. /\ UNCHANGED <<hostNetwork, record, saved, prepares, fileVars, statusVars,
                         sandbox, attached, dropped, faults>>
          /\ hook' = NoHook /\ queue' = <<>> /\ runner' = IdleRunner /\ data' = saved
      BY <1>6 DEF Crash
    <2>2. up' \in BOOLEAN BY <1>6 DEF Crash
    <2>3. lost' \in [Pods -> Nat] BY <1>0, <1>6 DEF Crash
    <2>4. state' \in [Pods -> States]
      BY <1>0, <1>6, StateType DEF Crash, StopFails, States
    <2>5. crashes' \in Nat BY <1>0, <1>6 DEF Crash
    <2>6. queue' \in Seq(Update) /\ Len(queue') <= Capacity BY <2>1, BoundAssumption
    <2> QED BY <2>1, <2>2, <2>3, <2>4, <2>5, <2>6, IdleIs DEF TypeOK, Runners, Hooks, States
  <1>7. CASE Restart
    <2>1. UNCHANGED <<hostNetwork, recordVars, fileVars, statusVars, hostVars, hook, queue,
                      runner, lossVars, faults, crashes>>
      BY <1>7 DEF Restart
    <2>2. up' \in BOOLEAN BY <1>7 DEF Restart
    <2> QED BY <2>1, <2>2 DEF TypeOK, Runners, Hooks, States
  <1> QED BY <1>2, <1>3, <1>4, <1>5, <1>6, <1>7

-----------------------------------------------------------------------------
(* What is attached *)

AttachInv == HookInv /\ RunningIsAttached /\ StoppedIsDetached

\* A device belongs to one pod.
LEMMA DevsApart ==
    ASSUME NEW p, NEW q, p # q
    PROVE  Devs(p) \cap Devs(q) = {}
  BY DEF Devs

\* AttachInv is about these variables only.
LEMMA AttachKept ==
    ASSUME AttachInv,
           UNCHANGED <<hostNetwork, metadata, repeated, sandbox, state, attached, hook>>
    PROVE  AttachInv'
  BY DEF AttachInv, HookInv, RunningIsAttached, StoppedIsDetached

\* ADD, DEL and the metadata files: the steps of a hook.
LEMMA HookAttach == TypeOK /\ AttachInv /\ HookStep => AttachInv'
  <1> SUFFICES ASSUME TypeOK, AttachInv, HookStep PROVE AttachInv' OBVIOUS
  <1>0. /\ hook \in Hooks /\ attached \subseteq Devices /\ state \in [Pods -> States]
        /\ metadata \in [Devices -> Nat] /\ sandbox \in [Pods -> Nat]
    BY Types
  <1> DEFINE q == hook.pod
  <1>q. hook.stage # "idle" => q \in Pods BY HookPod
  <1>h. NoHook.stage = "idle" BY IdleIs
  <1> USE DEF podVars, fileVars
  <1>1. ASSUME NEW d \in Devices, AttachNetwork(d) PROVE AttachInv'
    <2>1. /\ UNCHANGED <<podVars, metadata, repeated, sandbox>> /\ attached \subseteq attached'
          /\ attached' \subseteq attached \cup {d} /\ d \in hook.left /\ hook.stage = "attach"
      BY <1>1 DEF AttachNetwork
    <2>2. /\ q \in Pods \ hostNetwork /\ state[q] = "starting" /\ hook.left \subseteq Devs(q)
          /\ \A e \in Devs(q) : e \in attached \cup hook.left
      BY <2>1, <1>q DEF AttachInv, HookInv
    <2>3. d \in Devs(q) BY <2>1, <2>2
    <2>4. \A p \in Pods : p # q => d \notin Devs(p) BY <2>3, DevsApart
    <2>5. CASE RunFails
      <3>1. hook' = NoHook /\ state' = [state EXCEPT ![q] = "failed"] BY <2>5 DEF RunFails
      <3>2. /\ \A p \in Pods : state'[p] = "running" => state[p] = "running"
            /\ \A p \in Pods : state'[p] = "stopped" => state[p] = "stopped" /\ p # q
        BY <1>0, <2>2, <3>1
      <3>3. HookInv' BY <3>1, <1>h DEF HookInv
      <3>4. RunningIsAttached' BY <2>1, <3>2 DEF AttachInv, RunningIsAttached
      <3>5. StoppedIsDetached'
        BY <2>1, <2>4, <3>2, DevsAre DEF AttachInv, StoppedIsDetached
      <3> QED BY <3>3, <3>4, <3>5 DEF AttachInv
    <2>6. CASE /\ state' = state /\ attached' = attached \cup {d}
               /\ hook' = [hook EXCEPT !.left = @ \ {d},
                             !.stage = CASE hook.left # {d} -> "attach"
                                         [] hook.left = {d} /\ MetadataEnabled -> "metadata"
                                         [] OTHER -> "send"]
      <3>1. RunningIsAttached' BY <2>1, <2>6 DEF AttachInv, RunningIsAttached
      <3>2. StoppedIsDetached'
        BY <2>1, <2>2, <2>4, <2>6, DevsAre DEF AttachInv, StoppedIsDetached
      <3>3. /\ hook'.pod = q /\ hook'.left = hook.left \ {d}
            /\ hook'.stage = CASE hook.left # {d} -> "attach"
                               [] hook.left = {d} /\ MetadataEnabled -> "metadata"
                               [] OTHER -> "send"
        BY <2>6, <1>0 DEF Hooks
      <3>4. /\ hook'.stage \in {"attach", "metadata", "send"}
            /\ hook'.stage # "attach" => hook.left = {d}
            /\ hook'.stage = "send" => ~MetadataEnabled
        <4>1. CASE hook.left # {d} BY <3>3, <4>1
        <4>2. CASE hook.left = {d} /\ MetadataEnabled BY <3>3, <4>2
        <4>3. CASE hook.left = {d} /\ ~MetadataEnabled BY <3>3, <4>3
        <4> QED BY <4>1, <4>2, <4>3
      <3>5. HookInv' BY <2>1, <2>2, <2>6, <3>3, <3>4 DEF HookInv
      <3> QED BY <3>1, <3>2, <3>5 DEF AttachInv
    <2> QED BY <1>1, <2>5, <2>6 DEF AttachNetwork
  <1>2. ASSUME NEW d \in Devices, DetachNetwork(d) PROVE AttachInv'
    <2>1. /\ UNCHANGED <<podVars, metadata, repeated, sandbox>> /\ d \in hook.left
          /\ hook.stage = "detach"
      BY <1>2 DEF DetachNetwork
    <2>2. /\ q \in Pods \ hostNetwork /\ state[q] = "stopping" /\ hook.left \subseteq Devs(q)
          /\ \A e \in Devs(q) \ hook.left : e \notin attached
      BY <2>1, <1>q DEF AttachInv, HookInv
    <2>3. d \in Devs(q) BY <2>1, <2>2
    <2>4. \A p \in Pods : p # q => d \notin Devs(p) BY <2>3, DevsApart
    <2>5. attached' \subseteq attached /\ attached \ {d} \subseteq attached'
      BY <1>2 DEF DetachNetwork
    <2>6. ASSUME \A p \in Pods \ {q} : state'[p] = state[p],
                 state'[q] \notin {"running", "stopped"}
                 \/ (state'[q] = "stopped" /\ hook.left = {d} /\ attached' = attached \ {d})
          PROVE  RunningIsAttached' /\ StoppedIsDetached'
      <3>1. RunningIsAttached'
        BY <2>1, <2>2, <2>4, <2>5, <2>6, DevsAre DEF AttachInv, RunningIsAttached
      <3>2. StoppedIsDetached'
        BY <2>2, <2>5, <2>6, DevsAre DEF AttachInv, StoppedIsDetached
      <3> QED BY <3>1, <3>2
    <2>7. CASE hook' = NoHook
      <3>1. HookInv' BY <2>7, <1>h DEF HookInv
      <3>2. \/ state' = [state EXCEPT ![q] = "stopped"] /\ hook.left = {d}
               /\ attached' = attached \ {d}
            \/ \E s \in {"stopping", "dead"} : state' = [state EXCEPT ![q] = s]
        <4>1. hook # NoHook BY <2>1, <1>h
        <4>2. ASSUME hook' = [hook EXCEPT !.left = @ \ {d}] PROVE FALSE
          <5>1. hook'.stage = "detach" BY <1>0, <2>1, <4>2 DEF Hooks
          <5> QED BY <5>1, <2>7, <1>h
        <4> QED BY <1>2, <4>2 DEF DetachNetwork, StopFails
      <3>3. /\ \A p \in Pods \ {q} : state'[p] = state[p]
            /\ state'[q] \notin {"running", "stopped"}
               \/ (state'[q] = "stopped" /\ hook.left = {d} /\ attached' = attached \ {d})
        BY <1>0, <2>2, <3>2
      <3> QED BY <2>6, <3>1, <3>3 DEF AttachInv
    <2>8. CASE hook' # NoHook
      <3>1. /\ hook' = [hook EXCEPT !.left = @ \ {d}] /\ state' = state
            /\ attached' = attached \ {d}
        BY <1>2, <2>8 DEF DetachNetwork
      <3>2. hook'.pod = q /\ hook'.left = hook.left \ {d} /\ hook'.stage = "detach"
        BY <1>0, <2>1, <3>1 DEF Hooks
      <3>3. HookInv' BY <2>1, <2>2, <3>1, <3>2 DEF HookInv
      <3> QED BY <2>2, <2>6, <3>1, <3>3 DEF AttachInv
    <2> QED BY <2>7, <2>8
  <1>3. CASE UpdateRequestMetadata
    <2>1. /\ UNCHANGED <<podVars, sandbox, attached>> /\ hook.stage = "metadata"
          /\ \A p \in Pods \ {q} : p \in repeated' <=> p \in repeated
      BY <1>3 DEF UpdateRequestMetadata
    <2>2. /\ q \in Pods \ hostNetwork /\ state[q] = "starting" /\ hook.left \subseteq Devs(q)
          /\ \A e \in Devs(q) : e \in attached
      BY <2>1, <1>q DEF AttachInv, HookInv
    <2>3. \A e \in Devices : e \notin Devs(q) => metadata'[e] = metadata[e]
      <3>1. ASSUME NEW S \in SUBSET Devs(q), metadata' = MetadataWith(S, sandbox[q])
            PROVE  \A e \in Devices : e \notin Devs(q) => metadata'[e] = metadata[e]
        BY <3>1 DEF MetadataWith
      <3>2. ASSUME NEW written \in SUBSET ClaimsOf(q)
            PROVE  UNION {Results(c) : c \in written} \subseteq Devs(q)
        BY <3>2 DEF ClaimsOf, Results, Devs
      <3> QED BY <1>3, <3>1, <3>2, DevsAre DEF UpdateRequestMetadata
    <2>4. \A p \in Pods : state[p] = "running" =>
             /\ p # q
             /\ \A e \in Devs(p) : e \in Devices /\ metadata'[e] = metadata[e]
      <3>1. \A p \in Pods : state[p] = "running" => p # q BY <2>2
      <3> QED BY <2>3, <3>1 DEF Devs
    <2>5. CASE RunFails
      <3>1. hook' = NoHook /\ state' = [state EXCEPT ![q] = "failed"] BY <2>5 DEF RunFails
      <3>2. /\ \A p \in Pods : state'[p] = "running" => state[p] = "running"
            /\ \A p \in Pods : state'[p] = "stopped" => state[p] = "stopped"
        BY <1>0, <2>2, <3>1
      <3>3. HookInv' BY <3>1, <1>h DEF HookInv
      <3>4. RunningIsAttached'
        BY <2>1, <2>4, <3>2, DevsAre DEF AttachInv, RunningIsAttached
      <3>5. StoppedIsDetached' BY <2>1, <3>2 DEF AttachInv, StoppedIsDetached
      <3> QED BY <3>3, <3>4, <3>5 DEF AttachInv
    <2>6. CASE /\ state' = state /\ hook' = [hook EXCEPT !.stage = "send"]
               /\ metadata' = MetadataWith(GetDevicesByPodUID(q), sandbox[q])
      <3>1. RunningIsAttached'
        BY <2>1, <2>4, <2>6, DevsAre DEF AttachInv, RunningIsAttached
      <3>2. StoppedIsDetached' BY <2>1, <2>6 DEF AttachInv, StoppedIsDetached
      <3>3. hook'.pod = q /\ hook'.left = hook.left /\ hook'.stage = "send"
        BY <1>0, <2>6 DEF Hooks
      <3>4. \A e \in Devs(q) : metadata'[e] = sandbox[q]
        BY <2>6, DevsAre DEF MetadataWith, Devs
      <3>5. HookInv' BY <2>1, <2>2, <2>6, <3>3, <3>4 DEF HookInv
      <3> QED BY <3>1, <3>2, <3>5 DEF AttachInv
    <2> QED BY <1>3, <2>5, <2>6 DEF UpdateRequestMetadata
  <1>4. CASE SendUpdate
    <2>1. /\ UNCHANGED <<podVars, metadata, repeated, sandbox, attached>> /\ hook.stage = "send"
          /\ hook' = NoHook /\ state' = [state EXCEPT ![q] = "running"]
      BY <1>4 DEF SendUpdate
    <2>2. /\ q \in Pods
          /\ \A e \in Devs(q) :
                e \in attached /\ (MetadataEnabled /\ q \notin repeated => metadata[e] = sandbox[q])
      BY <2>1, <1>q DEF AttachInv, HookInv
    <2>3. \A p \in Pods : state'[p] = IF p = q THEN "running" ELSE state[p]
      BY <1>0, <2>1, <2>2
    <2>4. HookInv' BY <2>1, <1>h DEF HookInv
    <2>5. RunningIsAttached'
      BY <2>1, <2>2, <2>3, DevsAre DEF AttachInv, RunningIsAttached
    <2>6. StoppedIsDetached' BY <2>1, <2>3 DEF AttachInv, StoppedIsDetached
    <2> QED BY <2>4, <2>5, <2>6 DEF AttachInv
  <1> QED BY <1>1, <1>2, <1>3, <1>4 DEF HookStep

\* The calls of the runtime and of the kubelet: each is about one pod, and leaves
\* the devices of the others alone.
LEMMA OtherAttach ==
    ASSUME TypeOK, AttachInv,
           \/ \E p \in Pods : RunPodSandbox(p) \/ StopPodSandbox(p)
           \/ \E p \in Pods : Prepare(p) \/ Unprepare(p)
           \/ Crash
    PROVE  AttachInv'
  <1>0. /\ hook \in Hooks /\ attached \subseteq Devices /\ state \in [Pods -> States]
        /\ metadata \in [Devices -> Nat] /\ sandbox \in [Pods -> Nat]
    BY Types
  <1>h. NoHook.stage = "idle" BY IdleIs
  <1> USE DEF podVars, fileVars, hostVars
  <1>1. ASSUME NEW p \in Pods, RunPodSandbox(p) PROVE AttachInv'
    <2>1. /\ UNCHANGED <<podVars, metadata, repeated>> /\ hook = NoHook
          /\ sandbox' = [sandbox EXCEPT ![p] = @ + 1]
          /\ attached' = attached \ Devs(p)
      BY <1>1, DevsAre DEF RunPodSandbox, MayRun
    <2>2. \A r \in Pods \ {p} : state'[r] = state[r] /\ sandbox'[r] = sandbox[r]
      BY <1>0, <1>1, <2>1 DEF RunPodSandbox
    <2>3. \A r \in Pods \ {p} : \A d \in Devs(r) : d \in attached' <=> d \in attached
      BY <2>1, DevsApart
    <2>4. /\ state'[p] \in {"starting", "unhooked", "running"}
          /\ state'[p] = "running" => p \in hostNetwork
      BY <1>0, <1>1 DEF RunPodSandbox
    <2>5. RunningIsAttached'
      BY <2>1, <2>2, <2>3, <2>4, DevsAre DEF AttachInv, RunningIsAttached
    <2>6. StoppedIsDetached'
      BY <2>2, <2>3, <2>4, DevsAre DEF AttachInv, StoppedIsDetached
    <2>7. HookInv'
      <3>1. CASE hook' = hook BY <2>1, <3>1, <1>h DEF HookInv
      <3>2. CASE hook' = [stage |-> "attach", pod |-> p, record |-> record[p],
                           left |-> GetDevicesByPodUID(p)]
                 /\ p \notin hostNetwork /\ state' = [state EXCEPT ![p] = "starting"]
        <4>1. hook'.stage = "attach" /\ hook'.pod = p /\ hook'.left = Devs(p)
          BY <3>2, DevsAre
        <4>2. state'[p] = "starting" BY <1>0, <3>2
        <4> QED BY <2>1, <3>2, <4>1, <4>2 DEF HookInv
      <3> QED BY <1>1, <3>1, <3>2 DEF RunPodSandbox
    <2> QED BY <2>5, <2>6, <2>7 DEF AttachInv
  <1>2. ASSUME NEW p \in Pods, StopPodSandbox(p) PROVE AttachInv'
    <2>1. UNCHANGED <<podVars, metadata, repeated, sandbox, attached>> /\ hook = NoHook
      BY <1>2 DEF StopPodSandbox
    <2>2. /\ \A r \in Pods \ {p} : state'[r] = state[r]
          /\ state'[p] # "running"
          /\ state'[p] = "stopped" => state[p] = "stopped"
      BY <1>0, <1>2 DEF StopPodSandbox, StopFails
    <2>3. RunningIsAttached' BY <2>1, <2>2 DEF AttachInv, RunningIsAttached
    <2>4. StoppedIsDetached' BY <2>1, <2>2 DEF AttachInv, StoppedIsDetached
    <2>5. HookInv'
      <3>1. CASE hook' = hook BY <2>1, <3>1, <1>h DEF HookInv
      <3>2. CASE hook' = [stage |-> "detach", pod |-> p, record |-> record[p],
                           left |-> GetDevicesByPodUID(p)]
                 /\ p \notin hostNetwork /\ state' = [state EXCEPT ![p] = "stopping"]
        <4>1. hook'.stage = "detach" /\ hook'.pod = p /\ hook'.left = Devs(p)
          BY <3>2, DevsAre
        <4>2. state'[p] = "stopping" BY <1>0, <3>2
        <4> QED BY <2>1, <3>2, <4>1, <4>2 DEF HookInv
      <3> QED BY <1>2, <3>1, <3>2 DEF StopPodSandbox
    <2> QED BY <2>3, <2>4, <2>5 DEF AttachInv
  <1>3. ASSUME NEW p \in Pods, Prepare(p) \/ Unprepare(p) PROVE AttachInv'
    <2>1. UNCHANGED <<podVars, hostVars, hook>> BY <1>3 DEF Prepare, Unprepare
    <2>2. \/ repeated' = repeated \cup {p}
          \/ UNCHANGED <<metadata, repeated>>
          \/ repeated' = repeated /\ state[p] # "running" /\ hook.pod # p
      BY <1>3 DEF Prepare, Unprepare, NoSandbox
    <2>3. \A d \in Devices : d \notin Devs(p) => metadata'[d] = metadata[d]
      BY <1>3, DevsAre DEF Prepare, Unprepare, Without
    <2>4. \A r \in Pods \ {p} : \A d \in Devs(r) : metadata'[d] = metadata[d]
      BY <2>3, DevsApart DEF Devs
    <2>5. RunningIsAttached'
      BY <2>1, <2>2, <2>4, DevsAre DEF AttachInv, RunningIsAttached
    <2>6. StoppedIsDetached' BY <2>1 DEF AttachInv, StoppedIsDetached
    <2>7. HookInv'
      <3>1. hook.stage # "idle" => hook.pod \in Pods BY HookPod
      <3> QED BY <2>1, <2>2, <2>4, <3>1 DEF AttachInv, HookInv
    <2> QED BY <2>5, <2>6, <2>7 DEF AttachInv
  <1>4. CASE Crash
    <2>1. UNCHANGED <<hostNetwork, metadata, repeated, sandbox, attached>> /\ hook' = NoHook
      BY <1>4 DEF Crash
    <2>2. \A r \in Pods : state'[r] \in {"running", "stopped"} => state'[r] = state[r]
      BY <1>0, <1>4 DEF Crash, StopFails
    <2>3. HookInv' BY <2>1, <1>h DEF HookInv
    <2>4. RunningIsAttached' BY <2>1, <2>2 DEF AttachInv, RunningIsAttached
    <2>5. StoppedIsDetached' BY <2>1, <2>2 DEF AttachInv, StoppedIsDetached
    <2> QED BY <2>3, <2>4, <2>5 DEF AttachInv
  <1> QED BY <1>1, <1>2, <1>3, <1>4

-----------------------------------------------------------------------------
(* The record *)

\* The record of a pod changes under its sandbox by a rollback only.
LEMMA RecordKept ==
    ASSUME TypeOK, HookInv, RecordInv, Next
    PROVE  RecordInv'
  <1>0. /\ hook \in Hooks /\ state \in [Pods -> States] /\ record \in [Pods -> Nat]
        /\ sandbox \in [Pods -> Nat] /\ prepares \in Nat
    BY Types
  <1>q. hook.stage # "idle" => hook.pod \in Pods BY HookPod
  <1>h. NoHook.stage = "idle" BY IdleIs
  <1> USE DEF podVars, recordVars, fileVars, lossVars, hostVars
  <1>1. ASSUME UNCHANGED <<record, dropped>>,
               \A p \in Pods : state'[p] \in {"starting", "running"} =>
                                 state[p] \in {"starting", "running"},
               \/ hook' = NoHook
               \/ hook' = hook
               \/ hook.stage # "idle" /\ hook'.pod = hook.pod /\ hook'.record = hook.record
                  /\ (hook.stage = "detach" => hook'.stage = "detach")
        PROVE  RecordInv'
    BY <1>0, <1>1, <1>h DEF RecordInv, Hooks
  <1>2. ASSUME NEW d \in Devices, AttachNetwork(d) PROVE RecordInv'
    <2>1. UNCHANGED <<record, dropped>> /\ hook.stage = "attach"
      BY <1>2 DEF AttachNetwork
    <2>2. \A p \in Pods : state'[p] = state[p] \/ state'[p] = "failed"
      BY <1>0, <1>2 DEF AttachNetwork, RunFails
    <2>3. \/ hook' = NoHook
          \/ hook'.pod = hook.pod /\ hook'.record = hook.record
      BY <1>0, <1>2 DEF AttachNetwork, RunFails, Hooks
    <2> QED BY <1>1, <2>1, <2>2, <2>3
  <1>3. ASSUME NEW d \in Devices, DetachNetwork(d) PROVE RecordInv'
    <2>1. UNCHANGED <<record, dropped>> /\ hook.stage = "detach"
      BY <1>3 DEF DetachNetwork
    <2>2. \A p \in Pods : state'[p] = state[p] \/ state'[p] \in {"stopped", "stopping", "dead"}
      BY <1>0, <1>3 DEF DetachNetwork, StopFails
    <2>3. \/ hook' = NoHook
          \/ hook'.pod = hook.pod /\ hook'.record = hook.record /\ hook'.stage = "detach"
      BY <1>0, <1>3, <2>1 DEF DetachNetwork, Hooks
    <2> QED BY <1>1, <2>1, <2>2, <2>3
  <1>4. CASE UpdateRequestMetadata
    <2>1. UNCHANGED <<record, dropped>> /\ hook.stage = "metadata"
      BY <1>4 DEF UpdateRequestMetadata
    <2>2. \A p \in Pods : state'[p] = state[p] \/ state'[p] = "failed"
      BY <1>0, <1>4 DEF UpdateRequestMetadata, RunFails
    <2>3. \/ hook' = NoHook
          \/ hook'.pod = hook.pod /\ hook'.record = hook.record
      BY <1>0, <1>4 DEF UpdateRequestMetadata, RunFails, Hooks
    <2> QED BY <1>1, <2>1, <2>2, <2>3
  <1>5. CASE SendUpdate
    <2>1. /\ UNCHANGED <<record, dropped>> /\ hook.stage = "send" /\ hook' = NoHook
          /\ state' = [state EXCEPT ![hook.pod] = "running"]
      BY <1>5 DEF SendUpdate
    <2>2. state[hook.pod] = "starting" BY <2>1 DEF HookInv
    <2>3. \A p \in Pods : state'[p] \in {"starting", "running"} =>
                             state[p] \in {"starting", "running"}
      BY <1>0, <2>1, <2>2
    <2> QED BY <1>1, <2>1, <2>3
  <1>6. CASE RunnerStep
    <2>1. UNCHANGED <<record, dropped, state, hook>>
      BY <1>6 DEF RunnerStep, ReceiveUpdate, GetClaim, UpdatePreparedDeviceNetworkData,
                  UpdateStatus, Lose
    <2> QED BY <1>1, <2>1
  <1>7. ASSUME NEW p \in Pods, RunPodSandbox(p) PROVE RecordInv'
    <2>1. /\ record' = record /\ record[p] # 0 /\ dropped' = dropped \ {p} /\ hook = NoHook
      BY <1>7 DEF RunPodSandbox, MayRun
    <2>2. \A r \in Pods \ {p} : state'[r] = state[r]
      BY <1>0, <1>7 DEF RunPodSandbox
    <2>3. hook' = NoHook \/ (hook'.record = record[p] /\ hook'.pod = p)
      <3>1. CASE hook' = hook BY <2>1, <3>1
      <3>2. CASE hook' = [stage |-> "attach", pod |-> p, record |-> record[p],
                          left |-> GetDevicesByPodUID(p)]
        BY <3>2
      <3> QED BY <1>7, <3>1, <3>2 DEF RunPodSandbox
    <2> QED BY <2>1, <2>2, <2>3, <1>h DEF RecordInv
  <1>8. ASSUME NEW p \in Pods, StopPodSandbox(p) PROVE RecordInv'
    <2>1. UNCHANGED <<record, dropped>> BY <1>8 DEF StopPodSandbox
    <2>2. \A r \in Pods : state'[r] = state[r] \/ state'[r] \in {"stopping", "dead", "stopped"}
      BY <1>0, <1>8 DEF StopPodSandbox, StopFails
    <2>3. hook' = hook \/ hook'.stage = "detach"
      BY <1>8 DEF StopPodSandbox
    <2> QED BY <2>1, <2>2, <2>3 DEF RecordInv
  <1>9. ASSUME NEW p \in Pods, Prepare(p) PROVE RecordInv'
    <2>1. UNCHANGED <<state, hook>> BY <1>9 DEF Prepare
    <2>2. \/ record[p] = 0 /\ dropped' = dropped /\ record' = [record EXCEPT ![p] = prepares + 1]
          \/ UNCHANGED <<record, dropped>>
          \/ dropped' = dropped \cup {p} /\ record' = [record EXCEPT ![p] = 0]
      BY <1>9 DEF Prepare
    <2>3. prepares + 1 # 0 BY <1>0
    <2>4. hook.stage \in {"attach", "metadata", "send"} => state[hook.pod] = "starting"
      BY DEF HookInv
    <2> QED BY <1>0, <1>q, <2>1, <2>2, <2>3, <2>4 DEF RecordInv
  <1>10. ASSUME NEW p \in Pods, Unprepare(p) PROVE RecordInv'
    <2>1. /\ UNCHANGED <<state, hook, dropped>> /\ record' = [record EXCEPT ![p] = 0]
          /\ state[p] \notin {"starting", "running"} /\ hook.pod # p
      BY <1>10 DEF Unprepare, NoSandbox
    <2> QED BY <1>0, <1>q, <2>1 DEF RecordInv
  <1>11. CASE Crash
    <2>1. UNCHANGED <<record, dropped>> /\ hook' = NoHook BY <1>11 DEF Crash
    <2>2. \A p \in Pods : state'[p] = state[p]
                             \/ state'[p] \in {"stopping", "dead", "unhooked", "failed"}
      BY <1>0, <1>11 DEF Crash, StopFails
    <2> QED BY <1>1, <2>1, <2>2
  <1>12. CASE Restart
    <2>1. UNCHANGED <<record, dropped, state, hook>> BY <1>12 DEF Restart
    <2> QED BY <1>1, <2>1
  <1> QED BY <1>2, <1>3, <1>4, <1>5, <1>6, <1>7, <1>8, <1>9, <1>10, <1>11, <1>12
          DEF Next, HookStep

-----------------------------------------------------------------------------
(* The runner *)

\* The steps of the runner, as what they change of its fields.
LEMMA Active ==
    ASSUME TypeOK, runner.stage # "idle"
    PROVE  /\ runner \in Runners /\ runner.update \in Update /\ runner.update.pod \in Pods
           /\ runner.update.sandbox \in Nat /\ runner.claims \in SUBSET Claims
  BY Types DEF Runners, Update

\* A claim is fetched, or its update is lost.
LEMMA GetClaimIs ==
    ASSUME TypeOK, RunnerInv, NEW c \in Claims, GetClaim(c)
    PROVE  /\ runner.stage = "claims" /\ c \in runner.claims
           /\ UNCHANGED <<podVars, recordVars, fileVars, statusVars, hostVars, hook, queue>>
           /\ \/ /\ UNCHANGED lossVars /\ runner'.stage = "persist"
                 /\ runner'.update = runner.update /\ runner'.claim = c
                 /\ runner'.claims = runner.claims \ {c} /\ runner'.left = Results(c)
                 /\ runner'.found = (c \in listed) /\ runner'.writes = {}
              \/ Lose /\ NextClaim(runner.claims \ {c})
  <1>1. runner.stage = "claims" /\ c \in runner.claims BY DEF GetClaim
  <1>2. runner \in Runners /\ runner.writes = {} BY <1>1, Active DEF RunnerInv
  <1>3. UNCHANGED <<podVars, recordVars, fileVars, statusVars, hostVars, hook, queue>>
    BY DEF GetClaim
  <1>4. CASE UNCHANGED lossVars /\ runner' = [runner EXCEPT !.stage = "persist", !.claim = c,
                                      !.claims = @ \ {c}, !.left = Results(c),
                                      !.found = c \in listed]
    BY <1>1, <1>2, <1>3, <1>4 DEF Runners
  <1> QED BY <1>1, <1>3, <1>4 DEF GetClaim

\* The data of a device is stored, or its update is lost.
LEMMA UpdateDeviceIs ==
    ASSUME TypeOK, RunnerInv, NEW d \in Devices, UpdatePreparedDeviceNetworkData(d)
    PROVE  /\ runner.stage = "persist" /\ d \in runner.left
           /\ data' = IF record[runner.update.pod] = runner.update.record
                        THEN [data EXCEPT ![d] = runner.update.sandbox] ELSE data
           /\ UNCHANGED <<podVars, record, fileVars, statusVars, hostVars, hook, queue>>
           /\ \E ws \in {runner.writes, UpdateClaimDeviceStatus(d)} :
                 /\ \/ saved' = data' /\ UNCHANGED lossVars /\ ws = UpdateClaimDeviceStatus(d)
                    \/ saved' = saved /\ Lose
                 /\ \/ runner.left = {d} /\ ws = {} /\ NextClaim(runner.claims)
                    \/ /\ runner'.stage \in {"persist", "status"}
                       /\ runner'.stage = "status" => runner.left = {d}
                       /\ runner'.update = runner.update /\ runner'.claim = runner.claim
                       /\ runner'.claims = runner.claims /\ runner'.left = runner.left \ {d}
                       /\ runner'.found = runner.found /\ runner'.writes = ws
  <1>1. /\ runner.stage = "persist" /\ d \in runner.left
        /\ data' = IF record[runner.update.pod] = runner.update.record
                     THEN [data EXCEPT ![d] = runner.update.sandbox] ELSE data
        /\ UNCHANGED <<podVars, record, fileVars, statusVars, hostVars, hook, queue>>
    BY DEF UpdatePreparedDeviceNetworkData
  <1>2. runner \in Runners BY <1>1, Active
  <1> DEFINE After(ws) == IF runner.left = {d} /\ ws = {} THEN NextClaim(runner.claims)
                          ELSE runner' = [runner EXCEPT
                                  !.stage = IF runner.left = {d} THEN "status" ELSE @,
                                  !.left = @ \ {d}, !.writes = ws]
  <1>3. ASSUME NEW ws, After(ws)
        PROVE  \/ runner.left = {d} /\ ws = {} /\ NextClaim(runner.claims)
               \/ /\ runner'.stage \in {"persist", "status"}
                  /\ runner'.stage = "status" => runner.left = {d}
                  /\ runner'.update = runner.update /\ runner'.claim = runner.claim
                  /\ runner'.claims = runner.claims /\ runner'.left = runner.left \ {d}
                  /\ runner'.found = runner.found /\ runner'.writes = ws
    <2>1. CASE runner.left = {d} /\ ws = {} BY <1>3, <2>1
    <2>2. CASE ~(runner.left = {d} /\ ws = {})
      <3> DEFINE t == IF runner.left = {d} THEN "status" ELSE runner.stage
                 l == runner.left \ {d}
      <3>1. t \in {"persist", "status"} /\ (t = "status" => runner.left = {d}) BY <1>1
      <3>2. runner' = [runner EXCEPT !.stage = t, !.left = l, !.writes = ws]
        BY <1>3, <2>2
      <3> HIDE DEF t, l
      <3>3. /\ runner'.stage = t /\ runner'.left = l /\ runner'.writes = ws
            /\ runner'.update = runner.update /\ runner'.claim = runner.claim
            /\ runner'.claims = runner.claims /\ runner'.found = runner.found
        BY <1>2, <3>2 DEF Runners
      <3>4. l = runner.left \ {d} BY DEF l
      <3> QED BY <3>1, <3>3, <3>4
    <2> QED BY <2>1, <2>2
  <1>4. \/ saved' = data' /\ UNCHANGED lossVars /\ After(UpdateClaimDeviceStatus(d))
        \/ saved' = saved /\ Lose /\ After(runner.writes)
    BY DEF UpdatePreparedDeviceNetworkData
  <1> HIDE DEF After
  <1> QED BY <1>1, <1>3, <1>4

\* The status is written, or tried again, or the update is lost.
LEMMA UpdateStatusIs ==
    ASSUME TypeOK, RunnerInv, UpdateStatus
    PROVE  /\ runner.stage = "status"
           /\ UNCHANGED <<podVars, recordVars, fileVars, listed, hostVars, hook, queue>>
           /\ \/ /\ status' = [d \in Devices |-> IF d \in runner.writes
                                  THEN runner.update.sandbox ELSE status[d]]
                 /\ NextClaim(runner.claims) /\ UNCHANGED lossVars
              \/ /\ status' = status /\ UNCHANGED lossVars
                 /\ runner'.stage = "status" /\ runner'.update = runner.update
                 /\ runner'.claim = runner.claim /\ runner'.claims = runner.claims
                 /\ runner'.left = runner.left /\ runner'.found = runner.found
                 /\ runner'.writes = runner.writes
              \/ status' = status /\ Lose /\ NextClaim(runner.claims)
  <1>1. runner.stage = "status"
        /\ UNCHANGED <<podVars, recordVars, fileVars, listed, hostVars, hook, queue>>
    BY DEF UpdateStatus
  <1>2. runner \in Runners BY <1>1, Active
  <1>3. CASE status' = status /\ UNCHANGED lossVars /\ runner' = [runner EXCEPT !.tries = @ + 1]
    BY <1>1, <1>2, <1>3 DEF Runners
  <1> QED BY <1>1, <1>3 DEF UpdateStatus, StatusData

\* The runner stays with the pod of its update.
LEMMA RunnerInvStep == TypeOK /\ RunnerInv /\ RunnerStep => RunnerInv'
  <1> SUFFICES ASSUME TypeOK, RunnerInv, RunnerStep PROVE RunnerInv' OBVIOUS
  <1>0. ASSUME runner.stage # "idle", NEW rest \in SUBSET runner.claims, NextClaim(rest)
        PROVE  RunnerInv'
    <2>1. rest \in SUBSET Claims BY <1>0, Active
    <2> QED BY <1>0, <2>1, NextClaimIs DEF RunnerInv
  <1>1. CASE ReceiveUpdate
    BY <1>1, ReceiveIs DEF RunnerInv, ClaimsOf
  <1>2. ASSUME NEW c \in Claims, GetClaim(c) PROVE RunnerInv'
    <2>1. runner.stage = "claims" /\ c \in runner.claims BY <1>2, GetClaimIs
    <2>2. CASE NextClaim(runner.claims \ {c}) BY <1>0, <2>1, <2>2
    <2>3. CASE /\ runner'.stage = "persist"
               /\ runner'.update = runner.update /\ runner'.claim = c
               /\ runner'.claims = runner.claims \ {c} /\ runner'.left = Results(c)
               /\ runner'.writes = {}
      BY <2>1, <2>3 DEF RunnerInv
    <2> QED BY <1>2, <2>2, <2>3, GetClaimIs
  <1>3. ASSUME NEW d \in Devices, UpdatePreparedDeviceNetworkData(d) PROVE RunnerInv'
    <2>1. runner.stage = "persist" /\ d \in runner.left BY <1>3, UpdateDeviceIs
    <2>2. CASE NextClaim(runner.claims) BY <1>0, <2>1, <2>2
    <2>3. ASSUME NEW ws \in {runner.writes, UpdateClaimDeviceStatus(d)},
                 runner'.stage \in {"persist", "status"},
                 runner'.stage = "status" => runner.left = {d},
                 runner'.update = runner.update, runner'.claim = runner.claim,
                 runner'.claims = runner.claims, runner'.left = runner.left \ {d},
                 runner'.writes = ws
          PROVE  RunnerInv'
      <3>1. ws \subseteq Results(runner.claim)
        BY <2>1, <2>3 DEF RunnerInv, UpdateClaimDeviceStatus
      <3> QED BY <2>1, <2>3, <3>1 DEF RunnerInv
    <2> QED BY <1>3, <2>2, <2>3, UpdateDeviceIs
  <1>4. CASE UpdateStatus
    <2>1. runner.stage = "status" BY <1>4, UpdateStatusIs
    <2>2. CASE NextClaim(runner.claims) BY <1>0, <2>1, <2>2
    <2>3. CASE /\ runner'.stage = "status" /\ runner'.update = runner.update
               /\ runner'.claim = runner.claim /\ runner'.claims = runner.claims
               /\ runner'.left = runner.left /\ runner'.writes = runner.writes
      BY <2>1, <2>3 DEF RunnerInv
    <2> QED BY <1>4, <2>2, <2>3, UpdateStatusIs
  <1> QED BY <1>1, <1>2, <1>3, <1>4 DEF RunnerStep

-----------------------------------------------------------------------------
(* The order of updates *)

\* Updates that wait are of pods.
LEMMA QueueTypes ==
    ASSUME TypeOK
    PROVE  \A i \in DOMAIN queue : queue[i] \in Update /\ queue[i].pod \in Pods
                                   /\ queue[i].sandbox \in Nat
  <1>1. queue \in Seq(Update) BY Types
  <1>2. \A i \in DOMAIN queue : queue[i] \in Update BY <1>1
  <1>3. \A u \in Update : u.pod \in Pods /\ u.sandbox \in Nat BY DEF Update
  <1> QED BY <1>2, <1>3

\* A step that neither queues nor receives an update, and writes none of the data.
LEMMA OrderKept ==
    ASSUME TypeOK, TypeOK', OrderInv, UNCHANGED <<queue, runner>>,
           \A p \in Pods : \A n \in Int : PastUpTo(p, n) => PastUpTo(p, n)',
           \A p \in Pods :
              \/ /\ sandbox'[p] = sandbox[p] /\ (state'[p] = "starting" => state[p] = "starting")
                 /\ (p \in dropped => p \in dropped')
                 /\ state'[p] = "running" =>
                       state[p] = "running" /\ (record'[p] = record[p] \/ p \in dropped')
              \/ sandbox'[p] = sandbox[p] + 1 /\ state[p] # "starting"
    PROVE  OrderInv'
  <1>1. /\ \A p \in Pods : sandbox[p] \in Nat /\ sandbox'[p] \in Nat
        /\ \A p \in Pods : lost[p] \in Nat
        /\ \A d \in Devices : data[d] \in Nat /\ saved[d] \in Nat /\ status[d] \in Nat
    BY DEF TypeOK
  <1>3. ASSUME NEW p \in Pods
        PROVE  PastUpTo(p, IF state[p] = "starting" THEN sandbox[p] - 1 ELSE sandbox[p])'
    <2>1. PastUpTo(p, IF state[p] = "starting" THEN sandbox[p] - 1 ELSE sandbox[p])
      BY DEF OrderInv
    <2>2. ASSUME NEW m \in Int, NEW n \in Int, m <= n, PastUpTo(p, m) PROVE PastUpTo(p, n)
      BY <1>1, <2>2 DEF PastUpTo, Devs
    <2>3. PastUpTo(p, IF state'[p] = "starting" THEN sandbox'[p] - 1 ELSE sandbox'[p])
      BY <1>1, <2>1, <2>2
    <2>4. (IF state'[p] = "starting" THEN sandbox'[p] - 1 ELSE sandbox'[p]) \in Int BY <1>1
    <2> DEFINE m == IF state'[p] = "starting" THEN sandbox'[p] - 1 ELSE sandbox'[p]
    <2>5. m \in Int /\ PastUpTo(p, m) BY <2>3, <2>4
    <2>6. lost'[p] <= m /\ \A d \in Devs(p) : data'[d] <= m /\ saved'[d] <= m /\ status'[d] <= m
      <3> HIDE DEF m
      <3> QED BY <2>5 DEF PastUpTo
    <2> QED BY <2>6 DEF PastUpTo
  <1>4. ASSUME NEW i \in DOMAIN queue
        PROVE  PendingOK(queue[i])' /\ PastUpTo(queue[i].pod, queue[i].sandbox - 1)'
    <2> DEFINE u == queue[i]
    <2>1. u.pod \in Pods /\ u.sandbox \in Nat BY QueueTypes
    <2>2. PendingOK(u) /\ PastUpTo(u.pod, u.sandbox - 1) BY DEF OrderInv
    <2>3. u.sandbox - 1 \in Int BY <2>1
    <2>4. u' = u OBVIOUS
    <2> HIDE DEF u
    <2>6. PendingOK(u)' BY <1>1, <2>1, <2>2, <2>4 DEF PendingOK
    <2>7. PastUpTo(u.pod, u.sandbox - 1)'
      BY <2>1, <2>2, <2>3, <2>4 DEF PastUpTo
    <2> QED BY <2>6, <2>7 DEF u
  <1>5. ASSUME runner.stage # "idle"
        PROVE  PendingOK(runner.update)' /\ PastUpTo(runner.update.pod, runner.update.sandbox)'
    <2>1. runner.update.pod \in Pods /\ runner.update.sandbox \in Nat BY <1>5, Active
    <2>2. PendingOK(runner.update) /\ PastUpTo(runner.update.pod, runner.update.sandbox)
      BY <1>5 DEF OrderInv
    <2>3. PendingOK(runner.update)' BY <1>1, <2>1, <2>2 DEF PendingOK
    <2>4. PastUpTo(runner.update.pod, runner.update.sandbox)'
      BY <2>1, <2>2 DEF PastUpTo
    <2> QED BY <2>3, <2>4
  <1> QED BY <1>3, <1>4, <1>5 DEF OrderInv

\* The runner writes the data of its update only.
LEMMA RunnerPast ==
    ASSUME TypeOK, RunnerInv, RunnerStep, runner.stage # "idle", NEW p \in Pods, NEW n \in Int,
           PastUpTo(p, n), p = runner.update.pod => runner.update.sandbox <= n
    PROVE  PastUpTo(p, n)'
  <1>0. /\ runner.update.pod \in Pods /\ runner.update.sandbox \in Nat
        /\ lost \in [Pods -> Nat] /\ data \in [Devices -> Nat] /\ status \in [Devices -> Nat]
    BY Active, Types
  <1>1. ASSUME UNCHANGED lossVars \/ Lose PROVE lost'[p] <= n
    BY <1>0, <1>1 DEF PastUpTo, Lose, lossVars
  <1>2. \A d \in Devices : ClaimOf[d] \in Claims BY AllocationAssumption
  <1>3. ASSUME NEW c \in Claims, GetClaim(c) PROVE PastUpTo(p, n)'
    <2>1. lost'[p] <= n BY <1>1, <1>3, GetClaimIs
    <2>2. UNCHANGED <<data, saved, status>>
      BY <1>3, GetClaimIs DEF recordVars, statusVars
    <2> QED BY <2>1, <2>2 DEF PastUpTo
  <1>4. ASSUME NEW e \in Devices, UpdatePreparedDeviceNetworkData(e) PROVE PastUpTo(p, n)'
    <2>1. lost'[p] <= n BY <1>1, <1>4, UpdateDeviceIs
    <2>2. /\ runner.stage = "persist" /\ e \in runner.left
          /\ data' = IF record[runner.update.pod] = runner.update.record
                       THEN [data EXCEPT ![e] = runner.update.sandbox] ELSE data
          /\ (saved' = data' \/ saved' = saved) /\ status' = status
      BY <1>4, UpdateDeviceIs DEF statusVars
    <2>3. e \in Devs(runner.update.pod)
      BY <2>2 DEF RunnerInv, Results, Devs
    <2>4. \A d \in Devs(p) : data'[d] <= n
      BY <1>0, <2>2, <2>3 DEF PastUpTo, Devs
    <2> QED BY <2>1, <2>2, <2>4 DEF PastUpTo
  <1>5. CASE UpdateStatus
    <2>1. lost'[p] <= n BY <1>1, <1>5, UpdateStatusIs
    <2>2. /\ runner.stage = "status" /\ UNCHANGED <<data, saved>>
          /\ \/ status' = status
             \/ status' = [d \in Devices |-> IF d \in runner.writes
                              THEN runner.update.sandbox ELSE status[d]]
      BY <1>5, UpdateStatusIs DEF recordVars
    <2>3. runner.writes \subseteq Devs(runner.update.pod)
      BY <2>2 DEF RunnerInv, Results, Devs
    <2>4. \A d \in Devs(p) : status'[d] <= n
      BY <1>0, <2>2, <2>3 DEF PastUpTo, Devs
    <2> QED BY <2>1, <2>2, <2>4 DEF PastUpTo
  <1>6. ~ReceiveUpdate BY DEF ReceiveUpdate
  <1> QED BY <1>3, <1>4, <1>5, <1>6 DEF RunnerStep

\* What a step of an active runner leaves alone.
LEMMA RunnerFrame ==
    ASSUME TypeOK, RunnerInv, RunnerStep, runner.stage # "idle"
    PROVE  /\ UNCHANGED <<queue, hostNetwork, record, listed, sandbox, state, dropped>>
           /\ runner'.stage = "idle" \/ runner'.update = runner.update
           /\ lost' = lost \/ Lose
  <1> USE DEF podVars, recordVars, statusVars, hostVars, lossVars, Lose
  <1>0. ASSUME NEW rest \in SUBSET Claims, NextClaim(rest)
        PROVE  runner'.stage = "idle" \/ runner'.update = runner.update
    BY <1>0, NextClaimIs
  <1>1. ASSUME NEW c \in Claims, GetClaim(c)
        PROVE  /\ UNCHANGED <<queue, hostNetwork, record, listed, sandbox, state, dropped>>
               /\ runner'.stage = "idle" \/ runner'.update = runner.update
               /\ lost' = lost \/ Lose
    <2>1. runner.claims \ {c} \in SUBSET Claims BY Active
    <2> QED BY <1>0, <1>1, <2>1, GetClaimIs
  <1>2. ASSUME NEW d \in Devices, UpdatePreparedDeviceNetworkData(d)
        PROVE  /\ UNCHANGED <<queue, hostNetwork, record, listed, sandbox, state, dropped>>
               /\ runner'.stage = "idle" \/ runner'.update = runner.update
               /\ lost' = lost \/ Lose
    <2>1. runner.claims \in SUBSET Claims BY Active
    <2> QED BY <1>0, <1>2, <2>1, UpdateDeviceIs
  <1>3. ASSUME UpdateStatus
        PROVE  /\ UNCHANGED <<queue, hostNetwork, record, listed, sandbox, state, dropped>>
               /\ runner'.stage = "idle" \/ runner'.update = runner.update
               /\ lost' = lost \/ Lose
    <2>1. runner.claims \in SUBSET Claims BY Active
    <2> QED BY <1>0, <1>3, <2>1, UpdateStatusIs
  <1>4. ~ReceiveUpdate BY DEF ReceiveUpdate
  <1> QED BY <1>1, <1>2, <1>3, <1>4 DEF RunnerStep

\* The runner keeps the order.
LEMMA OrderRunner ==
    ASSUME TypeOK, TypeOK', RunnerInv, OrderInv, RunnerStep
    PROVE  OrderInv'
  <1>1. \A p \in Pods : sandbox[p] \in Nat BY DEF TypeOK
  <1>2. CASE runner.stage # "idle"
    <2>1. /\ UNCHANGED <<queue, record, sandbox, state, dropped>>
          /\ runner'.stage = "idle" \/ runner'.update = runner.update
      BY <1>2, RunnerFrame
    <2>2. /\ runner.update.pod \in Pods /\ runner.update.sandbox \in Nat BY <1>2, Active
    <2>3. /\ PendingOK(runner.update) /\ PastUpTo(runner.update.pod, runner.update.sandbox)
          /\ \A i \in DOMAIN queue :
                queue[i].pod = runner.update.pod => runner.update.sandbox < queue[i].sandbox
      BY <1>2 DEF OrderInv
    <2>4. ASSUME NEW p \in Pods, NEW n \in Int, PastUpTo(p, n),
                 p = runner.update.pod => runner.update.sandbox <= n
          PROVE  lost'[p] <= n
                 /\ \A d \in Devs(p) : data'[d] <= n /\ saved'[d] <= n /\ status'[d] <= n
      <3>1. PastUpTo(p, n)' BY <1>2, <2>4, RunnerPast
      <3> QED BY <3>1 DEF PastUpTo
    <2>5. \A p \in Pods :
            PastUpTo(p, IF state[p] = "starting" THEN sandbox[p] - 1 ELSE sandbox[p])'
      <3> TAKE p \in Pods
      <3> DEFINE n == IF state[p] = "starting" THEN sandbox[p] - 1 ELSE sandbox[p]
      <3>1. n \in Int /\ PastUpTo(p, n) /\ (p = runner.update.pod => runner.update.sandbox <= n)
        BY <1>1, <2>2, <2>3 DEF OrderInv, PendingOK
      <3>2. n' = n BY <2>1
      <3> HIDE DEF n
      <3>3. PastUpTo(p, n)' BY <2>4, <3>1, <3>2 DEF PastUpTo
      <3> QED BY <3>3 DEF n
    <2>6. \A i \in DOMAIN queue :
            PendingOK(queue[i])' /\ PastUpTo(queue[i].pod, queue[i].sandbox - 1)'
      <3> TAKE i \in DOMAIN queue
      <3>1. queue[i].pod \in Pods /\ queue[i].sandbox \in Nat BY QueueTypes
      <3>2. PendingOK(queue[i]) /\ PastUpTo(queue[i].pod, queue[i].sandbox - 1)
        BY DEF OrderInv
      <3>3. queue[i].pod = runner.update.pod => runner.update.sandbox <= queue[i].sandbox - 1
        BY <2>2, <2>3, <3>1
      <3>4. PendingOK(queue[i])' BY <2>1, <3>2 DEF PendingOK
      <3>5. queue[i].sandbox - 1 \in Int BY <3>1
      <3>6. PastUpTo(queue[i].pod, queue[i].sandbox - 1)'
        BY <2>1, <2>4, <3>1, <3>2, <3>3, <3>5 DEF PastUpTo
      <3> QED BY <3>4, <3>6
    <2>7. ASSUME runner'.stage # "idle"
          PROVE  PendingOK(runner.update)' /\ PastUpTo(runner.update.pod, runner.update.sandbox)'
      <3>1. runner'.update = runner.update BY <2>1, <2>7
      <3>2. PendingOK(runner.update)' BY <2>1, <2>3, <3>1 DEF PendingOK
      <3>3. PastUpTo(runner.update.pod, runner.update.sandbox)'
        BY <2>2, <2>3, <2>4, <3>1 DEF PastUpTo
      <3> QED BY <3>2, <3>3
    <2> QED BY <2>1, <2>3, <2>5, <2>6, <2>7 DEF OrderInv
  <1>3. CASE runner.stage = "idle"
    <2>1. ReceiveUpdate
      BY <1>3 DEF RunnerStep, GetClaim, UpdatePreparedDeviceNetworkData, UpdateStatus
    <2>2. UNCHANGED <<record, data, saved, status, sandbox, state, lost, dropped>>
      BY <2>1 DEF ReceiveUpdate, recordVars, statusVars, hostVars, lossVars
    <2>3. /\ runner'.update = queue[1] /\ 1 \in DOMAIN queue
          /\ \A i \in DOMAIN queue' : i + 1 \in DOMAIN queue /\ queue'[i] = queue[i + 1]
      BY <2>1, ReceiveIs
    <2>4. DOMAIN queue' \subseteq Nat \ {0}
      <3>1. queue' \in Seq(Update) BY DEF TypeOK
      <3> QED BY <3>1
    <2>5. \A p \in Pods :
            PastUpTo(p, IF state[p] = "starting" THEN sandbox[p] - 1 ELSE sandbox[p])'
      BY <2>2 DEF OrderInv, PastUpTo
    <2>6. ASSUME NEW u, PendingOK(u), PastUpTo(u.pod, u.sandbox - 1)
          PROVE  /\ u.sandbox <= sandbox'[u.pod]
                 /\ state'[u.pod] = "starting" => u.sandbox <= sandbox'[u.pod] - 1
                 /\ state'[u.pod] = "running" /\ u.sandbox = sandbox'[u.pod]
                    /\ u.pod \notin dropped'
                    => u.record = record'[u.pod]
                 /\ lost'[u.pod] <= u.sandbox - 1
                 /\ \A d \in Devs(u.pod) : /\ data'[d] <= u.sandbox - 1
                                           /\ saved'[d] <= u.sandbox - 1
                                           /\ status'[d] <= u.sandbox - 1
      BY <2>2, <2>6 DEF PendingOK, PastUpTo
    <2>7. \A i \in DOMAIN queue' :
            PendingOK(queue[i])' /\ PastUpTo(queue[i].pod, queue[i].sandbox - 1)'
      <3> TAKE i \in DOMAIN queue'
      <3> DEFINE u == queue[i + 1]
      <3>1. queue'[i] = u /\ PendingOK(u) /\ PastUpTo(u.pod, u.sandbox - 1)
        BY <2>3 DEF OrderInv
      <3> HIDE DEF u
      <3> QED BY <2>6, <3>1 DEF PendingOK, PastUpTo
    <2>8. PendingOK(runner.update)' /\ PastUpTo(runner.update.pod, runner.update.sandbox)'
      <3> DEFINE u == queue[1]
      <3>1. runner'.update = u /\ PendingOK(u) /\ PastUpTo(u.pod, u.sandbox - 1)
            /\ u.pod \in Pods /\ u.sandbox \in Nat
        BY <2>3, QueueTypes DEF OrderInv
      <3> HIDE DEF u
      <3>2. /\ \A d \in Devices : data'[d] \in Nat /\ saved'[d] \in Nat /\ status'[d] \in Nat
            /\ lost'[u.pod] \in Nat
        BY <3>1 DEF TypeOK
      <3>3. PastUpTo(runner.update.pod, runner.update.sandbox)'
        BY <2>6, <3>1, <3>2 DEF PastUpTo, Devs
      <3> QED BY <2>6, <3>1, <3>3 DEF PendingOK
    <2>9. /\ \A i, j \in DOMAIN queue' :
                i < j /\ queue'[i].pod = queue'[j].pod => queue'[i].sandbox < queue'[j].sandbox
          /\ \A i \in DOMAIN queue' :
                queue'[i].pod = runner'.update.pod => runner'.update.sandbox < queue'[i].sandbox
      <3>1. \A i, j \in DOMAIN queue :
                i < j /\ queue[i].pod = queue[j].pod => queue[i].sandbox < queue[j].sandbox
        BY DEF OrderInv
      <3>2. \A i, j \in DOMAIN queue' : i < j => i + 1 < j + 1 BY <2>4
      <3>3. \A i \in DOMAIN queue' : 1 < i + 1 BY <2>4
      <3> QED BY <2>3, <3>1, <3>2, <3>3
    <2> QED BY <2>5, <2>7, <2>8, <2>9 DEF OrderInv
  <1> QED BY <1>2, <1>3

\* A hook queues the update of a sandbox that nothing was written for yet.
LEMMA OrderSend ==
    ASSUME TypeOK, TypeOK', HookInv, RecordInv, OrderInv, SendUpdate
    PROVE  OrderInv'
  <1> DEFINE q == hook.pod
             n == Len(queue) + 1
  <1>1. /\ UNCHANGED <<record, data, saved, status, sandbox, lost, dropped, runner>>
        /\ hook.stage = "send" /\ state' = [state EXCEPT ![q] = "running"]
    BY DEF SendUpdate, recordVars, statusVars, lossVars
  <1>2. /\ q \in Pods /\ DOMAIN queue' = DOMAIN queue \cup {n} /\ \A i \in DOMAIN queue : i < n
        /\ DOMAIN queue \subseteq Nat /\ n \in Nat
        /\ \A i \in DOMAIN queue : queue'[i] = queue[i]
        /\ queue'[n].pod = q /\ queue'[n].sandbox = sandbox[q]
        /\ q \notin dropped => queue'[n].record = record[q]
    BY <1>1, SendIs DEF RecordInv
  <1>3. state[q] = "starting" BY <1>1 DEF HookInv
  <1>4. \A p \in Pods : sandbox[p] \in Nat BY DEF TypeOK
  <1>5. \A p \in Pods : state'[p] = IF p = q THEN "running" ELSE state[p]
    BY <1>1, <1>2 DEF TypeOK
  <1>6. PastUpTo(q, sandbox[q] - 1) BY <1>2, <1>3 DEF OrderInv
  <1>7. /\ \A d \in Devices : data[d] \in Nat /\ saved[d] \in Nat /\ status[d] \in Nat
        /\ \A p \in Pods : lost[p] \in Nat
    BY DEF TypeOK
  <1> HIDE DEF n
  <1>8. ASSUME NEW u, u.pod \in Pods, u.sandbox \in Nat, PendingOK(u)
        PROVE  /\ u.pod = q => u.sandbox < sandbox[q]
               /\ u.sandbox <= sandbox'[u.pod]
               /\ state'[u.pod] = "starting" => u.sandbox <= sandbox'[u.pod] - 1
               /\ state'[u.pod] = "running" /\ u.sandbox = sandbox'[u.pod]
                  /\ u.pod \notin dropped'
                  => u.record = record'[u.pod]
    BY <1>1, <1>2, <1>3, <1>4, <1>5, <1>8 DEF PendingOK
  <1>9. \A p \in Pods :
          PastUpTo(p, IF state[p] = "starting" THEN sandbox[p] - 1 ELSE sandbox[p])'
    <2> TAKE p \in Pods
    <2>1. CASE p = q
      <3>1. PastUpTo(q, sandbox[q]) BY <1>2, <1>4, <1>6, <1>7 DEF PastUpTo, Devs
      <3> QED BY <1>1, <1>5, <2>1, <3>1 DEF PastUpTo
    <2>2. CASE p # q BY <1>1, <1>5, <2>2 DEF OrderInv, PastUpTo
    <2> QED BY <2>1, <2>2
  <1>10. \A i \in DOMAIN queue' :
          PendingOK(queue[i])' /\ PastUpTo(queue[i].pod, queue[i].sandbox - 1)'
    <2> TAKE i \in DOMAIN queue'
    <2>1. CASE i \in DOMAIN queue
      <3>1. queue'[i] = queue[i] /\ queue[i].pod \in Pods /\ queue[i].sandbox \in Nat
        BY <1>2, <2>1, QueueTypes
      <3>2. PendingOK(queue[i]) /\ PastUpTo(queue[i].pod, queue[i].sandbox - 1)
        BY <2>1 DEF OrderInv
      <3>3. PendingOK(queue[i])' BY <1>8, <3>1, <3>2 DEF PendingOK
      <3>4. PastUpTo(queue[i].pod, queue[i].sandbox - 1)' BY <1>1, <3>1, <3>2 DEF PastUpTo
      <3> QED BY <3>3, <3>4
    <2>2. CASE i = n
      <3>1. PendingOK(queue[i])' BY <1>1, <1>2, <1>4, <1>5, <2>2 DEF PendingOK
      <3>2. PastUpTo(queue[i].pod, queue[i].sandbox - 1)' BY <1>1, <1>2, <1>6, <2>2 DEF PastUpTo
      <3> QED BY <3>1, <3>2
    <2> QED BY <1>2, <2>1, <2>2
  <1>11. \A i, j \in DOMAIN queue' :
          i < j /\ queue'[i].pod = queue'[j].pod => queue'[i].sandbox < queue'[j].sandbox
    <2> SUFFICES ASSUME NEW i \in DOMAIN queue', NEW j \in DOMAIN queue', i < j,
                        queue'[i].pod = queue'[j].pod
                 PROVE  queue'[i].sandbox < queue'[j].sandbox
      OBVIOUS
    <2>1. i \in DOMAIN queue BY <1>2
    <2>2. queue'[i] = queue[i] /\ queue[i].pod \in Pods /\ queue[i].sandbox \in Nat /\ PendingOK(queue[i])
      BY <1>2, <2>1, QueueTypes DEF OrderInv
    <2>3. CASE j \in DOMAIN queue BY <1>2, <2>1, <2>3 DEF OrderInv
    <2>4. CASE j = n BY <1>2, <1>8, <2>2, <2>4
    <2> QED BY <1>2, <2>3, <2>4
  <1>12. ASSUME runner.stage # "idle"
         PROVE  /\ PendingOK(runner.update)' /\ PastUpTo(runner.update.pod, runner.update.sandbox)'
                /\ \A i \in DOMAIN queue' :
                      queue'[i].pod = runner.update.pod => runner.update.sandbox < queue'[i].sandbox
    <2>1. runner.update.pod \in Pods /\ runner.update.sandbox \in Nat BY <1>12, Active
    <2>2. /\ PendingOK(runner.update) /\ PastUpTo(runner.update.pod, runner.update.sandbox)
          /\ \A i \in DOMAIN queue :
                queue[i].pod = runner.update.pod => runner.update.sandbox < queue[i].sandbox
      BY <1>12 DEF OrderInv
    <2>3. PendingOK(runner.update)' BY <1>1, <1>8, <2>1, <2>2 DEF PendingOK
    <2>4. PastUpTo(runner.update.pod, runner.update.sandbox)' BY <1>1, <2>2 DEF PastUpTo
    <2>5. ASSUME NEW i \in DOMAIN queue', queue'[i].pod = runner.update.pod
          PROVE  runner.update.sandbox < queue'[i].sandbox
      <3>1. CASE i \in DOMAIN queue BY <1>2, <2>2, <2>5, <3>1
      <3>2. CASE i = n BY <1>2, <1>8, <2>1, <2>2, <2>5, <3>2
      <3> QED BY <1>2, <3>1, <3>2
    <2> QED BY <2>3, <2>4, <2>5
  <1> QED BY <1>1, <1>9, <1>10, <1>11, <1>12 DEF OrderInv

\* The other steps of a hook and the calls of runtime and kubelet change one pod.
LEMMA OrderOther ==
    ASSUME TypeOK, TypeOK', HookInv, RecordInv, OrderInv,
           \/ \E d \in Devices : AttachNetwork(d) \/ DetachNetwork(d)
           \/ UpdateRequestMetadata
           \/ \E p \in Pods : RunPodSandbox(p) \/ StopPodSandbox(p)
           \/ \E p \in Pods : Prepare(p) \/ Unprepare(p)
           \/ Restart
    PROVE  OrderInv'
  <1> USE DEF podVars, recordVars, fileVars, statusVars, lossVars, hostVars
  <1>0. /\ state \in [Pods -> States] /\ sandbox \in [Pods -> Nat] /\ record \in [Pods -> Nat]
        /\ data \in [Devices -> Nat] /\ lost \in [Pods -> Nat]
    BY Types
  <1> DEFINE PastKept == \A p \in Pods : \A n \in Int : PastUpTo(p, n) => PastUpTo(p, n)'
             Calm(p) == sandbox'[p] = sandbox[p] /\ (state'[p] = "starting" => state[p] = "starting")
                        /\ (p \in dropped => p \in dropped')
                        /\ (state'[p] = "running" =>
                               state[p] = "running" /\ (record'[p] = record[p] \/ p \in dropped'))
             Fresh(p) == sandbox'[p] = sandbox[p] + 1 /\ state[p] # "starting"
  <1>1. ASSUME UNCHANGED <<data, saved, status, lost>> PROVE PastKept
    BY <1>1 DEF PastUpTo
  <1>2. CASE \E d \in Devices : AttachNetwork(d) \/ DetachNetwork(d)
    <2>1. UNCHANGED <<record, data, saved, status, lost, dropped, sandbox, queue, runner>>
      BY <1>2 DEF AttachNetwork, DetachNetwork
    <2>2. \A p \in Pods : state'[p] = state[p] \/ state'[p] \in {"failed", "stopped", "stopping", "dead"}
      BY <1>0, <1>2 DEF AttachNetwork, DetachNetwork, RunFails, StopFails
    <2>3. \A p \in Pods : Calm(p) BY <2>1, <2>2
    <2>4. PastKept BY <1>1, <2>1
    <2> QED BY <2>1, <2>3, <2>4, OrderKept
  <1>3. CASE UpdateRequestMetadata
    <2>1. UNCHANGED <<record, data, saved, status, lost, dropped, sandbox, queue, runner>>
      BY <1>3 DEF UpdateRequestMetadata
    <2>2. \A p \in Pods : state'[p] = state[p] \/ state'[p] = "failed"
      BY <1>0, <1>3 DEF UpdateRequestMetadata, RunFails
    <2>3. \A p \in Pods : Calm(p) BY <2>1, <2>2
    <2>4. PastKept BY <1>1, <2>1
    <2> QED BY <2>1, <2>3, <2>4, OrderKept
  <1>4. ASSUME NEW p \in Pods, RunPodSandbox(p) PROVE OrderInv'
    <2>1. UNCHANGED <<record, data, saved, status, lost, queue, runner>>
      BY <1>4 DEF RunPodSandbox
    <2>2. \A r \in Pods : Calm(r) \/ Fresh(r)
      BY <1>0, <1>4, <2>1 DEF RunPodSandbox, MayRun
    <2>3. PastKept BY <1>1, <2>1
    <2> QED BY <2>1, <2>2, <2>3, OrderKept
  <1>5. ASSUME NEW p \in Pods, StopPodSandbox(p) PROVE OrderInv'
    <2>1. UNCHANGED <<record, data, saved, status, lost, dropped, sandbox, queue, runner>>
      BY <1>5 DEF StopPodSandbox
    <2>2. \A r \in Pods : state'[r] = state[r] \/ state'[r] \in {"stopping", "dead", "stopped"}
      BY <1>0, <1>5 DEF StopPodSandbox, StopFails
    <2>3. \A r \in Pods : Calm(r) BY <2>1, <2>2
    <2>4. PastKept BY <1>1, <2>1
    <2> QED BY <2>1, <2>3, <2>4, OrderKept
  <1>6. ASSUME NEW p \in Pods, Prepare(p) \/ Unprepare(p) PROVE OrderInv'
    <2>1. UNCHANGED <<status, lost, sandbox, state, queue, runner>>
      BY <1>6 DEF Prepare, Unprepare
    <2>2. \A r \in Pods : Calm(r)
      <3>1. dropped \subseteq dropped' BY <1>6 DEF Prepare, Unprepare
      <3>2. \A r \in Pods \ {p} : record'[r] = record[r]
        BY <1>0, <1>6 DEF Prepare, Unprepare
      <3>3. state[p] = "running" => record'[p] = record[p] \/ p \in dropped'
        BY <1>6 DEF Prepare, Unprepare, NoSandbox, RecordInv
      <3> QED BY <2>1, <3>1, <3>2, <3>3
    <2>3. PastKept
      <3> SUFFICES ASSUME NEW r \in Pods, NEW n \in Int, PastUpTo(r, n)
                   PROVE  PastUpTo(r, n)'
        OBVIOUS
      <3>1. n >= 0 BY <1>0 DEF PastUpTo
      <3>2. \/ UNCHANGED <<data, saved>>
            \/ data' = Without(data, p) /\ saved' = data'
        BY <1>6 DEF Prepare, Unprepare
      <3>3. \A d \in Devs(r) : data'[d] <= n /\ saved'[d] <= n
        BY <1>0, <3>1, <3>2 DEF PastUpTo, Without, Devs
      <3> QED BY <2>1, <3>3 DEF PastUpTo
    <2> QED BY <2>1, <2>2, <2>3, OrderKept
  <1>7. CASE Restart
    <2>1. UNCHANGED <<record, data, saved, status, lost, dropped, sandbox, state, queue, runner>>
      BY <1>7 DEF Restart
    <2>2. \A p \in Pods : Calm(p) BY <2>1
    <2>3. PastKept BY <1>1, <2>1
    <2> QED BY <2>1, <2>2, <2>3, OrderKept
  <1> QED BY <1>2, <1>3, <1>4, <1>5, <1>6, <1>7

\* The sandboxes whose update is pending.
LEMMA PendingIs ==
    ASSUME TypeOK, NEW p \in Pods, NEW n
    PROVE  n \in Pending(p) <=>
              \/ runner.stage # "idle" /\ runner.update.pod = p /\ runner.update.sandbox = n
              \/ \E i \in DOMAIN queue : queue[i].pod = p /\ queue[i].sandbox = n
  <1>1. runner.update.pod = p => runner.stage # "idle"
    BY Types, IdleIs
  <1> QED BY <1>1 DEF Pending

\* A crash loses the updates that are pending; what was saved is read again.
LEMMA OrderCrash ==
    ASSUME TypeOK, TypeOK', OrderInv, Crash
    PROVE  OrderInv'
  <1>1. /\ UNCHANGED <<record, saved, status, sandbox>> /\ data' = saved
        /\ queue' = <<>> /\ runner' = IdleRunner
        /\ lost' = [p \in Pods |-> IF sandbox[p] \in Pending(p) THEN sandbox[p] ELSE lost[p]]
    BY DEF Crash, recordVars, statusVars
  <1>2. \A p \in Pods : state'[p] = "starting" => state[p] = "starting"
    BY DEF Crash, StopFails, TypeOK
  <1>3. /\ \A p \in Pods : sandbox[p] \in Nat /\ lost[p] \in Nat
        /\ \A d \in Devices : data[d] \in Nat /\ saved[d] \in Nat /\ status[d] \in Nat
    BY DEF TypeOK
  <1>4. ASSUME NEW p \in Pods
        PROVE  PastUpTo(p, IF state[p] = "starting" THEN sandbox[p] - 1 ELSE sandbox[p])'
    <2>1. PastUpTo(p, IF state[p] = "starting" THEN sandbox[p] - 1 ELSE sandbox[p])
      BY DEF OrderInv
    <2>2. CASE state'[p] = "starting"
      <3>1. state[p] = "starting" BY <1>2, <2>2
      <3>2. sandbox[p] \notin Pending(p)
        <4>1. \A i \in DOMAIN queue : PendingOK(queue[i]) BY DEF OrderInv
        <4>2. runner.stage # "idle" => PendingOK(runner.update) BY DEF OrderInv
        <4> QED BY <1>3, <3>1, <4>1, <4>2, PendingIs, QueueTypes, Active DEF PendingOK
      <3>3. lost'[p] = lost[p] BY <1>1, <3>2
      <3> QED BY <1>1, <2>1, <2>2, <3>1, <3>3 DEF PastUpTo
    <2>3. CASE state'[p] # "starting"
      <3>1. PastUpTo(p, sandbox[p]) BY <1>3, <2>1 DEF PastUpTo, Devs
      <3>2. lost'[p] \in {lost[p], sandbox[p]} BY <1>1
      <3> QED BY <1>1, <1>3, <2>3, <3>1, <3>2 DEF PastUpTo
    <2> QED BY <2>2, <2>3
  <1>5. DOMAIN queue' = {} /\ runner'.stage = "idle" BY <1>1, IdleIs
  <1> QED BY <1>4, <1>5 DEF OrderInv

-----------------------------------------------------------------------------
(* What becomes of an update *)

\* A step of a hook but the last, and of the runtime and the kubelet: the data of
\* running sandboxes stays where it is.
LEMMA ProgressKept ==
    ASSUME TypeOK, RunnerInv, OrderInv, ProgressInv, DeliveredInv,
           UNCHANGED <<queue, runner, hostNetwork, lost>>,
           \A p \in Pods : state'[p] = "running" /\ p \notin dropped' =>
              \/ /\ state[p] = "running" /\ sandbox'[p] = sandbox[p] /\ p \notin dropped
                 /\ \A d \in Devs(p) : /\ \A n \in Nat : Stored(d, n) => Stored(d, n)'
                                       /\ status'[d] = status[d]
                                       /\ ClaimOf[d] \in listed' <=> ClaimOf[d] \in listed
                 /\ \A c \in Claims : PodOf[c] = p => (c \in listed' <=> c \in listed)
              \/ p \in hostNetwork /\ sandbox'[p] = sandbox[p] + 1
    PROVE  ProgressInv' /\ DeliveredInv'
  <1>0. \A p \in Pods : sandbox[p] \in Nat BY DEF TypeOK
  <1>1. ASSUME NEW p \in Pods, state'[p] = "running", sandbox'[p] = sandbox[p],
               p \notin dropped', NEW d \in Devs(p), Delivered(d, sandbox[p])
        PROVE  Delivered(d, sandbox[p])'
    <2>1. Stored(d, sandbox[p]) => data'[d] = sandbox[p] /\ saved'[d] = sandbox[p]
      <3>1. sandbox[p] # sandbox[p] + 1 BY <1>0
      <3> QED BY <1>0, <1>1, <3>1 DEF Stored
    <2>2. /\ status'[d] = status[d] /\ (ClaimOf[d] \in listed' <=> ClaimOf[d] \in listed)
      <3>1. sandbox[p] # sandbox[p] + 1 BY <1>0
      <3> QED BY <1>1, <3>1
    <2> QED BY <1>1, <2>1, <2>2 DEF Delivered, Stored
  <1>2. DeliveredInv'
    <2> SUFFICES ASSUME NEW p \in Pods \ hostNetwork, state'[p] = "running", p \notin dropped'
                 PROVE  (\/ runner.stage # "idle" /\ runner.update.pod = p /\ runner.update.sandbox = sandbox[p]
                         \/ \E i \in DOMAIN queue : queue[i].pod = p /\ queue[i].sandbox = sandbox[p]
                         \/ lost[p] = sandbox[p]
                         \/ \A d \in Devs(p) : Delivered(d, sandbox[p]))'
      BY DEF DeliveredInv
    <2>1. state[p] = "running" /\ sandbox'[p] = sandbox[p] /\ p \notin dropped OBVIOUS
    <2>2. CASE \A d \in Devs(p) : Delivered(d, sandbox[p])
      <3>1. \A d \in Devs(p) : Delivered(d, sandbox[p])' BY <1>1, <2>1, <2>2
      <3> QED BY <3>1
    <2> QED BY <2>1, <2>2 DEF DeliveredInv
  <1>3. ProgressInv'
    <2> DEFINE u == runner.update
               p == u.pod
    <2> SUFFICES ASSUME runner.stage # "idle", state'[p] = "running", u.sandbox = sandbox'[p],
                        lost[p] # u.sandbox, p \notin dropped'
                 PROVE  (/\ \A d \in Devs(p) : ClaimOf[d] \notin runner.claims \cup {runner.claim}
                                => Delivered(d, u.sandbox)
                         /\ runner.stage # "claims" =>
                               /\ runner.found = (runner.claim \in listed)
                               /\ \A d \in Results(runner.claim) \ runner.left :
                                     /\ Stored(d, u.sandbox)
                                     /\ runner.found => d \in runner.writes)'
      BY DEF ProgressInv
    <2>1. p \in Pods /\ u.sandbox \in Nat BY Active
    <2>2. u.sandbox <= sandbox[p] BY DEF OrderInv, PendingOK
    <2>3. state[p] = "running" /\ sandbox'[p] = sandbox[p] /\ p \notin dropped
      BY <1>0, <2>1, <2>2
    <2>4. /\ \A d \in Devs(p) : ClaimOf[d] \notin runner.claims \cup {runner.claim}
                => Delivered(d, sandbox[p])
          /\ runner.stage # "claims" =>
                /\ runner.found = (runner.claim \in listed)
                /\ \A d \in Results(runner.claim) \ runner.left :
                      /\ Stored(d, sandbox[p])
                      /\ runner.found => d \in runner.writes
      BY <2>3 DEF ProgressInv
    <2>5. \A d \in Devs(p) : ClaimOf[d] \notin runner.claims \cup {runner.claim}
                => Delivered(d, sandbox[p])'
      BY <1>1, <2>1, <2>3, <2>4
    <2>6. ASSUME runner.stage # "claims"
          PROVE  /\ runner.found = (runner.claim \in listed')
                 /\ \A d \in Results(runner.claim) \ runner.left :
                       /\ data'[d] = sandbox[p] /\ saved'[d] = sandbox[p]
                       /\ runner.found => d \in runner.writes
      <3>1. runner.claim \in Claims /\ PodOf[runner.claim] = p BY <2>6 DEF RunnerInv
      <3>2. sandbox[p] \in Nat /\ sandbox[p] # sandbox[p] + 1 BY <1>0, <2>1
      <3>3. runner.claim \in listed' <=> runner.claim \in listed
        BY <2>1, <2>3, <3>1, <3>2
      <3>4. \A d \in Results(runner.claim) : d \in Devs(p) BY <3>1 DEF Results, Devs
      <3>5. \A d \in Devs(p) : Stored(d, sandbox[p]) => Stored(d, sandbox[p])'
        BY <2>1, <2>3, <3>2 DEF Stored
      <3> QED BY <2>3, <2>4, <2>6, <3>3, <3>4, <3>5 DEF Stored
    <2> QED BY <2>3, <2>5, <2>6 DEF Delivered, Stored
  <1> QED BY <1>2, <1>3

\* The hook queues the update of the sandbox it lets run.
LEMMA ProgressSend ==
    ASSUME TypeOK, HookInv, OrderInv, ProgressInv, DeliveredInv, SendUpdate
    PROVE  ProgressInv' /\ DeliveredInv'
  <1> DEFINE q == hook.pod
             n == Len(queue) + 1
  <1>1. /\ UNCHANGED <<hostNetwork, data, saved, status, listed, sandbox, lost, dropped, runner>>
        /\ hook.stage = "send" /\ state' = [state EXCEPT ![q] = "running"]
    BY DEF SendUpdate, podVars, recordVars, statusVars, lossVars
  <1>2. /\ q \in Pods /\ DOMAIN queue' = DOMAIN queue \cup {n}
        /\ \A i \in DOMAIN queue : queue'[i] = queue[i]
        /\ queue'[n].pod = q /\ queue'[n].sandbox = sandbox[q]
    BY SendIs
  <1> HIDE DEF n
  <1>3. state[q] = "starting" BY <1>1 DEF HookInv
  <1>4. \A p \in Pods : sandbox[p] \in Nat BY DEF TypeOK
  <1>5. \A p \in Pods : state'[p] = IF p = q THEN "running" ELSE state[p]
    BY <1>1, <1>2 DEF TypeOK
  <1>6. DeliveredInv'
    <2> SUFFICES ASSUME NEW p \in Pods \ hostNetwork, state'[p] = "running", p \notin dropped'
                 PROVE  (\/ runner.stage # "idle" /\ runner.update.pod = p /\ runner.update.sandbox = sandbox[p]
                         \/ \E i \in DOMAIN queue : queue[i].pod = p /\ queue[i].sandbox = sandbox[p]
                         \/ lost[p] = sandbox[p]
                         \/ \A d \in Devs(p) : Delivered(d, sandbox[p]))'
      BY <1>1 DEF DeliveredInv
    <2>1. CASE p = q BY <1>1, <1>2, <2>1
    <2>2. CASE p # q
      <3>1. state[p] = "running" /\ p \notin dropped BY <1>1, <1>5, <2>2
      <3>2. CASE \E i \in DOMAIN queue : queue[i].pod = p /\ queue[i].sandbox = sandbox[p]
        BY <1>1, <1>2, <3>2
      <3> QED BY <1>1, <3>1, <3>2 DEF DeliveredInv, Delivered, Stored
    <2> QED BY <2>1, <2>2
  <1>7. ProgressInv'
    <2>1. ASSUME runner.stage # "idle", runner.update.pod = q
          PROVE  runner.update.sandbox # sandbox[q]
      <3>1. runner.update.sandbox <= sandbox[q] - 1 /\ runner.update.sandbox \in Nat
        BY <1>3, <2>1, Active DEF OrderInv, PendingOK
      <3> QED BY <1>2, <1>4, <3>1
    <2>2. runner.stage # "idle" => runner.update.pod \in Pods BY Active
    <2>3. CASE runner.stage # "idle" /\ runner.update.pod # q
      <3>1. state'[runner.update.pod] = state[runner.update.pod] BY <1>5, <2>2, <2>3
      <3> QED BY <1>1, <3>1 DEF ProgressInv, Delivered, Stored
    <2> QED BY <1>1, <2>1, <2>3 DEF ProgressInv
  <1> QED BY <1>6, <1>7

\* Running sandboxes keep their data through everything else.
LEMMA ProgressOther ==
    ASSUME TypeOK, RunnerInv, RecordInv, OrderInv, ProgressInv, DeliveredInv,
           \/ \E d \in Devices : AttachNetwork(d) \/ DetachNetwork(d)
           \/ UpdateRequestMetadata
           \/ \E p \in Pods : RunPodSandbox(p) \/ StopPodSandbox(p)
           \/ \E p \in Pods : Prepare(p) \/ Unprepare(p)
           \/ Restart
    PROVE  ProgressInv' /\ DeliveredInv'
  <1> USE DEF podVars, recordVars, fileVars, statusVars, lossVars, hostVars
  <1>0. /\ state \in [Pods -> States] /\ sandbox \in [Pods -> Nat]
        /\ data \in [Devices -> Nat] /\ saved \in [Devices -> Nat]
    BY Types
  <1> DEFINE Same(p) ==
                 /\ state[p] = "running" /\ sandbox'[p] = sandbox[p] /\ p \notin dropped
                 /\ \A d \in Devs(p) : /\ \A n \in Nat : Stored(d, n) => Stored(d, n)'
                                       /\ status'[d] = status[d]
                                       /\ ClaimOf[d] \in listed' <=> ClaimOf[d] \in listed
                 /\ \A c \in Claims : PodOf[c] = p => (c \in listed' <=> c \in listed)
             Host(p) == p \in hostNetwork /\ sandbox'[p] = sandbox[p] + 1
  <1>1. ASSUME UNCHANGED <<data, saved, status, listed>>, NEW p \in Pods,
               state[p] = "running", sandbox'[p] = sandbox[p], p \notin dropped
        PROVE  Same(p)
    BY <1>1 DEF Stored
  <1>2. ASSUME UNCHANGED <<queue, runner, hostNetwork, lost>>,
               \A p \in Pods : state'[p] = "running" /\ p \notin dropped' => Same(p) \/ Host(p)
        PROVE  ProgressInv' /\ DeliveredInv'
    BY <1>2, ProgressKept
  <1> HIDE DEF Same
  <1>3. CASE \E d \in Devices : AttachNetwork(d) \/ DetachNetwork(d)
    <2>1. UNCHANGED <<queue, runner, hostNetwork, lossVars, data, saved, status, listed, sandbox>>
      BY <1>3 DEF AttachNetwork, DetachNetwork
    <2>2. \A p \in Pods : state'[p] = "running" => state[p] = "running"
      BY <1>0, <1>3 DEF AttachNetwork, DetachNetwork, RunFails, StopFails
    <2> QED BY <1>1, <1>2, <2>1, <2>2
  <1>4. CASE UpdateRequestMetadata
    <2>1. UNCHANGED <<queue, runner, hostNetwork, lossVars, data, saved, status, listed, sandbox>>
      BY <1>4 DEF UpdateRequestMetadata
    <2>2. \A p \in Pods : state'[p] = "running" => state[p] = "running"
      BY <1>0, <1>4 DEF UpdateRequestMetadata, RunFails
    <2> QED BY <1>1, <1>2, <2>1, <2>2
  <1>5. ASSUME NEW p \in Pods, RunPodSandbox(p) PROVE ProgressInv' /\ DeliveredInv'
    <2>1. UNCHANGED <<queue, runner, hostNetwork, lost, data, saved, status, listed>>
      BY <1>5 DEF RunPodSandbox
    <2>2. \A r \in Pods : state'[r] = "running" /\ r \notin dropped' =>
             (state[r] = "running" /\ sandbox'[r] = sandbox[r] /\ r \notin dropped) \/ Host(r)
      BY <1>0, <1>5 DEF RunPodSandbox, MayRun
    <2> QED BY <1>1, <1>2, <2>1, <2>2
  <1>6. ASSUME NEW p \in Pods, StopPodSandbox(p) PROVE ProgressInv' /\ DeliveredInv'
    <2>1. UNCHANGED <<queue, runner, hostNetwork, lossVars, data, saved, status, listed, sandbox>>
      BY <1>6 DEF StopPodSandbox
    <2>2. \A r \in Pods : state'[r] = "running" => state[r] = "running"
      BY <1>0, <1>6 DEF StopPodSandbox, StopFails
    <2> QED BY <1>1, <1>2, <2>1, <2>2
  <1>7. ASSUME NEW p \in Pods, Prepare(p) \/ Unprepare(p) PROVE ProgressInv' /\ DeliveredInv'
    <2>1. UNCHANGED <<queue, runner, hostNetwork, lost, status, sandbox, state>>
      BY <1>7 DEF Prepare, Unprepare
    <2>2. \/ state[p] # "running" \/ p \in dropped'
          \/ UNCHANGED <<data, saved, listed>>
      BY <1>7 DEF Prepare, Unprepare, NoSandbox, RecordInv
    <2>3. listed \subseteq listed' /\ listed' \subseteq listed \cup ClaimsOf(p)
      BY <1>7 DEF Prepare, Unprepare
    <2>4. \/ UNCHANGED <<data, saved>>
          \/ data' = Without(data, p) /\ saved' = data'
      BY <1>7 DEF Prepare, Unprepare
    <2>d. dropped \subseteq dropped' BY <1>7 DEF Prepare, Unprepare
    <2>5. ASSUME NEW r \in Pods, state'[r] = "running", r \notin dropped' PROVE Same(r)
      <3>0. CASE r = p
        <4>1. state[p] = "running" /\ p \notin dropped /\ UNCHANGED <<data, saved, listed>>
          BY <2>1, <2>2, <2>d, <2>5, <3>0
        <4> QED BY <1>1, <2>1, <3>0, <4>1
      <3> SUFFICES ASSUME r # p PROVE Same(r) BY <3>0
      <3>1. state[r] = "running" /\ r \notin dropped BY <2>1, <2>d, <2>5
      <3>2. \A d \in Devs(r) : d \in Devices /\ d \notin Devs(p) BY DEF Devs
      <3>3. \A d \in Devs(r) : \A n \in Nat : Stored(d, n) => Stored(d, n)'
        BY <2>4, <3>2, DevsAre DEF Stored, Without
      <3>4. \A c \in Claims : PodOf[c] = r => (c \in listed' <=> c \in listed)
        BY <2>3, <3>1 DEF ClaimsOf
      <3>5. \A d \in Devs(r) : ClaimOf[d] \in listed' <=> ClaimOf[d] \in listed
        BY <3>4, AllocationAssumption DEF Devs
      <3> QED BY <2>1, <3>1, <3>3, <3>4, <3>5 DEF Same
    <2> QED BY <1>2, <2>1, <2>5
  <1>8. CASE Restart
    <2>1. UNCHANGED <<queue, runner, hostNetwork, lossVars, data, saved, status, listed, sandbox, state>>
      BY <1>8 DEF Restart
    <2> QED BY <1>1, <1>2, <2>1
  <1> QED BY <1>3, <1>4, <1>5, <1>6, <1>7, <1>8

\* After a crash the update of a running sandbox is stored or known lost.
LEMMA ProgressCrash ==
    ASSUME TypeOK, DeliveredInv, Crash
    PROVE  ProgressInv' /\ DeliveredInv'
  <1>1. /\ UNCHANGED <<hostNetwork, saved, status, listed, sandbox, dropped>> /\ data' = saved
        /\ queue' = <<>> /\ runner' = IdleRunner
        /\ lost' = [p \in Pods |-> IF sandbox[p] \in Pending(p) THEN sandbox[p] ELSE lost[p]]
    BY DEF Crash, recordVars, statusVars
  <1>2. \A p \in Pods : state'[p] = "running" => state[p] = "running"
    BY DEF Crash, StopFails, TypeOK
  <1>3. runner'.stage = "idle" BY <1>1, IdleIs
  <1>4. ProgressInv' BY <1>3 DEF ProgressInv
  <1>5. DeliveredInv'
    <2> SUFFICES ASSUME NEW p \in Pods \ hostNetwork, state'[p] = "running", p \notin dropped
                 PROVE  lost'[p] = sandbox'[p] \/ (\A d \in Devs(p) : Delivered(d, sandbox[p]))'
      BY <1>1 DEF DeliveredInv
    <2>1. state[p] = "running" BY <1>2
    <2>2. CASE sandbox[p] \in Pending(p) BY <1>1, <2>2
    <2>3. CASE lost[p] = sandbox[p] BY <1>1, <2>3
    <2>4. CASE \A d \in Devs(p) : Delivered(d, sandbox[p])
      BY <1>1, <2>4 DEF Delivered, Stored
    <2> QED BY <2>1, <2>2, <2>3, <2>4, PendingIs DEF DeliveredInv
  <1> QED BY <1>4, <1>5

\* The runner handles the update of a running sandbox, none of which is lost or
\* rolled back.
Current ==
    /\ runner.stage # "idle" /\ state[runner.update.pod] = "running"
    /\ runner.update.sandbox = sandbox[runner.update.pod]
    /\ runner.update.pod \notin dropped
    /\ lost[runner.update.pod] # runner.update.sandbox

\* A step of the runner on a claim of pod p, with the data n of its sandbox: the
\* claims it has left behind are done, and when it has left all behind p is.
LEMMA ProgressStep ==
    ASSUME TypeOK, RunnerInv, OrderInv, ProgressInv, RunnerStep, Current, lost' = lost,
           NEW p, p = runner.update.pod, NEW n, n = runner.update.sandbox
    PROVE  /\ runner'.stage = "idle" => \A d \in Devs(p) : Delivered(d, n)'
           /\ runner'.stage # "idle" =>
                 /\ runner'.update = runner.update
                 /\ \A d \in Devs(p) : ClaimOf[d] \notin runner'.claims \cup {runner'.claim}
                                       => Delivered(d, n)'
                 /\ runner'.stage # "claims" =>
                       /\ runner'.found = (runner'.claim \in listed')
                       /\ \A d \in Results(runner'.claim) \ runner'.left :
                             /\ Stored(d, n)'
                             /\ runner'.found => d \in runner'.writes
  <1>0. /\ runner.stage # "idle" /\ p \in Pods /\ n \in Nat /\ runner \in Runners
        /\ runner.claims \in SUBSET Claims /\ runner.update.record = record[p]
    BY Active DEF Current, OrderInv, PendingOK
  <1>1. /\ \A d \in Devs(p) : ClaimOf[d] \notin runner.claims \cup {runner.claim}
                              => Delivered(d, n)
        /\ runner.stage # "claims" =>
              /\ runner.found = (runner.claim \in listed)
              /\ \A d \in Results(runner.claim) \ runner.left :
                    Stored(d, n) /\ (runner.found => d \in runner.writes)
    BY DEF ProgressInv, Current
  <1>2. \A d \in Devs(p) : d \in Devices /\ ClaimOf[d] \in Claims /\ ClaimOf[d] # NoClaim
                           /\ d \in Results(ClaimOf[d])
    BY AllocationAssumption DEF Devs, Results
  <1>3. ~Lose
    BY <1>0 DEF Lose, Current, TypeOK
  <1> DEFINE Goal ==
               /\ runner'.stage = "idle" => \A d \in Devs(p) : Delivered(d, n)'
               /\ runner'.stage # "idle" =>
                     /\ runner'.update = runner.update
                     /\ \A d \in Devs(p) : ClaimOf[d] \notin runner'.claims \cup {runner'.claim}
                                     => Delivered(d, n)'
                     /\ runner'.stage # "claims" =>
                           /\ runner'.found = (runner'.claim \in listed')
                           /\ \A d \in Results(runner'.claim) \ runner'.left :
                                 /\ Stored(d, n)'
                                 /\ runner'.found => d \in runner'.writes
  <1>4. ASSUME NextClaim(runner.claims),
               \A d \in Devs(p) : ClaimOf[d] \notin runner.claims => Delivered(d, n)'
        PROVE  Goal
    <2>1. \/ runner.claims = {} /\ runner'.stage = "idle"
          \/ /\ runner'.stage = "claims" /\ runner'.update = runner.update
             /\ runner'.claims = runner.claims
      BY <1>0, <1>4, NextClaimIs
    <2> QED BY <1>4, <2>1
  <1>5. ASSUME NEW c \in Claims, GetClaim(c) PROVE Goal
    <2>1. /\ runner.stage = "claims" /\ c \in runner.claims
          /\ UNCHANGED <<data, saved, status, listed>>
          /\ runner'.stage = "persist" /\ runner'.update = runner.update
          /\ runner'.claim = c
          /\ runner'.claims = runner.claims \ {c} /\ runner'.left = Results(c)
          /\ runner'.found = (c \in listed)
      BY <1>3, <1>5, GetClaimIs DEF recordVars, statusVars
    <2>2. runner.claim = NoClaim BY <2>1 DEF RunnerInv
    <2>3. \A d \in Devs(p) : ClaimOf[d] \notin runner.claims => Delivered(d, n)
      BY <1>1, <1>2, <2>2
    <2>4. runner'.claims \cup {runner'.claim} = runner.claims BY <2>1
    <2>5. \A d \in Devs(p) : Delivered(d, n) => Delivered(d, n)'
      BY <2>1 DEF Delivered, Stored
    <2> QED BY <2>1, <2>3, <2>4, <2>5
  <1>6. ASSUME NEW e \in Devices, UpdatePreparedDeviceNetworkData(e) PROVE Goal
    <2>1. /\ runner.stage = "persist" /\ e \in runner.left /\ data' = [data EXCEPT ![e] = n]
          /\ UNCHANGED <<status, listed>> /\ saved' = data'
      BY <1>0, <1>3, <1>6, UpdateDeviceIs DEF statusVars
    <2> DEFINE ws == UpdateClaimDeviceStatus(e)
    <2>2. \/ runner.left = {e} /\ ws = {} /\ NextClaim(runner.claims)
          \/ /\ runner'.stage \in {"persist", "status"}
             /\ runner'.update = runner.update /\ runner'.claim = runner.claim
             /\ runner'.claims = runner.claims /\ runner'.left = runner.left \ {e}
             /\ runner'.found = runner.found /\ runner'.writes = ws
      BY <1>3, <1>6, UpdateDeviceIs
    <2>3. runner.writes \subseteq ws /\ (runner.found => e \in ws)
      BY DEF UpdateClaimDeviceStatus
    <2> HIDE DEF ws
    <2>4. \A d \in Devices : Stored(d, n) \/ d = e => Stored(d, n)'
      BY <1>0, <2>1 DEF Stored, TypeOK
    <2>5. \A d \in Devs(p) : Delivered(d, n) => Delivered(d, n)'
      BY <1>2, <2>1, <2>4 DEF Delivered, Stored
    <2>6. /\ runner.claim \in Claims /\ PodOf[runner.claim] = p
          /\ runner.found = (runner.claim \in listed)
          /\ \A d \in Results(runner.claim) \ runner.left :
                    Stored(d, n) /\ (runner.found => d \in runner.writes)
      BY <1>1, <2>1 DEF RunnerInv
    <2>7. \A d \in Results(runner.claim) \ (runner.left \ {e}) :
             Stored(d, n)' /\ (runner.found => d \in ws)
      BY <2>3, <2>4, <2>6 DEF Results
    <2>8. \A d \in Devs(p) : ClaimOf[d] \notin runner.claims \cup {runner.claim}
                             => Delivered(d, n)'
      BY <1>1, <2>5
    <2>9. CASE runner.left = {e} /\ ws = {} /\ NextClaim(runner.claims)
      <3>1. runner.claim \notin listed' BY <2>1, <2>3, <2>6, <2>9
      <3>2. \A d \in Results(runner.claim) : Stored(d, n)' BY <2>7, <2>9
      <3>3. \A d \in Devs(p) : ClaimOf[d] = runner.claim => Delivered(d, n)'
        BY <1>2, <3>1, <3>2 DEF Delivered, Stored
      <3>4. \A d \in Devs(p) : ClaimOf[d] \notin runner.claims => Delivered(d, n)'
        BY <2>8, <3>3
      <3> QED BY <1>4, <2>9, <3>4
    <2>10. CASE /\ runner'.stage \in {"persist", "status"}
                /\ runner'.update = runner.update /\ runner'.claim = runner.claim
                /\ runner'.claims = runner.claims /\ runner'.left = runner.left \ {e}
                /\ runner'.found = runner.found /\ runner'.writes = ws
      BY <2>1, <2>6, <2>7, <2>8, <2>10
    <2> QED BY <2>2, <2>9, <2>10
  <1>7. ASSUME UpdateStatus PROVE Goal
    <2>1. /\ runner.stage = "status" /\ UNCHANGED <<data, saved, listed>>
          /\ \/ /\ status' = [d \in Devices |-> IF d \in runner.writes THEN n ELSE status[d]]
                /\ NextClaim(runner.claims)
             \/ /\ status' = status
                /\ runner'.stage = "status" /\ runner'.update = runner.update
                /\ runner'.claim = runner.claim /\ runner'.claims = runner.claims
                /\ runner'.left = runner.left /\ runner'.found = runner.found
                /\ runner'.writes = runner.writes
      BY <1>3, <1>7, UpdateStatusIs DEF recordVars
    <2>2. /\ runner.left = {} /\ runner.found = (runner.claim \in listed)
          /\ \A d \in Results(runner.claim) : Stored(d, n) /\ (runner.found => d \in runner.writes)
      BY <1>1, <2>1 DEF RunnerInv
    <2>3. CASE /\ status' = [d \in Devices |-> IF d \in runner.writes THEN n ELSE status[d]]
               /\ NextClaim(runner.claims)
      <3>1. \A d \in Devs(p) : status'[d] = n \/ status'[d] = status[d] BY <1>2, <2>3
      <3>2. \A d \in Devs(p) : Delivered(d, n) => Delivered(d, n)'
        BY <2>1, <3>1 DEF Delivered, Stored
      <3>3. \A d \in Devs(p) : ClaimOf[d] = runner.claim => Delivered(d, n)'
        BY <1>2, <2>1, <2>2, <2>3 DEF Delivered, Stored
      <3>4. \A d \in Devs(p) : ClaimOf[d] \notin runner.claims => Delivered(d, n)'
        BY <1>1, <3>2, <3>3
      <3> QED BY <1>4, <2>3, <3>4
    <2>4. CASE /\ status' = status
               /\ runner'.stage = "status" /\ runner'.update = runner.update
               /\ runner'.claim = runner.claim /\ runner'.claims = runner.claims
               /\ runner'.left = runner.left /\ runner'.found = runner.found
               /\ runner'.writes = runner.writes
      <3>1. \A d \in Devices : (Delivered(d, n) => Delivered(d, n)') /\ (Stored(d, n) => Stored(d, n)')
        BY <2>1, <2>4 DEF Delivered, Stored
      <3>2. \A d \in Results(runner.claim) : d \in Devices BY DEF Results
      <3> QED BY <1>1, <1>2, <2>1, <2>2, <2>4, <3>1, <3>2
    <2> QED BY <2>1, <2>3, <2>4
  <1>8. ~ReceiveUpdate BY <1>0 DEF ReceiveUpdate
  <1>9. Goal BY <1>5, <1>6, <1>7, <1>8 DEF RunnerStep
  <1> QED BY <1>9

\* The runner hands the data of its update on, or its loss is known.
LEMMA ProgressRunner ==
    ASSUME TypeOK, RunnerInv, OrderInv, ProgressInv, DeliveredInv, RunnerStep
    PROVE  ProgressInv' /\ DeliveredInv'
  <1>0. \A r \in Pods : sandbox[r] \in Nat /\ lost[r] \in Nat BY DEF TypeOK
  <1>1. CASE runner.stage = "idle"
    <2>1. ReceiveUpdate
      BY <1>1 DEF RunnerStep, GetClaim, UpdatePreparedDeviceNetworkData, UpdateStatus
    <2>2. UNCHANGED <<hostNetwork, record, data, saved, listed, status, sandbox, state, lost, dropped>>
      BY <2>1 DEF ReceiveUpdate, podVars, recordVars, statusVars, hostVars, lossVars
    <2>3. /\ runner'.update = queue[1] /\ 1 \in DOMAIN queue /\ runner'.stage = "claims"
          /\ runner'.claims = ClaimsOf(queue[1].pod)
          /\ \A i \in DOMAIN queue' : i + 1 \in DOMAIN queue /\ queue'[i] = queue[i + 1]
          /\ \A i \in DOMAIN queue : i = 1 \/ i - 1 \in DOMAIN queue'
      BY <2>1, ReceiveIs
    <2>4. \A d \in Devs(queue[1].pod) : ClaimOf[d] \in runner'.claims
      BY <2>3, AllocationAssumption DEF Devs, ClaimsOf
    <2>5. ProgressInv' BY <2>3, <2>4 DEF ProgressInv
    <2>6. DeliveredInv'
      <3> SUFFICES ASSUME NEW p \in Pods \ hostNetwork, state'[p] = "running", p \notin dropped
                   PROVE  (\/ runner.stage # "idle" /\ runner.update.pod = p /\ runner.update.sandbox = sandbox[p]
                           \/ \E i \in DOMAIN queue : queue[i].pod = p /\ queue[i].sandbox = sandbox[p]
                           \/ lost[p] = sandbox[p]
                           \/ \A d \in Devs(p) : Delivered(d, sandbox[p]))'
        BY <2>2 DEF DeliveredInv
      <3>1. CASE \E i \in DOMAIN queue : queue[i].pod = p /\ queue[i].sandbox = sandbox[p]
        <4>1. PICK i \in DOMAIN queue : queue[i].pod = p /\ queue[i].sandbox = sandbox[p]
          BY <3>1
        <4>2. CASE i = 1 BY <2>2, <2>3, <4>1, <4>2
        <4>3. CASE i # 1
          <5>1. i - 1 \in DOMAIN queue' /\ queue'[i - 1] = queue[(i - 1) + 1] BY <2>3, <4>3
          <5>2. (i - 1) + 1 = i
            <6>1. queue \in Seq(Update) BY Types
            <6>2. i \in Nat BY <6>1
            <6> QED BY <6>2
          <5> QED BY <2>2, <4>1, <5>1, <5>2
        <4> QED BY <4>2, <4>3
      <3> QED BY <1>1, <2>2, <3>1 DEF DeliveredInv, Delivered, Stored
    <2> QED BY <2>5, <2>6
  <1>2. CASE runner.stage # "idle"
    <2>1. /\ UNCHANGED <<queue, hostNetwork, record, listed, sandbox, state, dropped>>
          /\ runner'.stage = "idle" \/ runner'.update = runner.update
          /\ lost' = lost \/ Lose
      BY <1>2, RunnerFrame
    <2>2. PICK p \in Pods : p = runner.update.pod BY <1>2, Active
    <2>3. PICK n \in Nat : n = runner.update.sandbox BY <1>2, Active
    <2>4. /\ \A r \in Pods \ {p} : lost'[r] = lost[r]
          /\ lost' # lost => lost'[p] = n
      BY <2>1, <2>2, <2>3 DEF Lose, TypeOK
    <2>5. PastUpTo(p, n) /\ n <= sandbox[p]
      BY <1>2, <2>2, <2>3 DEF OrderInv, PendingOK
    <2>6. ProgressInv'
      <3> SUFFICES ASSUME runner'.stage # "idle", state'[p] = "running", n = sandbox'[p],
                          lost'[p] # n, p \notin dropped
                   PROVE  ProgressInv'
        BY <2>1, <2>2, <2>3 DEF ProgressInv
      <3>1. lost' = lost /\ Current BY <1>2, <2>1, <2>2, <2>3, <2>4 DEF Current
      <3> QED BY <2>2, <2>3, <3>1, ProgressStep DEF ProgressInv, Delivered, Stored
    <2>7. DeliveredInv'
      <3> SUFFICES ASSUME NEW r \in Pods \ hostNetwork, state[r] = "running", r \notin dropped
                   PROVE  \/ runner'.stage # "idle" /\ p = r /\ n = sandbox[r]
                          \/ \E i \in DOMAIN queue : queue[i].pod = r /\ queue[i].sandbox = sandbox[r]
                          \/ lost'[r] = sandbox[r]
                          \/ \A d \in Devs(r) : Delivered(d, sandbox[r])'
        BY <2>1, <2>2, <2>3 DEF DeliveredInv, Delivered, Stored
      <3>1. CASE r # p
        <4>1. ASSUME NEW d \in Devs(r), Delivered(d, sandbox[r]) PROVE Delivered(d, sandbox[r])'
          <5>1. d \in Devices /\ d \notin Devs(p) BY <3>1 DEF Devs
          <5>2. data'[d] = data[d] /\ saved'[d] \in {saved[d], data[d]} /\ status'[d] = status[d]
            <6>1. ASSUME NEW c \in Claims, GetClaim(c)
                  PROVE  UNCHANGED <<data, saved, status>>
              BY <6>1 DEF GetClaim, recordVars, statusVars
            <6>2. ASSUME NEW e \in Devices, UpdatePreparedDeviceNetworkData(e)
                  PROVE  data'[d] = data[d] /\ saved'[d] \in {saved[d], data[d]} /\ status'[d] = status[d]
              <7>1. /\ runner.stage = "persist" /\ e \in runner.left
                    /\ data' = IF record[runner.update.pod] = runner.update.record
                                 THEN [data EXCEPT ![e] = runner.update.sandbox] ELSE data
                    /\ (saved' = data' \/ saved' = saved) /\ status' = status
                BY <6>2, UpdateDeviceIs DEF statusVars
              <7>2. e \in Devs(p) BY <2>2, <7>1 DEF RunnerInv, Results, Devs
              <7> QED BY <5>1, <7>1, <7>2 DEF TypeOK
            <6>3. ASSUME UpdateStatus
                  PROVE  data'[d] = data[d] /\ saved'[d] = saved[d] /\ status'[d] = status[d]
              <7>1. /\ runner.stage = "status" /\ UNCHANGED <<data, saved>>
                    /\ \/ status' = status
                       \/ status' = [x \in Devices |-> IF x \in runner.writes
                                        THEN runner.update.sandbox ELSE status[x]]
                BY <6>3, UpdateStatusIs DEF recordVars
              <7>2. runner.writes \subseteq Devs(p) BY <2>2, <7>1 DEF RunnerInv, Results, Devs
              <7> QED BY <5>1, <7>1, <7>2
            <6>4. ~ReceiveUpdate BY <1>2 DEF ReceiveUpdate
            <6> QED BY <6>1, <6>2, <6>3, <6>4 DEF RunnerStep
          <5> QED BY <2>1, <4>1, <5>2 DEF Delivered, Stored
        <4> QED BY <2>2, <2>4, <3>1, <4>1 DEF DeliveredInv
      <3>2. CASE r = p /\ n = sandbox[p]
        <4>1. CASE runner'.stage # "idle" BY <3>2, <4>1
        <4>2. CASE lost'[p] = n BY <3>2, <4>2
        <4>3. CASE runner'.stage = "idle" /\ lost'[p] # n
          <5>1. lost' = lost /\ Current BY <1>2, <2>2, <2>3, <2>4, <3>2, <4>3 DEF Current
          <5>2. \A d \in Devs(p) : Delivered(d, n)' BY <2>2, <2>3, <4>3, <5>1, ProgressStep
          <5> QED BY <2>1, <3>2, <5>2 DEF Delivered, Stored
        <4> QED BY <4>1, <4>2, <4>3
      <3>3. CASE r = p /\ n # sandbox[p]
        <4>1. n < sandbox[p] BY <1>0, <2>5, <3>3
        <4>2. lost[p] # sandbox[p] BY <1>0, <2>5, <4>1 DEF PastUpTo
        <4>3. \A d \in Devs(p) : ~Delivered(d, sandbox[p])
          BY <1>0, <2>5, <4>1 DEF PastUpTo, Delivered, Stored
        <4> QED BY <2>2, <2>3, <3>3, <4>2, <4>3 DEF DeliveredInv
      <3> QED BY <3>1, <3>2, <3>3
    <2> QED BY <2>6, <2>7
  <1> QED BY <1>1, <1>2

-----------------------------------------------------------------------------
(* The theorems *)

\* No sandbox, nothing prepared, nothing pending.
LEMMA PodInvInit == Init => PodInv
  <1> SUFFICES ASSUME Init PROVE PodInv OBVIOUS
  <1>1. /\ hook = NoHook /\ runner = IdleRunner /\ queue = <<>>
        /\ state = [p \in Pods |-> "none"] /\ sandbox = [p \in Pods |-> 0]
        /\ lost = [p \in Pods |-> 0] /\ data = [d \in Devices |-> 0]
        /\ saved = [d \in Devices |-> 0] /\ status = [d \in Devices |-> 0]
        /\ repeated = {} /\ dropped = {}
    BY DEF Init
  <1>2. queue \in Seq(Update) /\ Len(queue) <= Capacity /\ DOMAIN queue = {}
    BY <1>1, BoundAssumption
  <1>3. hook.stage = "idle" /\ runner.stage = "idle" BY <1>1, IdleIs
  <1>4. TypeOK
    <2>1. /\ hook \in Hooks /\ (hook.stage = "idle" <=> hook.pod = NoPod)
          /\ runner \in Runners /\ (runner.stage = "idle" <=> runner.update = NoUpdate)
      BY <1>1, IdleIs
    <2>2. state \in [Pods -> States] BY <1>1 DEF States
    <2>3. up \in BOOLEAN BY Zenon DEF Init
    <2>4. /\ record \in [Pods -> Nat] /\ data \in [Devices -> Nat] /\ saved \in [Devices -> Nat]
          /\ metadata \in [Devices -> Nat] /\ status \in [Devices -> Nat]
          /\ sandbox \in [Pods -> Nat] /\ lost \in [Pods -> Nat]
          /\ hostNetwork \subseteq Pods /\ listed \subseteq Claims /\ attached \subseteq Devices
          /\ faults \in Nat /\ prepares \in Nat /\ crashes \in Nat
      BY DEF Init
    <2> QED BY <1>1, <1>2, <2>1, <2>2, <2>3, <2>4, Types
  <1>5. \A p \in Pods : state[p] = "none" BY <1>1
  <1>6. HookInv /\ RunnerInv /\ ProgressInv /\ RecordInv
    BY <1>3, <1>5 DEF HookInv, RunnerInv, ProgressInv, RecordInv
  <1>7. RunningIsAttached /\ StoppedIsDetached /\ DeliveredInv
    BY <1>5 DEF RunningIsAttached, StoppedIsDetached, DeliveredInv
  <1>8. OrderInv
    <2>1. \A p \in Pods : PastUpTo(p, 0) BY <1>1 DEF PastUpTo, Devs
    <2>2. \A p \in Pods : sandbox[p] = 0 BY <1>1
    <2> QED BY <1>2, <1>3, <1>5, <2>1, <2>2 DEF OrderInv
  <1> QED BY <1>4, <1>6, <1>7, <1>8 DEF PodInv

\* One step for each group of actions, and in it one for each part of PodInv.
LEMMA PodInvNext == PodInv /\ [Next]_vars => PodInv'
  <1> SUFFICES ASSUME PodInv, [Next]_vars PROVE PodInv' OBVIOUS
  <1>0. /\ TypeOK /\ HookInv /\ RunningIsAttached /\ StoppedIsDetached /\ RecordInv
        /\ RunnerInv /\ OrderInv /\ ProgressInv /\ DeliveredInv /\ AttachInv
    BY DEF PodInv, AttachInv
  <1>r. Next => RecordInv' BY <1>0, RecordKept
  <1>1. ASSUME Next, TypeOK', AttachInv', RunnerInv', OrderInv', ProgressInv' /\ DeliveredInv'
        PROVE  PodInv'
    BY <1>r, <1>1 DEF PodInv, AttachInv
  <1>2. ASSUME runner' = runner PROVE RunnerInv'
    BY <1>0, <1>2 DEF RunnerInv
  <1>3. CASE RunnerStep
    <2>1. TypeOK' BY <1>0, <1>3, RunnerTypes
    <2>2. UNCHANGED <<hostNetwork, metadata, repeated, sandbox, state, attached, hook>>
      BY <1>3 DEF RunnerStep, ReceiveUpdate, GetClaim, UpdatePreparedDeviceNetworkData,
                  UpdateStatus, podVars, fileVars, hostVars
    <2>3. AttachInv' BY <1>0, <2>2, AttachKept
    <2>4. RunnerInv' BY <1>0, <1>3, RunnerInvStep
    <2>5. OrderInv' BY <1>0, <1>3, <2>1, OrderRunner
    <2>6. ProgressInv' /\ DeliveredInv' BY <1>0, <1>3, ProgressRunner
    <2> QED BY <1>1, <1>3, <2>1, <2>3, <2>4, <2>5, <2>6 DEF Next
  <1>4. CASE HookStep
    <2>1. TypeOK' BY <1>0, <1>4, HookTypes
    <2>2. AttachInv' BY <1>0, <1>4, HookAttach
    <2>3. runner' = runner
      BY <1>4 DEF HookStep, AttachNetwork, DetachNetwork, UpdateRequestMetadata, SendUpdate
    <2>4. CASE SendUpdate
      <3>1. OrderInv' BY <1>0, <2>1, <2>4, OrderSend
      <3>2. ProgressInv' /\ DeliveredInv' BY <1>0, <2>4, ProgressSend
      <3> QED BY <1>1, <1>2, <1>4, <2>1, <2>2, <2>3, <3>1, <3>2 DEF Next
    <2>5. CASE (\E d \in Devices : AttachNetwork(d) \/ DetachNetwork(d)) \/ UpdateRequestMetadata
      <3>1. OrderInv' BY <1>0, <2>1, <2>5, OrderOther
      <3>2. ProgressInv' /\ DeliveredInv' BY <1>0, <2>5, ProgressOther
      <3> QED BY <1>1, <1>2, <1>4, <2>1, <2>2, <2>3, <3>1, <3>2 DEF Next
    <2> QED BY <1>4, <2>4, <2>5 DEF HookStep
  <1>5. CASE \/ \E p \in Pods : RunPodSandbox(p) \/ StopPodSandbox(p)
             \/ \E p \in Pods : Prepare(p) \/ Unprepare(p)
    <2>1. TypeOK' BY <1>0, <1>5, OtherTypes
    <2>2. AttachInv' BY <1>0, <1>5, OtherAttach
    <2>3. runner' = runner
      BY <1>5 DEF RunPodSandbox, StopPodSandbox, Prepare, Unprepare
    <2>4. OrderInv' BY <1>0, <1>5, <2>1, OrderOther
    <2>5. ProgressInv' /\ DeliveredInv' BY <1>0, <1>5, ProgressOther
    <2> QED BY <1>1, <1>2, <1>5, <2>1, <2>2, <2>3, <2>4, <2>5 DEF Next
  <1>6. CASE Crash
    <2>1. TypeOK' BY <1>0, <1>6, OtherTypes
    <2>2. AttachInv' BY <1>0, <1>6, OtherAttach
    <2>3. runner'.stage = "idle" BY <1>6, IdleIs DEF Crash
    <2>4. RunnerInv' BY <2>3 DEF RunnerInv
    <2>5. OrderInv' BY <1>0, <1>6, <2>1, OrderCrash
    <2>6. ProgressInv' /\ DeliveredInv' BY <1>0, <1>6, ProgressCrash
    <2> QED BY <1>1, <1>6, <2>1, <2>2, <2>4, <2>5, <2>6 DEF Next
  <1>7. CASE Restart
    <2>1. TypeOK' BY <1>0, <1>7, OtherTypes
    <2>2. UNCHANGED <<hostNetwork, metadata, repeated, sandbox, state, attached, hook>> /\ runner' = runner
      BY <1>7 DEF Restart, fileVars, hostVars
    <2>3. AttachInv' BY <1>0, <2>2, AttachKept
    <2>4. OrderInv' BY <1>0, <1>7, <2>1, OrderOther
    <2>5. ProgressInv' /\ DeliveredInv' BY <1>0, <1>7, ProgressOther
    <2> QED BY <1>1, <1>2, <1>7, <2>1, <2>2, <2>3, <2>4, <2>5 DEF Next
  <1>8. CASE UNCHANGED vars
    <2>1. UNCHANGED <<up, hostNetwork, record, data, saved, prepares, metadata, repeated, listed,
                      status, sandbox, state, attached, hook, queue, runner, lost, dropped, faults,
                      crashes>>
      BY <1>8 DEF vars, podVars, recordVars, fileVars, statusVars, lossVars, hostVars
    <2>2. TypeOK' BY <1>0, <2>1 DEF TypeOK
    <2>3. AttachInv' BY <1>0, <2>1, AttachKept
    <2>4. OrderInv' BY <1>0, <2>1 DEF OrderInv, PendingOK, PastUpTo
    <2>5. ProgressInv' BY <1>0, <2>1 DEF ProgressInv, Delivered, Stored
    <2>6. DeliveredInv' BY <1>0, <2>1 DEF DeliveredInv, Delivered, Stored
    <2>7. RecordInv' BY <1>0, <2>1 DEF RecordInv
    <2> QED BY <1>2, <2>1, <2>2, <2>3, <2>4, <2>5, <2>6, <2>7 DEF PodInv, AttachInv
  <1> QED BY <1>3, <1>4, <1>5, <1>6, <1>7, <1>8 DEF Next

\* The inductive invariant holds in every state of the hooks, the runner, the
\* claim path and the runtime.
THEOREM PodInvariant == Spec => []PodInv
  BY PodInvInit, PodInvNext, PTL DEF Spec

\* Every variable keeps its type; in particular the channel never holds more
\* than its capacity and the attempts of the status write stay within the backoff.
THEOREM PodTypes == Spec => []TypeOK
  <1>1. PodInv => TypeOK BY DEF PodInv
  <1> QED BY <1>1, PodInvariant, PTL

\* Whatever failed, crashed or was prepared again before, a sandbox that the hook
\* let start has every device of its pod attached, with this sandbox's data in
\* the metadata files until the kubelet prepares the pod once more.
THEOREM RunningAlwaysAttached == Spec => []RunningIsAttached
  <1>1. PodInv => RunningIsAttached BY DEF PodInv
  <1> QED BY <1>1, PodInvariant, PTL

\* A sandbox whose stop hook succeeded has no device left attached.
THEOREM StoppedAlwaysDetached == Spec => []StoppedIsDetached
  <1>1. PodInv => StoppedIsDetached BY DEF PodInv
  <1> QED BY <1>1, PodInvariant, PTL

\* The data of a running sandbox is stored and reported, on its way, known to be
\* lost, or rolled back with the record; a repeated prepare of a running pod does
\* not take it away.
THEOREM NothingEverForgotten == Spec => []NothingForgotten
  <1>1. PodInv => NothingForgotten
    <2> SUFFICES ASSUME PodInv, NEW p \in Pods \ hostNetwork, state[p] = "running",
                        p \notin dropped
                 PROVE  \/ sandbox[p] \in Pending(p) \cup {lost[p]}
                        \/ \A d \in GetDevicesByPodUID(p) :
                              /\ saved[d] = sandbox[p]
                              /\ ClaimOf[d] \in listed => status[d] = sandbox[p]
      BY DEF NothingForgotten
    <2>1. TypeOK /\ DeliveredInv BY DEF PodInv
    <2>2. sandbox[p] \in Pending(p) <=>
             \/ runner.stage # "idle" /\ runner.update.pod = p /\ runner.update.sandbox = sandbox[p]
             \/ \E i \in DOMAIN queue : queue[i].pod = p /\ queue[i].sandbox = sandbox[p]
      BY <2>1, PendingIs
    <2>3. GetDevicesByPodUID(p) = Devs(p) BY DevsAre
    <2> QED BY <2>1, <2>2, <2>3 DEF DeliveredInv, Delivered, Stored
  <1> QED BY <1>1, PodInvariant, PTL

\* A prepare that is repeated while a sandbox of the pod runs writes the sandbox's
\* own data to the metadata files again, unless the update has not arrived at the
\* record: it finds the pod prepared, and what is on record is what was delivered.
THEOREM RepeatedPrepareAlwaysKeepsData == Spec => RepeatedPrepareKeepsData
  <1> DEFINE Kept(p, d) == metadata[d] = sandbox[p] /\ metadata'[d] # sandbox[p] =>
                              sandbox[p] \in Pending(p) \cup {lost[p]} \/ p \in dropped
  <1>1. ASSUME PodInv, Next, NEW p \in Pods \ hostNetwork, state[p] = "running",
               NEW d \in Devs(p)
        PROVE  Kept(p, d)
    <2>1. /\ TypeOK /\ HookInv /\ RecordInv /\ DeliveredInv /\ d \in Devices
          /\ metadata \in [Devices -> Nat]
      BY <1>1 DEF PodInv, TypeOK, Devs
    <2>2. ASSUME metadata' = metadata PROVE Kept(p, d) BY <2>2
    <2>3. CASE UpdateRequestMetadata
      <3>1. hook.stage = "metadata" BY <2>3 DEF UpdateRequestMetadata
      <3>2. hook.pod # p BY <1>1, <2>1, <3>1 DEF HookInv
      <3>3. d \notin Devs(hook.pod) BY <3>2, <1>1 DEF Devs
      <3>4. ASSUME NEW S \in SUBSET Devs(hook.pod), metadata' = MetadataWith(S, sandbox[hook.pod])
            PROVE  metadata'[d] = metadata[d]
        BY <2>1, <3>3, <3>4 DEF MetadataWith
      <3>5. ASSUME NEW written \in SUBSET ClaimsOf(hook.pod)
            PROVE  UNION {Results(c) : c \in written} \subseteq Devs(hook.pod)
        BY <3>5 DEF ClaimsOf, Results, Devs
      <3>6. metadata'[d] = metadata[d]
        BY <2>3, <3>4, <3>5, DevsAre DEF UpdateRequestMetadata
      <3> QED BY <3>6
    <2>4. ASSUME NEW r \in Pods, Prepare(r) \/ Unprepare(r) PROVE Kept(p, d)
      <3>1. CASE r # p
        <4>1. d \notin Devs(r) BY <1>1, <3>1 DEF Devs
        <4>2. metadata'[d] = metadata[d]
          BY <2>1, <2>4, <4>1, DevsAre DEF Prepare, Unprepare, Without, fileVars
        <4> QED BY <4>2
      <3>2. CASE r = p /\ p \notin dropped
        <4>1. record[p] # 0 BY <1>1, <2>1, <3>2 DEF RecordInv
        <4>2. metadata'[d] \in {metadata[d], data[d]}
          BY <1>1, <2>1, <2>4, <3>2, <4>1, DevsAre
             DEF Prepare, Unprepare, NoSandbox, NetworkDataOf, fileVars
        <4>3. sandbox[p] \in Pending(p) \/ lost[p] = sandbox[p] \/ data[d] = sandbox[p]
          BY <1>1, <2>1, <3>2, PendingIs DEF DeliveredInv, Delivered, Stored
        <4> QED BY <4>2, <4>3
      <3> QED BY <3>1, <3>2
    <2>5. CASE RunnerStep
      <3>1. metadata' = metadata
        BY <2>5 DEF RunnerStep, ReceiveUpdate, GetClaim, UpdatePreparedDeviceNetworkData,
                    UpdateStatus, fileVars
      <3> QED BY <2>2, <3>1
    <2>6. CASE HookStep /\ ~UpdateRequestMetadata
      <3>1. metadata' = metadata
        BY <2>6 DEF HookStep, AttachNetwork, DetachNetwork, SendUpdate, fileVars
      <3> QED BY <2>2, <3>1
    <2>7. CASE (\E r \in Pods : RunPodSandbox(r) \/ StopPodSandbox(r)) \/ Crash \/ Restart
      <3>1. metadata' = metadata
        BY <2>7 DEF RunPodSandbox, StopPodSandbox, Crash, Restart, fileVars
      <3> QED BY <2>2, <3>1
    <2> QED BY <1>1, <2>3, <2>4, <2>5, <2>6, <2>7 DEF Next
  <1> DEFINE Step == \A p \in Pods \ hostNetwork :
                        state[p] = "running" /\ state'[p] = "running" =>
                           \A d \in GetDevicesByPodUID(p) : Kept(p, d)
  <1>2. PodInv /\ [Next]_vars => [Step]_vars
    BY <1>1, DevsAre
  <1> QED BY <1>2, PodInvariant, PTL DEF Spec, RepeatedPrepareKeepsData

\* One step of the driver never puts the status of a device back to the data of
\* an earlier sandbox: the updates of a pod are written in the order of its
\* sandboxes, across retries, crashes and repeated preparations.
THEOREM StatusNeverReverts == Spec => StatusNeverGoesBack
  <1>1. PodInv /\ [Next]_vars => [\A d \in Devices : status'[d] >= status[d]]_vars
    <2> SUFFICES ASSUME PodInv, Next, NEW d \in Devices PROVE status'[d] >= status[d]
      OBVIOUS
    <2>1. TypeOK /\ RunnerInv /\ OrderInv BY DEF PodInv
    <2>2. status[d] \in Nat BY <2>1 DEF TypeOK
    <2>3. ASSUME status' = status PROVE status'[d] >= status[d] BY <2>2, <2>3
    <2>4. CASE UpdateStatus
      <3>1. /\ runner.stage = "status"
            /\ \/ status' = status
               \/ status' = [x \in Devices |-> IF x \in runner.writes
                                THEN runner.update.sandbox ELSE status[x]]
        BY <2>1, <2>4, UpdateStatusIs
      <3>2. runner.writes \subseteq Devs(runner.update.pod)
        BY <2>1, <3>1 DEF RunnerInv, Results, Devs
      <3>3. PastUpTo(runner.update.pod, runner.update.sandbox) BY <2>1, <3>1 DEF OrderInv
      <3>4. runner.update.sandbox \in Nat BY <2>1, <3>1, Active
      <3>5. d \in runner.writes => status[d] <= runner.update.sandbox
        BY <3>2, <3>3 DEF PastUpTo
      <3> QED BY <2>2, <2>3, <3>1, <3>4, <3>5
    <2>5. CASE RunnerStep /\ ~UpdateStatus
      <3>1. status' = status
        BY <2>5 DEF RunnerStep, ReceiveUpdate, GetClaim, UpdatePreparedDeviceNetworkData, statusVars
      <3> QED BY <2>3, <3>1
    <2>6. CASE HookStep
      <3>1. status' = status
        BY <2>6 DEF HookStep, AttachNetwork, DetachNetwork, UpdateRequestMetadata, SendUpdate,
                    statusVars
      <3> QED BY <2>3, <3>1
    <2>7. CASE ~HookStep /\ ~RunnerStep
      <3>1. status' = status
        BY <2>7 DEF Next, RunPodSandbox, StopPodSandbox, Prepare, Unprepare, Crash, Restart,
                    statusVars
      <3> QED BY <2>3, <3>1
    <2> QED BY <2>4, <2>5, <2>6, <2>7
  <1> QED BY <1>1, PodInvariant, PTL DEF Spec, StatusNeverGoesBack
=============================================================================
