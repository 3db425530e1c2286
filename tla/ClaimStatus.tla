---------------------------- MODULE ClaimStatus -----------------------------
(***************************************************************************)
(* The status of one ResourceClaim and its writers: prepareResourceClaim   *)
(* of pkg/driver/dra_hook.go, the update runner of pkg/nri/nri.go, another *)
(* DRA driver with a device in the same claim, and whoever else changes    *)
(* the object.  The claim is addressed by its name; it may be deleted and  *)
(* created again.  Both writers of this driver send the whole list of      *)
(* device statuses and, on a conflict, put their list into a fresh copy.   *)
(* ClaimLifecycle and PodNetwork take such an update as one step.          *)
(***************************************************************************)
EXTENDS Integers, Sequences

CONSTANTS
    Results,       \* the devices of this driver allocated to the claim, in order
    TheirDevice,   \* the device of the other driver
    Steps,         \* attempts of consts.Backoff
    MaxClaims, MaxPods, MaxSandboxes, MaxOthers, MaxFaults

ASSUME StatusAssumption ==
    /\ Results \in Seq({Results[i] : i \in DOMAIN Results})
    /\ \A i, j \in DOMAIN Results : Results[i] = Results[j] => i = j
    /\ Steps \in Nat \ {0} /\ MaxClaims \in Nat /\ MaxPods \in Nat
    /\ MaxSandboxes \in Nat /\ MaxOthers \in Nat /\ MaxFaults \in Nat

VARIABLES
    api,       \* the object of that name; uid 0: there is none
    uids,      \* claims created so far
    record,    \* uid of the claim the driver has prepared, 0 is none
    hook,      \* the update of prepareResourceClaim
    queue,     \* networkDeviceDataUpdateChan
    runner,    \* the update of the runner
    update,    \* the sandbox it is about
    sandbox,   \* the latest sandbox: its number and the claim it was started for
    theirs,    \* what the other driver wrote last
    listed,    \* the claim a prepare has last listed its devices in, and the
               \* latest sandbox at that time
    lost,      \* the latest sandbox whose update ended in an error message
    pods, others, faults

vars == <<api, uids, record, hook, queue, runner, update, sandbox, theirs, listed, lost,
          pods, others, faults>>

\* The data of a device: 0 is the VfConfig of the prepare, n the network data of
\* the n-th sandbox; for the other driver the number of its write.
Entry(driver, device, data) == [driver |-> driver, device |-> device, data |-> data]

NoClaim == [uid |-> 0, version |-> 0, devices |-> <<>>]
IdleWriter == [stage |-> "idle", claim |-> NoClaim, original |-> <<>>, tries |-> 0]

Entries == [driver : {"us", "them"}, data : Nat,
            device : {Results[i] : i \in DOMAIN Results} \cup {TheirDevice}]
Objects == [uid : Nat, version : Nat, devices : Seq(Entries)]
Writers == [stage : {"idle", "get", "update", "fetch"}, claim : Objects,
            original : Seq(Entries), tries : 0 .. Steps - 1]

TypeOK ==
    /\ api \in Objects /\ uids \in Nat /\ record \in Nat
    /\ hook \in Writers /\ runner \in Writers
    /\ queue \in Seq(Nat) /\ update \in Nat
    /\ sandbox \in [number : Nat, uid : Nat]
    /\ theirs \in Nat /\ listed \in [number : Nat, uid : Nat] /\ lost \in Nat

Fault == faults < MaxFaults /\ faults' = faults + 1
NoFault == UNCHANGED faults

-----------------------------------------------------------------------------
(* The API server *)

Duplicates(list) ==
    \E i, j \in DOMAIN list : /\ i # j /\ list[i].driver = list[j].driver
                              /\ list[i].device = list[j].device

\* A write must name the current object and version, and list no device twice.
Answer(c) ==
    IF api.uid = 0 THEN "gone"
    ELSE IF <<c.uid, c.version>> # <<api.uid, api.version>> THEN "conflict"
    ELSE IF Duplicates(c.devices) THEN "invalid" ELSE "ok"

-----------------------------------------------------------------------------
(* wait.ExponentialBackoffWithContext around UpdateStatus *)

\* An attempt that failed.  Mutant: it does not count.
UncountedTry(w) == w
FailedTry(w) == IF w.tries + 1 < Steps THEN [w EXCEPT !.tries = @ + 1] ELSE IdleWriter

\* The fresh claim is given the list of the first attempt.
\* Mutant: it keeps its own.
KeepFresh(w) == [w EXCEPT !.claim = api]
Refreshed(w) == [w EXCEPT !.claim = [api EXCEPT !.devices = w.original]]

\* The object with the list of writer w.
Written(w) == [api EXCEPT !.version = @ + 1, !.devices = w.claim.devices]

\* UpdateStatus with the copy of writer w, which goes on as next.  A call that
\* fails on the way may have been carried out: only its answer is lost.
Update(w, next) ==
    /\ w.stage = "update"
    /\ \/ /\ Answer(w.claim) = "ok" /\ NoFault
          /\ api' = Written(w)
          /\ next = IdleWriter
       \/ /\ Answer(w.claim) = "conflict" /\ NoFault /\ UNCHANGED api
          /\ next = [w EXCEPT !.stage = "fetch"]
       \/ /\ Answer(w.claim) \in {"gone", "invalid"} /\ NoFault /\ UNCHANGED api
          /\ next = FailedTry(w)
       \/ /\ Answer(w.claim) = "ok" /\ Fault
          /\ api' \in {api, Written(w)}
          /\ next = FailedTry(w)

Fetch(w, next) ==
    /\ w.stage = "fetch" /\ UNCHANGED api
    /\ \/ /\ api.uid # 0 /\ NoFault
          /\ next = FailedTry([Refreshed(w) EXCEPT !.stage = "update"])
       \/ /\ IF api.uid = 0 THEN NoFault ELSE Fault
          /\ next = FailedTry([w EXCEPT !.stage = "update"])

-----------------------------------------------------------------------------
(* prepareResourceClaim *)

Ours(data) == [i \in DOMAIN Results |-> Entry("us", Results[i], data)]

\* prepareDevices appends to what the claim lists.  Mutant: it starts anew.
OnlyOurs(list) == Ours(0)
WithOurs(list) == list \o Ours(0)

\* The kubelet hands over the claim as it is now; once the devices are prepared
\* and recorded, its status is written.
PrepareResourceClaim ==
    /\ hook = IdleWriter /\ record = 0 /\ api.uid # 0
    /\ pods < MaxPods /\ pods' = pods + 1
    /\ record' = api.uid
    /\ hook' = [stage |-> "update",
                claim |-> [api EXCEPT !.devices = WithOurs(@)],
                original |-> WithOurs(api.devices), tries |-> 0]
    /\ UNCHANGED <<api, uids, queue, runner, update, sandbox, theirs, listed, lost,
                   others, faults>>

\* The call is answered when the update is done or given up.
UpdatePreparedStatus ==
    /\ Update(hook, hook') \/ Fetch(hook, hook')
    /\ listed' = IF api' # api THEN [sandbox EXCEPT !.uid = api.uid] ELSE listed
    /\ UNCHANGED <<uids, record, queue, runner, update, sandbox, theirs, lost, pods,
                   others>>

-----------------------------------------------------------------------------
(* updateNetworkDeviceData *)

ReceiveUpdate ==
    /\ runner = IdleWriter /\ queue # <<>>
    /\ update' = Head(queue) /\ queue' = Tail(queue)
    /\ runner' = [IdleWriter EXCEPT !.stage = "get"]
    /\ UNCHANGED <<api, uids, record, hook, sandbox, theirs, listed, lost, pods, others,
                   faults>>

\* The claim is fetched by its name, whatever its UID; the entries of this
\* driver's devices get the network data of the sandbox.
WithNetworkData(list) ==
    [i \in DOMAIN list |->
        IF list[i].driver = "us" THEN [list[i] EXCEPT !.data = update] ELSE list[i]]

ListsOurs(list) == \E i \in DOMAIN list : list[i].driver = "us"

GetClaim ==
    /\ runner.stage = "get"
    /\ UNCHANGED <<api, uids, record, hook, queue, update, sandbox, theirs, listed, pods,
                   others>>
    /\ \/ /\ ListsOurs(api.devices) /\ NoFault /\ UNCHANGED lost
          /\ runner' = [stage |-> "update", tries |-> 0,
                        claim |-> [api EXCEPT !.devices = WithNetworkData(@)],
                        original |-> WithNetworkData(api.devices)]
       \/ /\ api.uid # 0 /\ ~ListsOurs(api.devices) /\ NoFault /\ UNCHANGED lost
          /\ runner' = IdleWriter
       \/ /\ IF api.uid = 0 THEN NoFault ELSE Fault
          /\ runner' = IdleWriter /\ lost' = update

UpdateClaimNetworkDataWithRetry ==
    /\ Update(runner, runner') \/ Fetch(runner, runner')
    /\ lost' = IF runner' = IdleWriter /\ api' = api THEN update ELSE lost
    /\ UNCHANGED <<uids, record, hook, queue, update, sandbox, theirs, listed, pods,
                   others>>

-----------------------------------------------------------------------------
(* Everyone else *)

\* A sandbox of the prepared pod is started and its data is queued.
RunPodSandbox ==
    /\ record # 0 /\ hook = IdleWriter /\ sandbox.number < MaxSandboxes
    /\ sandbox' = [number |-> sandbox.number + 1, uid |-> record]
    /\ queue' = Append(queue, sandbox.number + 1)
    /\ UNCHANGED <<api, uids, record, hook, runner, update, theirs, listed, lost, pods,
                   others, faults>>

UnprepareResourceClaim ==
    /\ record # 0 /\ hook = IdleWriter
    /\ record' = 0
    /\ UNCHANGED <<api, uids, hook, queue, runner, update, sandbox, theirs, listed, lost,
                   pods, others, faults>>

\* A claim is deleted once its pod is gone, and may be created again.
DeleteClaim ==
    /\ api.uid # 0 /\ record = 0
    /\ api' = NoClaim /\ theirs' = 0
    /\ UNCHANGED <<uids, record, hook, queue, runner, update, sandbox, listed, lost, pods,
                   others, faults>>

CreateClaim ==
    /\ api.uid = 0 /\ uids < MaxClaims
    /\ uids' = uids + 1
    /\ api' = [uid |-> uids + 1, version |-> 1, devices |-> <<>>]
    /\ UNCHANGED <<record, hook, queue, runner, update, sandbox, theirs, listed, lost,
                   pods, others, faults>>

\* The other driver changes its own entry of the current object, or adds it.
TheirIndices(list) == {i \in DOMAIN list : list[i].driver = "them"}

WithTheirs(list, entry) ==
    IF TheirIndices(list) = {} THEN Append(list, entry)
    ELSE [i \in DOMAIN list |-> IF i \in TheirIndices(list) THEN entry ELSE list[i]]

OtherDriverWrites ==
    /\ api.uid # 0 /\ others < MaxOthers /\ others' = others + 1
    /\ theirs' = others + 1
    /\ api' = [api EXCEPT !.version = @ + 1,
                  !.devices = WithTheirs(@, Entry("them", TheirDevice, others + 1))]
    /\ UNCHANGED <<uids, record, hook, queue, runner, update, sandbox, listed, lost, pods,
                   faults>>

\* Someone changes another part of the object, a reservation for instance.
ObjectChanges ==
    /\ api.uid # 0 /\ others < MaxOthers /\ others' = others + 1
    /\ api' = [api EXCEPT !.version = @ + 1]
    /\ UNCHANGED <<uids, record, hook, queue, runner, update, sandbox, theirs, listed,
                   lost, pods, faults>>

-----------------------------------------------------------------------------

Init ==
    /\ api = NoClaim /\ uids = 0 /\ record = 0
    /\ hook = IdleWriter /\ runner = IdleWriter /\ update = 0 /\ queue = <<>>
    /\ sandbox = [number |-> 0, uid |-> 0]
    /\ theirs = 0 /\ listed = sandbox /\ lost = 0
    /\ pods = 0 /\ others = 0 /\ faults = 0

HookStep == UpdatePreparedStatus
RunnerStep == ReceiveUpdate \/ GetClaim \/ UpdateClaimNetworkDataWithRetry

Next ==
    \/ PrepareResourceClaim \/ HookStep \/ RunnerStep
    \/ RunPodSandbox \/ UnprepareResourceClaim
    \/ DeleteClaim \/ CreateClaim \/ OtherDriverWrites \/ ObjectChanges

Spec == Init /\ [][Next]_vars

\* The goroutine of the call and that of the runner go on.
FairSpec == Spec /\ WF_vars(HookStep) /\ WF_vars(RunnerStep)

-----------------------------------------------------------------------------
(* Properties *)

\* Once every update is handled, the status of a claim that a prepare reported
\* written lists each device of this driver, with the network data of the latest
\* sandbox that was started for this very claim since: conflicts, late
\* updates for an older claim of the same name and a second pod on the claim
\* may delay that data but not replace it for good.
LastSandboxWins ==
    /\ hook = IdleWriter /\ runner = IdleWriter /\ queue = <<>>
    /\ api.uid # 0 /\ listed.uid = api.uid
    => /\ \A i \in DOMAIN Results : \E j \in DOMAIN api.devices :
             api.devices[j].driver = "us" /\ api.devices[j].device = Results[i]
       /\ sandbox.number > listed.number /\ lost # sandbox.number
          /\ sandbox.uid = api.uid
          => \A j \in DOMAIN api.devices :
                api.devices[j].driver = "us" => api.devices[j].data = sandbox.number

\* The entries of the other driver.
Their(list) == {list[i] : i \in TheirIndices(list)}

\* What the other driver wrote is lost to this driver's whole-list writes only
\* when an attempt met a conflict before: a first attempt carries every entry
\* of the object it replaces.
TheirsLostOnlyOnRetry ==
    [][api'.uid = api.uid /\ theirs' = theirs /\ Their(api'.devices) # Their(api.devices)
         => \E w \in {hook, runner} : w.stage = "update" /\ w.tries > 0]_vars

\* The status update of a prepare ends whatever the API server answers, a list
\* it rejects every time included: the kubelet gets its answer, and so does the
\* runner get to its next update.
UpdatesEnd ==
    /\ hook # IdleWriter ~> hook = IdleWriter
    /\ runner # IdleWriter ~> runner = IdleWriter
=============================================================================
