---------------------------- MODULE DriverProcess ---------------------------
(***************************************************************************)
(* The life of the driver process: RunPlugin of cmd/dra-driver-sriov with  *)
(* the goroutines it starts (the gRPC servers of the kubelet plugin        *)
(* library, the health service, the controller manager, the NRI hooks and  *)
(* their runner), the signals and errors that end it, and the kubelet that *)
(* starts the container again.  What the calls and hooks do is the subject *)
(* of the other modules.                                                   *)
(***************************************************************************)
EXTENDS Integers, Sequences

CONSTANTS
    Capacity,     \* of networkDeviceDataUpdateChan
    MaxFaults, MaxSignals, MaxHooks, MaxChecks

ASSUME ProcessAssumption ==
    /\ Capacity \in Nat \ {0} /\ MaxFaults \in Nat /\ MaxSignals \in Nat
    /\ MaxHooks \in Nat /\ MaxChecks \in Nat

VARIABLES
    flags,      \* health port and configuration mode
    stage,      \* where RunPlugin is; "down": there is no process
    exit,       \* how the process ended, once it has
    cancelled,  \* the main context is done
    ready,      \* what of the state managers is set up
    server,     \* the gRPC servers of the process
    files,      \* socket files in the kubelet's directories
    status,     \* helper.RegistrationStatus
    check,      \* the health check in progress
    ctrl,       \* the controller manager
    matched,    \* the device state manager has devices to advertise
    unpublished, \* ... and the callback that should publish them failed
    slice,      \* the ResourceSlice of the node
    nri,        \* the connection to the container runtime
    hook,       \* RunPodSandbox
    chan,       \* networkDeviceDataUpdateChan: entries, -1 once it is closed
    runner,     \* updateNetworkDeviceDataRunner
    kubelet,    \* the kubelet runs
    known,      \* it has registered the plugin
    faults, signals, hooks, checks

hostVars == <<flags, files, slice, kubelet, known, signals>>
servingVars == <<ready, server, status, check, checks>>
controllerVars == <<ctrl, matched, unpublished>>
nriVars == <<nri, hook, chan, runner, hooks>>
vars == <<hostVars, stage, exit, cancelled, servingVars, controllerVars, nriVars, faults>>

\* The statements of RunPlugin.  Mutants: the servers start before the records
\* are loaded; the health service starts before the servers.
RecordsLast ==
    <<"dirs", "discover", "startPlugin", "register", "loadRecords", "startHealth",
      "publish", "setCallback", "startController", "syncCache", "startNRI",
      "startRunner", "wait">>
HealthFirst ==
    <<"dirs", "discover", "loadRecords", "startHealth", "startPlugin", "register",
      "publish", "setCallback", "startController", "syncCache", "startNRI",
      "startRunner", "wait">>
StartOrder ==
    <<"dirs", "discover", "loadRecords", "startPlugin", "register", "startHealth",
      "publish", "setCallback", "startController", "syncCache", "startNRI",
      "startRunner", "wait">>

\* ... once the context is done.
StopOrder ==
    <<"stopNRI", "closeChan", "stopHealth", "drainHealth", "stopPlugin", "removeReg",
      "removeDra">>

Stages == {StartOrder[i] : i \in DOMAIN StartOrder} \cup
          {StopOrder[i] : i \in DOMAIN StopOrder}

After(s) ==
    LET order == StartOrder \o StopOrder
        at == CHOOSE i \in DOMAIN order : order[i] = s
    IN  order[at + 1]

TypeOK ==
    /\ flags \in [health : BOOLEAN, multus : BOOLEAN]
    /\ stage \in Stages \cup {"down"}
    /\ exit \in {"none", "clean", "unclean", "error", "killed", "panic"}
    /\ cancelled \in BOOLEAN
    /\ ready \subseteq {"devices", "records", "callback"}
    /\ server \in [{"dra", "reg", "health"} -> {"off", "serving", "failed"}]
    /\ files \subseteq {"dra", "reg"}
    /\ status \in {"none", "registered", "error"}
    /\ check \in {"idle", "getInfo", "prepare", "SERVING", "NOT_SERVING", "DEADLINE"}
    /\ ctrl \in {"none", "starting", "synced"} /\ matched \in BOOLEAN
    /\ unpublished \in BOOLEAN
    /\ slice \in {"none", "empty", "current"}
    /\ nri \in {"none", "connected", "closed"}
    /\ hook \in {"idle", "send"} /\ chan \in -1 .. Capacity
    /\ runner \in {"none", "idle", "busy"}
    /\ kubelet \in BOOLEAN /\ known \in BOOLEAN

Fault == faults < MaxFaults /\ faults' = faults + 1
NoFault == UNCHANGED faults

NoServers == [s \in {"dra", "reg", "health"} |-> "off"]

-----------------------------------------------------------------------------
(* The start *)

\* The process ends; the socket files and the published slice stay.
Exit(how) ==
    /\ stage' = "down" /\ exit' = how /\ cancelled' = FALSE
    /\ ready' = {} /\ server' = NoServers /\ status' = "none" /\ check' = "idle"
    /\ ctrl' = "none" /\ matched' = FALSE /\ unpublished' = FALSE
    /\ nri' = "none" /\ hook' = "idle" /\ chan' = 0 /\ runner' = "none"

\* RunPlugin returns an error: nothing is shut down.
ReturnError ==
    /\ Exit("error")
    /\ UNCHANGED <<hostVars, hooks, checks>>

Goto(s) == stage' = s /\ UNCHANGED <<exit, cancelled>>

StartProcess ==
    /\ stage = "down" /\ kubelet
    /\ stage' = StartOrder[1] /\ exit' = "none"
    /\ UNCHANGED <<hostVars, cancelled, servingVars, controllerVars, nriVars,
                   faults>>

\* The directories, the signal handler and the CDI handler; the discovery of
\* the devices; the checkpoint; the callback.
Sets(s) ==
    CASE s = "discover" -> {"devices"} [] s = "loadRecords" -> {"records"}
      [] s = "setCallback" -> {"callback"} [] OTHER -> {}

SetUp(s) ==
    /\ stage = s
    /\ \/ /\ NoFault /\ Goto(After(s))
          /\ ready' = ready \cup Sets(s)
          /\ UNCHANGED <<hostVars, server, status, check, checks, controllerVars, nriVars>>
       \/ /\ s # "setCallback" /\ Fault /\ ReturnError

\* kubeletplugin.Start: both sockets are served, over whatever file there was.
StartPlugin ==
    /\ stage = "startPlugin"
    /\ \/ /\ NoFault /\ Goto(After(stage))
          /\ server' = [server EXCEPT !["dra"] = "serving", !["reg"] = "serving"]
          /\ files' = {"dra", "reg"}
          /\ UNCHANGED <<flags, slice, kubelet, known, signals, ready, status, check,
                         checks, controllerVars, nriVars>>
       \/ /\ Fault /\ ReturnError

\* The wait takes no notice of the context.  Bar a fault, a kubelet that runs
\* registers a socket that is served in time.  Mutant: no timeout.
NoTimeout == FALSE
Timeout ==
    status = "none" /\ IF kubelet /\ server["reg"] = "serving" THEN Fault ELSE NoFault

WaitForRegistration ==
    /\ stage = "register"
    /\ \/ /\ status = "registered" /\ NoFault /\ Goto(After(stage))
          /\ UNCHANGED <<hostVars, servingVars, controllerVars, nriVars>>
       \/ /\ status = "error" /\ NoFault /\ ReturnError
       \/ /\ Timeout /\ ReturnError

StartHealthcheck ==
    /\ stage = "startHealth"
    /\ \/ /\ NoFault /\ Goto(After(stage))
          /\ server' = IF flags.health THEN [server EXCEPT !["health"] = "serving"]
                                       ELSE server
          /\ UNCHANGED <<hostVars, ready, status, check, checks, controllerVars, nriVars>>
       \/ /\ flags.health /\ Fault /\ ReturnError

PublishResources ==
    /\ stage = "publish"
    /\ \/ /\ NoFault /\ Goto(After(stage))
          /\ slice' = IF matched THEN "current" ELSE "empty"
          /\ UNCHANGED <<flags, files, kubelet, known, signals, servingVars,
                         controllerVars, nriVars>>
       \/ /\ IF cancelled THEN NoFault ELSE Fault
          /\ ReturnError

StartController ==
    /\ stage = "startController"
    /\ \/ /\ NoFault /\ Goto(After(stage))
          /\ ctrl' = "starting"
          /\ UNCHANGED <<hostVars, servingVars, matched, unpublished, nriVars>>
       \/ /\ Fault /\ ReturnError

WaitForCacheSync ==
    /\ stage = "syncCache" /\ NoFault
    /\ \/ /\ ctrl = "synced" /\ Goto(After(stage))
          /\ UNCHANGED <<hostVars, servingVars, controllerVars, nriVars>>
       \/ /\ cancelled /\ ReturnError

\* NewNRIPlugin and the connection to the runtime; then the runner.
StartNRI ==
    /\ stage = "startNRI"
    /\ \/ /\ flags.multus /\ NoFault /\ Goto("wait")
          /\ UNCHANGED <<hostVars, servingVars, controllerVars, nriVars>>
       \/ /\ ~flags.multus /\ NoFault /\ Goto(After(stage))
          /\ nri' = "connected"
          /\ UNCHANGED <<hostVars, servingVars, controllerVars, hook, chan, runner, hooks>>
       \/ /\ ~flags.multus /\ (IF cancelled THEN NoFault ELSE Fault) /\ ReturnError

StartRunner ==
    /\ stage = "startRunner" /\ NoFault /\ Goto(After(stage))
    /\ runner' = "idle"
    /\ UNCHANGED <<hostVars, servingVars, controllerVars, nri, hook, chan, hooks>>

-----------------------------------------------------------------------------
(* The stop *)

Wait ==
    /\ stage = "wait" /\ cancelled /\ NoFault
    /\ Goto(IF flags.multus THEN "stopHealth" ELSE After(stage))
    /\ UNCHANGED <<hostVars, servingVars, controllerVars, nriVars>>

\* A hook that runs is not waited for.
StopNRI ==
    /\ stage = "stopNRI" /\ NoFault /\ Goto(After(stage))
    /\ nri' = "closed"
    /\ UNCHANGED <<hostVars, servingVars, controllerVars, hook, chan, runner, hooks>>

CloseChan ==
    /\ stage = "closeChan" /\ NoFault /\ Goto(After(stage))
    /\ chan' = -1
    /\ UNCHANGED <<hostVars, servingVars, controllerVars, nri, hook, runner, hooks>>

\* Healthcheck.Stop: GracefulStop refuses new checks and waits for the last one.
StopHealth ==
    /\ stage = "stopHealth" /\ NoFault /\ Goto(After(stage))
    /\ server' = [server EXCEPT !["health"] = "off"]
    /\ UNCHANGED <<hostVars, ready, status, check, checks, controllerVars, nriVars>>

DrainHealth ==
    /\ stage = "drainHealth" /\ check = "idle" /\ NoFault /\ Goto(After(stage))
    /\ UNCHANGED <<hostVars, servingVars, controllerVars, nriVars>>

\* helper.Stop, which may remove the socket files itself.
StopPlugin ==
    /\ stage = "stopPlugin" /\ NoFault /\ Goto(After(stage))
    /\ server' = [server EXCEPT !["dra"] = "off", !["reg"] = "off"]
    /\ files' \in {files, {}}
    /\ UNCHANGED <<flags, slice, kubelet, known, signals, ready, status, check, checks,
                   controllerVars, nriVars>>

\* os.Remove: a file that is not there is tolerated.  Mutant: it is not.
NothingTolerated == {}
Tolerated == {"notExist"}

RemoveFile(f, s) ==
    /\ stage = s
    /\ \E result \in {"removed", "notExist", "error"} :
          /\ result = "notExist" <=> f \notin files
          /\ IF result = "error" THEN Fault ELSE NoFault
          /\ files' = IF result = "removed" THEN files \ {f} ELSE files
          /\ \/ /\ result \in Tolerated \cup {"removed"} /\ s # "removeDra"
                /\ Goto(After(s)) /\ UNCHANGED <<servingVars, controllerVars, nriVars>>
             \/ /\ result \in Tolerated \cup {"removed"} /\ s = "removeDra"
                /\ Exit("clean") /\ UNCHANGED <<hooks, checks>>
             \/ /\ result \notin Tolerated \cup {"removed"}
                /\ Exit("unclean") /\ UNCHANGED <<hooks, checks>>
    /\ UNCHANGED <<flags, slice, kubelet, known, signals>>

-----------------------------------------------------------------------------
(* The goroutines *)

\* The health service calls the plugin through its own sockets.
Check ==
    /\ server["health"] = "serving" /\ check = "idle"
    /\ checks < MaxChecks /\ checks' = checks + 1
    /\ check' = "getInfo"
    /\ UNCHANGED <<hostVars, stage, exit, cancelled, ready, server, status,
                   controllerVars, nriVars, faults>>

\* Any error of a call makes the answer NOT_SERVING; the model keeps apart the
\* errors of the call itself, such as a deadline that passes while a prepare
\* holds the helper's lock.
CheckCalls(s, from, to) ==
    /\ check = from
    /\ \/ server[s] = "serving" /\ check' = to /\ NoFault
       \/ server[s] # "serving" /\ check' = "NOT_SERVING" /\ NoFault
       \/ Fault /\ check' = "DEADLINE"
    /\ UNCHANGED <<hostVars, stage, exit, cancelled, ready, server, status, checks,
                   controllerVars, nriVars>>

CheckAnswered ==
    /\ check \in {"SERVING", "NOT_SERVING", "DEADLINE"}
    /\ check' = "idle"
    /\ UNCHANGED <<hostVars, stage, exit, cancelled, ready, server, status, checks,
                   controllerVars, nriVars, faults>>

CheckStep ==
    \/ CheckCalls("reg", "getInfo", "prepare") \/ CheckCalls("dra", "prepare", "SERVING")
    \/ CheckAnswered

\* A server of the library fails; HandleError cancels the context.
HandleError ==
    /\ \E s \in {"dra", "reg"} :
          /\ server[s] = "serving"
          /\ server' = [server EXCEPT ![s] = "failed"]
    /\ Fault /\ cancelled' = TRUE
    /\ UNCHANGED <<hostVars, stage, exit, ready, status, check, checks, controllerVars,
                   nriVars>>

\* The servers of kubeletplugin.Start end with the context it was given, at any
\* time once that is done.
ServersEnd ==
    /\ cancelled /\ "serving" \in {server["dra"], server["reg"]}
    /\ server' = [s \in DOMAIN server |->
                    IF s # "health" /\ server[s] = "serving" THEN "off" ELSE server[s]]
    /\ UNCHANGED <<hostVars, stage, exit, cancelled, ready, status, check, checks,
                   controllerVars, nriVars, faults>>

\* mgr.Start: the caches are synced; it returns when the context is done, and
\* cancels it when it fails.
ControllerStep ==
    /\ \/ /\ ctrl = "starting" /\ ctrl' = "synced" /\ NoFault /\ UNCHANGED cancelled
       \/ /\ ctrl # "none" /\ cancelled /\ ctrl' = "none" /\ NoFault
          /\ UNCHANGED cancelled
       \/ /\ ctrl # "none" /\ Fault /\ ctrl' = "none" /\ cancelled' = TRUE
    /\ UNCHANGED <<hostVars, stage, exit, servingVars, matched, unpublished, nriVars>>

\* The first Reconcile finds devices to advertise and stores them before it
\* publishes; later ones find no change, also after the callback has failed.
Reconcile ==
    /\ ctrl = "synced" /\ ~matched
    /\ matched' = TRUE
    /\ \/ /\ slice' = IF "callback" \in ready THEN "current" ELSE slice
          /\ NoFault /\ UNCHANGED unpublished
       \/ /\ "callback" \in ready /\ IF cancelled THEN NoFault ELSE Fault
          /\ unpublished' = TRUE /\ UNCHANGED slice
    /\ UNCHANGED <<flags, files, kubelet, known, signals, stage, exit, cancelled,
                   servingVars, ctrl, nriVars>>

\* RunPodSandbox up to the send on the channel.
RunPodSandbox ==
    /\ nri = "connected" /\ hook = "idle" /\ hooks < MaxHooks
    /\ hooks' = hooks + 1 /\ hook' = "send"
    /\ UNCHANGED <<hostVars, stage, exit, cancelled, servingVars, controllerVars, nri,
                   chan, runner, faults>>

Room == chan >= 0 /\ chan < Capacity

SendUpdate ==
    /\ hook = "send" /\ Room
    /\ hook' = "idle" /\ chan' = chan + 1
    /\ UNCHANGED <<hostVars, stage, exit, cancelled, servingVars, controllerVars, nri,
                   runner, hooks, faults>>

\* A send on the closed channel, also one that has waited for room, panics.
SendPanics ==
    /\ hook = "send" /\ chan = -1
    /\ Exit("panic")
    /\ UNCHANGED <<hostVars, hooks, checks, faults>>

HookStep == SendUpdate \/ SendPanics

\* The runner; a receive from the closed channel changes nothing.
RunnerStep ==
    /\ \/ runner = "idle" /\ chan > 0 /\ chan' = chan - 1 /\ runner' = "busy"
       \/ runner = "busy" /\ runner' = "idle" /\ UNCHANGED chan
       \/ runner = "idle" /\ cancelled /\ runner' = "none" /\ UNCHANGED chan
    /\ UNCHANGED <<hostVars, stage, exit, cancelled, servingVars, controllerVars, nri,
                   hook, hooks, faults>>

\* The runtime closes the connection: OnClose cancels the context.
\* Mutant: it only logs.
LogOnly == UNCHANGED cancelled
OnClose == cancelled' = TRUE

NRIClosed ==
    /\ nri = "connected" /\ Fault
    /\ nri' = "closed" /\ OnClose
    /\ UNCHANGED <<hostVars, stage, exit, servingVars, controllerVars, hook, chan,
                   runner, hooks>>

-----------------------------------------------------------------------------
(* Everyone else *)

\* The signals are caught between signal.NotifyContext and stop.
Caught == \E i \in 2 .. Len(StartOrder) : stage = StartOrder[i]

Signal ==
    /\ stage # "down" /\ signals < MaxSignals /\ signals' = signals + 1
    /\ \/ /\ Caught /\ cancelled' = TRUE
          /\ UNCHANGED <<stage, exit, servingVars, controllerVars, nriVars>>
       \/ /\ ~Caught /\ Exit("killed") /\ UNCHANGED <<hooks, checks>>
    /\ UNCHANGED <<flags, files, slice, kubelet, known, faults>>

Kill ==
    /\ stage # "down" /\ Fault
    /\ Exit("killed")
    /\ UNCHANGED <<hostVars, hooks, checks>>

\* The kubelet finds a socket it does not know, and may reject it.
KubeletRegisters ==
    /\ kubelet /\ server["reg"] = "serving" /\ "reg" \in files
    /\ ~known \/ status = "none"
    /\ \/ NoFault /\ known' = TRUE /\ status' = "registered"
       \/ Fault /\ known' = FALSE /\ status' = "error"
    /\ UNCHANGED <<flags, files, slice, kubelet, signals, stage, exit, cancelled, ready,
                   server, check, checks, controllerVars, nriVars>>

KubeletDeregisters ==
    /\ kubelet /\ known /\ "reg" \notin files
    /\ known' = FALSE
    /\ UNCHANGED <<flags, files, slice, kubelet, signals, stage, exit, cancelled,
                   servingVars, controllerVars, nriVars, faults>>

KubeletStops ==
    /\ kubelet /\ Fault
    /\ kubelet' = FALSE /\ known' = FALSE
    /\ UNCHANGED <<flags, files, slice, signals, stage, exit, cancelled, servingVars,
                   controllerVars, nriVars>>

KubeletStarts ==
    /\ ~kubelet /\ kubelet' = TRUE
    /\ UNCHANGED <<flags, files, slice, known, signals, stage, exit, cancelled,
                   servingVars, controllerVars, nriVars, faults>>

-----------------------------------------------------------------------------

Init ==
    /\ flags \in [health : BOOLEAN, multus : BOOLEAN]
    /\ stage = "down" /\ exit = "none" /\ cancelled = FALSE
    /\ ready = {} /\ server = NoServers /\ files = {} /\ status = "none"
    /\ check = "idle" /\ ctrl = "none" /\ matched = FALSE
    /\ unpublished = FALSE /\ slice = "none"
    /\ nri = "none" /\ hook = "idle" /\ chan = 0 /\ runner = "none"
    /\ kubelet = TRUE /\ known = FALSE
    /\ faults = 0 /\ signals = 0 /\ hooks = 0 /\ checks = 0

MainStep ==
    \/ \E s \in {"dirs", "discover", "loadRecords", "setCallback"} : SetUp(s)
    \/ StartPlugin \/ WaitForRegistration \/ StartHealthcheck \/ PublishResources
    \/ StartController \/ WaitForCacheSync \/ StartNRI \/ StartRunner
    \/ Wait \/ StopNRI \/ CloseChan \/ StopHealth \/ DrainHealth \/ StopPlugin
    \/ RemoveFile("reg", "removeReg") \/ RemoveFile("dra", "removeDra")

Next ==
    \/ StartProcess \/ MainStep
    \/ Check \/ CheckStep \/ HandleError \/ ServersEnd
    \/ ControllerStep \/ Reconcile
    \/ RunPodSandbox \/ HookStep \/ RunnerStep \/ NRIClosed
    \/ Signal \/ Kill
    \/ KubeletRegisters \/ KubeletDeregisters \/ KubeletStops \/ KubeletStarts

Spec == Init /\ [][Next]_vars

\* Every goroutine is scheduled; a kubelet that runs starts the container and
\* looks at the sockets.
FairSpec ==
    /\ Spec
    /\ WF_vars(MainStep) /\ WF_vars(CheckStep) /\ WF_vars(ControllerStep)
    /\ WF_vars(Reconcile) /\ WF_vars(HookStep) /\ WF_vars(RunnerStep)
    /\ WF_vars(StartProcess) /\ WF_vars(KubeletRegisters)

-----------------------------------------------------------------------------
(* Properties *)

\* Whoever reaches the DRA socket is answered from the discovered devices and
\* the checkpoint: a prepare repeated right after a restart finds its record.
CallsSeeRecords == server["dra"] = "serving" => {"devices", "records"} \subseteq ready

\* The health service tells the truth: SERVING only for a plugin that the
\* kubelet accepted and that has its records; a plugin it cannot reach is on its
\* way out, since a server ends or fails only with the context.  The start makes
\* no probe fail; a stop may.
HealthIsTrue ==
    /\ check = "SERVING" => status # "none" /\ "records" \in ready
    /\ check = "NOT_SERVING" => cancelled

\* Once the context is done, by a signal, a fatal error, a failed controller or
\* a lost runtime, the process ends, wherever its start or its stop is and
\* whether or not there is a kubelet.
StopEnds == cancelled ~> stage = "down"

\* A stop in service that nothing disturbs is orderly and takes the sockets
\* away; the one thing that may go wrong is a sandbox hook that panics.
OrderlyStop ==
    stage = "wait" /\ cancelled /\ faults = MaxFaults /\ signals = MaxSignals
    ~> /\ stage = "down"
       /\ (exit = "clean" /\ files = {}) \/ (exit = "panic" /\ ~flags.multus)

InService ==
    /\ stage = "wait" /\ ~cancelled /\ known
    /\ slice = "current" \/ unpublished
    /\ server["dra"] = "serving" /\ server["reg"] = "serving"
    /\ flags.multus \/ nri = "connected"

\* Whatever ended or failed, the driver is in service again, complete: served,
\* registered, with its slice published and its hooks connected, as long as
\* there is a kubelet.  Only a callback that fails leaves the slice behind, until
\* the process ends.
EventuallyInService == <>[]kubelet => []<>InService
=============================================================================
