------------------------- MODULE DriverProcessProofs ------------------------
(***************************************************************************)
(* Theorems about DriverProcess: who reaches the driver while it starts    *)
(* and stops finds it complete, and the health service tells the truth.    *)
(* They rest on one inductive invariant that says what is set up and       *)
(* served at each stage of RunPlugin.                                      *)
(***************************************************************************)
EXTENDS DriverProcess, SequenceTheorems, TLAPS

\* The stages of RunPlugin in their order.
Order ==
    <<"dirs", "discover", "loadRecords", "startPlugin", "register", "startHealth",
      "publish", "setCallback", "startController", "syncCache", "startNRI",
      "startRunner", "wait", "stopNRI", "closeChan", "stopHealth", "drainHealth",
      "stopPlugin", "removeReg", "removeDra">>

\* The stages up to the statement that makes the difference.
BeforeDevices == {"down", "dirs", "discover"}
BeforeRecords == BeforeDevices \cup {"loadRecords"}
BeforePlugin == BeforeRecords \cup {"startPlugin"}
BeforeRegistered == BeforePlugin \cup {"register"}
BeforeHealth == BeforeRegistered \cup {"startHealth"}
AfterHealth == {"stopPlugin", "removeReg", "removeDra"}
AfterPlugin == {"removeReg", "removeDra"}

\* What the start has set up.
ReadyInv ==
    /\ stage \notin BeforeDevices => "devices" \in ready
    /\ stage \notin BeforeRecords => "records" \in ready

\* What is served, and to whom; the servers of the plugin only end with the
\* context.
ServerInv ==
    /\ stage \in BeforePlugin => server["dra"] = "off" /\ server["reg"] = "off"
    /\ stage \notin BeforePlugin \cup AfterPlugin =>
          cancelled \/ (server["dra"] = "serving" /\ server["reg"] = "serving")
    /\ stage \notin BeforeRegistered => status # "none"
    /\ server["health"] # "off" => stage \notin BeforeHealth \cup AfterHealth \cup {"drainHealth"}
    /\ check # "idle" => stage \notin BeforeHealth \cup AfterHealth

ProcessInv ==
    TypeOK /\ ReadyInv /\ ServerInv /\ HealthIsTrue

-----------------------------------------------------------------------------
(* The order of the stages *)

\* The two halves of RunPlugin are sequences of stages.
LEMMA OrderTypes ==
  /\ StartOrder \in Seq(Stages) /\ Len(StartOrder) = 13
  /\ StopOrder \in Seq(Stages) /\ Len(StopOrder) = 7
<1>1. Len(StartOrder) = 13 /\ StartOrder = [i \in 1..13 |-> StartOrder[i]]
  BY DEF StartOrder
<1>2. Len(StopOrder) = 7 /\ StopOrder = [i \in 1..7 |-> StopOrder[i]]
  BY DEF StopOrder
<1>3. StartOrder \in [1..13 -> Stages] /\ StopOrder \in [1..7 -> Stages]
  BY <1>1, <1>2 DEF Stages
<1>4. \A n \in Nat : \A f \in [1..n -> Stages] : f \in Seq(Stages)
  OBVIOUS
<1> QED
  BY <1>1, <1>2, <1>3, <1>4

\* Put together they are Order.
LEMMA Whole ==
  /\ DOMAIN (StartOrder \o StopOrder) = 1..20
  /\ \A i \in 1..20 : (StartOrder \o StopOrder)[i] = Order[i]
<1> DEFINE whole == StartOrder \o StopOrder
<1>1. /\ whole \in Seq(Stages) /\ Len(whole) = Len(StartOrder) + Len(StopOrder)
      /\ \A i \in 1..Len(StartOrder) + Len(StopOrder) : whole[i] =
             IF i <= Len(StartOrder) THEN StartOrder[i] ELSE StopOrder[i - Len(StartOrder)]
  BY OrderTypes, ConcatProperties, Zenon
<1> HIDE DEF whole
<1>2. /\ DOMAIN whole = 1..20
      /\ \A i \in 1..20 : whole[i] = IF i <= 13 THEN StartOrder[i] ELSE StopOrder[i - 13]
  BY <1>1, OrderTypes
<1>3. \A i \in 1..13 : StartOrder[i] = Order[i]
  BY DEF StartOrder, Order
<1>4. \A i \in 14..20 : StopOrder[i - 13] = Order[i]
  BY DEF StopOrder, Order
<1>5. \A i \in 1..20 : whole[i] = Order[i]
  BY <1>2, <1>3, <1>4
<1> QED
  BY <1>2, <1>5, Zenon DEF whole

\* After is the next stage of Order.
LEMMA AfterInOrder ==
  ASSUME NEW k \in 1..19 PROVE After(Order[k]) = Order[k + 1]
<1> DEFINE whole == StartOrder \o StopOrder
<1>1. After(Order[k]) = whole[(CHOOSE i \in DOMAIN whole : whole[i] = Order[k]) + 1]
  BY Zenon DEF After
<1>2. DOMAIN whole = 1..20 /\ \A i \in 1..20 : whole[i] = Order[i]
  BY Whole, Zenon
<1> HIDE DEF whole
<1>3. \A i \in 1..20, j \in 1..20 : Order[i] = Order[j] => i = j
  BY DEF Order
<1>4. (CHOOSE i \in DOMAIN whole : whole[i] = Order[k]) = k
  BY <1>2, <1>3
<1>5. After(Order[k]) = whole[k + 1]
  BY <1>1, <1>4, Zenon
<1>6. k + 1 \in 1..20
  OBVIOUS
<1> QED
  BY <1>2, <1>5, <1>6, Zenon

\* The successor of each stage.
LEMMA AfterIs ==
  /\ After("dirs") = "discover"
  /\ After("discover") = "loadRecords"
  /\ After("loadRecords") = "startPlugin"
  /\ After("startPlugin") = "register"
  /\ After("register") = "startHealth"
  /\ After("startHealth") = "publish"
  /\ After("publish") = "setCallback"
  /\ After("setCallback") = "startController"
  /\ After("startController") = "syncCache"
  /\ After("syncCache") = "startNRI"
  /\ After("startNRI") = "startRunner"
  /\ After("startRunner") = "wait"
  /\ After("wait") = "stopNRI"
  /\ After("stopNRI") = "closeChan"
  /\ After("closeChan") = "stopHealth"
  /\ After("stopHealth") = "drainHealth"
  /\ After("drainHealth") = "stopPlugin"
  /\ After("stopPlugin") = "removeReg"
  /\ After("removeReg") = "removeDra"
<1>1. \A k \in 1..19 : After(Order[k]) = Order[k + 1]
  BY AfterInOrder
<1>2. After(Order[1]) = Order[2]
  BY <1>1
<1>3. After(Order[2]) = Order[3]
  BY <1>1
<1>4. After(Order[3]) = Order[4]
  BY <1>1
<1>5. After(Order[4]) = Order[5]
  BY <1>1
<1>6. After(Order[5]) = Order[6]
  BY <1>1
<1>7. After(Order[6]) = Order[7]
  BY <1>1
<1>8. After(Order[7]) = Order[8]
  BY <1>1
<1>9. After(Order[8]) = Order[9]
  BY <1>1
<1>10. After(Order[9]) = Order[10]
  BY <1>1
<1>11. After(Order[10]) = Order[11]
  BY <1>1
<1>12. After(Order[11]) = Order[12]
  BY <1>1
<1>13. After(Order[12]) = Order[13]
  BY <1>1
<1>14. After(Order[13]) = Order[14]
  BY <1>1
<1>15. After(Order[14]) = Order[15]
  BY <1>1
<1>16. After(Order[15]) = Order[16]
  BY <1>1
<1>17. After(Order[16]) = Order[17]
  BY <1>1
<1>18. After(Order[17]) = Order[18]
  BY <1>1
<1>19. After(Order[18]) = Order[19]
  BY <1>1
<1>20. After(Order[19]) = Order[20]
  BY <1>1
<1> QED
  BY <1>2, <1>3, <1>4, <1>5, <1>6, <1>7, <1>8, <1>9, <1>10, <1>11, <1>12, <1>13,
     <1>14, <1>15, <1>16, <1>17, <1>18, <1>19, <1>20 DEF Order

\* The stages by name.
LEMMA StagesAre ==
  Stages = {"dirs", "discover", "loadRecords", "startPlugin", "register", "startHealth",
            "publish", "setCallback", "startController", "syncCache", "startNRI",
            "startRunner", "wait", "stopNRI", "closeChan", "stopHealth", "drainHealth",
            "stopPlugin", "removeReg", "removeDra"}
BY DEF Stages, StartOrder, StopOrder

-----------------------------------------------------------------------------
(* The end of the process *)

\* Nothing of a process is left when it has ended; the host's own state is as
\* typed before.
LEMMA ExitKeeps ==
  ASSUME NEW how \in {"clean", "unclean", "error", "killed", "panic"}, Exit(how),
         flags' \in [health : BOOLEAN, multus : BOOLEAN], files' \subseteq {"dra", "reg"},
         slice' \in {"none", "empty", "current"}, kubelet' \in BOOLEAN, known' \in BOOLEAN
  PROVE  ProcessInv'
<1> USE DEF Exit, NoServers
<1>1. TypeOK'
  <2>1. server' \in [{"dra", "reg", "health"} -> {"off", "serving", "failed"}]
    OBVIOUS
  <2>2. chan' \in -1 .. Capacity
    BY ProcessAssumption
  <2> QED
    BY <2>1, <2>2 DEF TypeOK
<1>2. ReadyInv' /\ HealthIsTrue'
  BY DEF ReadyInv, HealthIsTrue, BeforeDevices,
     BeforeRecords, BeforeHealth, BeforeRegistered, BeforePlugin
<1>3. ServerInv'
  BY DEF ServerInv, BeforePlugin, BeforeRecords, BeforeDevices, BeforeRegistered
<1> QED
  BY <1>1, <1>2, <1>3 DEF ProcessInv

\* An error return of RunPlugin ends the process with all it serves.
LEMMA ReturnErrorKeeps ==
  ASSUME ProcessInv, ReturnError PROVE ProcessInv'
BY ExitKeeps DEF ReturnError, hostVars, ProcessInv, TypeOK

-----------------------------------------------------------------------------
(* The main goroutine: each stage establishes what the stages after it rely on *)

\* Each statement of RunPlugin, in the order of the start and of the stop.
LEMMA MainStepKeeps ==
  ASSUME ProcessInv, MainStep PROVE ProcessInv'
<1>1. SUFFICES ASSUME ~ReturnError PROVE ProcessInv'
  BY ReturnErrorKeeps
<1> USE AfterIs, StagesAre
<1> USE DEF hostVars, servingVars, controllerVars, nriVars, Goto
<1>2. ASSUME NEW f, NEW s \in {"removeReg", "removeDra"}, RemoveFile(f, s)
      PROVE  ProcessInv'
  <2>1. /\ flags' = flags /\ slice' = slice /\ kubelet' = kubelet /\ known' = known
        /\ files' \subseteq files /\ stage = s
    BY <1>2 DEF RemoveFile
  <2>2. CASE Exit("clean") \/ Exit("unclean")
    BY <2>1, <2>2, ExitKeeps DEF ProcessInv, TypeOK
  <2>3. CASE /\ s = "removeReg" /\ Goto("removeDra")
             /\ UNCHANGED <<servingVars, controllerVars, nriVars>>
    <3>1. TypeOK'
      BY <2>1, <2>3 DEF ProcessInv, TypeOK
    <3>2. ReadyInv' /\ ServerInv' /\ HealthIsTrue'
      BY <1>2, <2>1, <2>3 DEF ProcessInv, ReadyInv, ServerInv,
         HealthIsTrue, BeforeDevices, BeforeRecords, BeforePlugin,
         BeforeRegistered, BeforeHealth, AfterHealth,
         AfterPlugin
    <3> QED
      BY <3>1, <3>2 DEF ProcessInv
  <2> QED
    BY <1>2, <2>2, <2>3 DEF RemoveFile
<1>3. SUFFICES ASSUME \A f \in {"reg", "dra"}, s \in {"removeReg", "removeDra"} : ~RemoveFile(f, s)
               PROVE  ProcessInv'
  BY <1>2
<1>4. TypeOK'
  <2> USE DEF ProcessInv, TypeOK
  <2>1. ASSUME NEW s \in {"dirs", "discover", "loadRecords", "setCallback"}, SetUp(s)
        PROVE  (TypeOK')
    BY <1>1, <2>1 DEF SetUp, Sets
  <2>2. CASE StartPlugin
    <3>1. server' \in [{"dra", "reg", "health"} -> {"off", "serving", "failed"}]
      BY <1>1, <2>2 DEF StartPlugin
    <3> QED
      BY <1>1, <2>2, <3>1 DEF StartPlugin
  <2>3. CASE WaitForRegistration
    BY <1>1, <2>3 DEF WaitForRegistration
  <2>4. CASE StartHealthcheck
    <3>1. server' \in [{"dra", "reg", "health"} -> {"off", "serving", "failed"}]
      BY <1>1, <2>4 DEF StartHealthcheck
    <3> QED
      BY <1>1, <2>4, <3>1 DEF StartHealthcheck
  <2>5. CASE PublishResources
    BY <1>1, <2>5 DEF PublishResources
  <2>6. CASE StartController
    BY <1>1, <2>6 DEF StartController
  <2>7. CASE WaitForCacheSync
    BY <1>1, <2>7 DEF WaitForCacheSync
  <2>8. CASE StartNRI
    BY <1>1, <2>8 DEF StartNRI
  <2>9. CASE StartRunner
    BY <1>1, <2>9 DEF StartRunner
  <2>10. CASE Wait
    BY <1>1, <2>10 DEF Wait
  <2>11. CASE StopNRI
    BY <1>1, <2>11 DEF StopNRI
  <2>12. CASE CloseChan
    BY <1>1, <2>12, ProcessAssumption DEF CloseChan
  <2>13. CASE StopHealth
    BY <1>1, <2>13 DEF StopHealth
  <2>14. CASE DrainHealth
    BY <1>1, <2>14 DEF DrainHealth
  <2>15. CASE StopPlugin
    BY <1>1, <2>15 DEF StopPlugin
  <2> QED
    BY <1>3, <2>1, <2>2, <2>3, <2>4, <2>5, <2>6, <2>7, <2>8, <2>9,
       <2>10, <2>11, <2>12, <2>13, <2>14, <2>15
       DEF MainStep
<1>5. ReadyInv'
  <2> USE DEF ProcessInv, TypeOK, ReadyInv, BeforeDevices, BeforeRecords,
          BeforePlugin, BeforeRegistered, BeforeHealth
  <2>1. ASSUME NEW s \in {"dirs", "discover", "loadRecords", "setCallback"}, SetUp(s)
        PROVE  (ReadyInv')
    BY <1>1, <2>1 DEF SetUp, Sets
  <2>2. CASE StartPlugin
    BY <1>1, <2>2 DEF StartPlugin
  <2>3. CASE WaitForRegistration
    BY <1>1, <2>3 DEF WaitForRegistration
  <2>4. CASE StartHealthcheck
    BY <1>1, <2>4 DEF StartHealthcheck
  <2>5. CASE PublishResources
    BY <1>1, <2>5 DEF PublishResources
  <2>6. CASE StartController
    BY <1>1, <2>6 DEF StartController
  <2>7. CASE WaitForCacheSync
    BY <1>1, <2>7 DEF WaitForCacheSync
  <2>8. CASE StartNRI
    BY <1>1, <2>8 DEF StartNRI
  <2>9. CASE StartRunner
    BY <1>1, <2>9 DEF StartRunner
  <2>10. CASE Wait
    BY <1>1, <2>10 DEF Wait
  <2>11. CASE StopNRI
    BY <1>1, <2>11 DEF StopNRI
  <2>12. CASE CloseChan
    BY <1>1, <2>12, ProcessAssumption DEF CloseChan
  <2>13. CASE StopHealth
    BY <1>1, <2>13 DEF StopHealth
  <2>14. CASE DrainHealth
    BY <1>1, <2>14 DEF DrainHealth
  <2>15. CASE StopPlugin
    BY <1>1, <2>15 DEF StopPlugin
  <2> QED
    BY <1>3, <2>1, <2>2, <2>3, <2>4, <2>5, <2>6, <2>7, <2>8, <2>9,
       <2>10, <2>11, <2>12, <2>13, <2>14, <2>15
       DEF MainStep
<1>6. ServerInv'
  <2> USE DEF ProcessInv, TypeOK, ServerInv, BeforeDevices, BeforeRecords, BeforePlugin,
          BeforeRegistered, BeforeHealth, AfterHealth, AfterPlugin
  <2>1. ASSUME NEW s \in {"dirs", "discover", "loadRecords", "setCallback"}, SetUp(s)
        PROVE  (ServerInv')
    BY <1>1, <2>1 DEF SetUp, Sets
  <2>2. CASE StartPlugin
    BY <1>1, <2>2 DEF StartPlugin
  <2>3. CASE WaitForRegistration
    BY <1>1, <2>3 DEF WaitForRegistration
  <2>4. CASE StartHealthcheck
    BY <1>1, <2>4 DEF StartHealthcheck
  <2>5. CASE PublishResources
    BY <1>1, <2>5 DEF PublishResources
  <2>6. CASE StartController
    BY <1>1, <2>6 DEF StartController
  <2>7. CASE WaitForCacheSync
    BY <1>1, <2>7 DEF WaitForCacheSync
  <2>8. CASE StartNRI
    BY <1>1, <2>8 DEF StartNRI
  <2>9. CASE StartRunner
    BY <1>1, <2>9 DEF StartRunner
  <2>10. CASE Wait
    BY <1>1, <2>10 DEF Wait
  <2>11. CASE StopNRI
    BY <1>1, <2>11 DEF StopNRI
  <2>12. CASE CloseChan
    BY <1>1, <2>12, ProcessAssumption DEF CloseChan
  <2>13. CASE StopHealth
    BY <1>1, <2>13 DEF StopHealth
  <2>14. CASE DrainHealth
    BY <1>1, <2>14 DEF DrainHealth
  <2>15. CASE StopPlugin
    BY <1>1, <2>15 DEF StopPlugin
  <2> QED
    BY <1>3, <2>1, <2>2, <2>3, <2>4, <2>5, <2>6, <2>7, <2>8, <2>9,
       <2>10, <2>11, <2>12, <2>13, <2>14, <2>15
       DEF MainStep
<1>7. HealthIsTrue'
  <2> USE DEF ProcessInv, TypeOK, ServerInv, HealthIsTrue,
          BeforeDevices, BeforeRecords, BeforePlugin, BeforeRegistered, BeforeHealth,
          AfterHealth
  <2>1. ASSUME NEW s \in {"dirs", "discover", "loadRecords", "setCallback"}, SetUp(s)
        PROVE  (HealthIsTrue')
    BY <1>1, <2>1 DEF SetUp, Sets
  <2>2. CASE StartPlugin
    BY <1>1, <2>2 DEF StartPlugin
  <2>3. CASE WaitForRegistration
    BY <1>1, <2>3 DEF WaitForRegistration
  <2>4. CASE StartHealthcheck
    BY <1>1, <2>4 DEF StartHealthcheck
  <2>5. CASE PublishResources
    BY <1>1, <2>5 DEF PublishResources
  <2>6. CASE StartController
    BY <1>1, <2>6 DEF StartController
  <2>7. CASE WaitForCacheSync
    BY <1>1, <2>7 DEF WaitForCacheSync
  <2>8. CASE StartNRI
    BY <1>1, <2>8 DEF StartNRI
  <2>9. CASE StartRunner
    BY <1>1, <2>9 DEF StartRunner
  <2>10. CASE Wait
    BY <1>1, <2>10 DEF Wait
  <2>11. CASE StopNRI
    BY <1>1, <2>11 DEF StopNRI
  <2>12. CASE CloseChan
    BY <1>1, <2>12, ProcessAssumption DEF CloseChan
  <2>13. CASE StopHealth
    BY <1>1, <2>13 DEF StopHealth
  <2>14. CASE DrainHealth
    BY <1>1, <2>14 DEF DrainHealth
  <2>15. CASE StopPlugin
    BY <1>1, <2>15 DEF StopPlugin
  <2> QED
    BY <1>3, <2>1, <2>2, <2>3, <2>4, <2>5, <2>6, <2>7, <2>8, <2>9,
       <2>10, <2>11, <2>12, <2>13, <2>14, <2>15
       DEF MainStep
<1> QED
  BY <1>4, <1>5, <1>6, <1>7 DEF ProcessInv

-----------------------------------------------------------------------------
(* The other goroutines, the kubelet and the end *)

\* Steps that leave the stage and what is served alone, the controller included.
LEMMA QuietStepKeeps ==
  ASSUME ProcessInv, TypeOK',
         UNCHANGED <<stage, ready, server, check>>, cancelled => cancelled',
         status = "none" \/ status' # "none"
  PROVE  ProcessInv'
BY DEF ProcessInv, ReadyInv, ServerInv, HealthIsTrue

\* The kubelet, the hooks and the runner change nothing that others rely on.
LEMMA QuietSteps ==
  ASSUME ProcessInv,
         \/ RunPodSandbox \/ SendUpdate \/ RunnerStep \/ NRIClosed
         \/ KubeletRegisters \/ KubeletDeregisters \/ KubeletStops \/ KubeletStarts
  PROVE  ProcessInv'
<1> USE DEF hostVars, servingVars, controllerVars
<1>1. TypeOK'
  <2> USE ProcessAssumption DEF ProcessInv, TypeOK
  <2>1. CASE RunPodSandbox BY <2>1 DEF RunPodSandbox
  <2>2. CASE SendUpdate BY <2>2 DEF SendUpdate, Room
  <2>3. CASE RunnerStep BY <2>3 DEF RunnerStep
  <2>4. CASE NRIClosed BY <2>4 DEF NRIClosed, OnClose
  <2>5. CASE KubeletRegisters
    <3>1. known' \in BOOLEAN
      BY <2>5 DEF KubeletRegisters
    <3> QED
      BY <2>5, <3>1 DEF KubeletRegisters, nriVars
  <2>6. CASE KubeletDeregisters
    <3>1. known' \in BOOLEAN
      BY <2>6 DEF KubeletDeregisters
    <3> QED
      BY <2>6, <3>1 DEF KubeletDeregisters, nriVars
  <2>7. CASE KubeletStops
    <3>1. known' \in BOOLEAN /\ kubelet' \in BOOLEAN
      BY <2>7 DEF KubeletStops
    <3> QED
      BY <2>7, <3>1 DEF KubeletStops, nriVars
  <2>8. CASE KubeletStarts BY <2>8 DEF KubeletStarts, nriVars
  <2> QED
    BY <2>1, <2>2, <2>3, <2>4, <2>5, <2>6, <2>7, <2>8
<1>2. /\ UNCHANGED <<stage, ready, server, check>> /\ (cancelled => cancelled')
      /\ status' # "none" \/ status' = status
  BY DEF OnClose, RunPodSandbox, SendUpdate, RunnerStep, NRIClosed, KubeletRegisters,
     KubeletDeregisters, KubeletStops, KubeletStarts
<1> QED
  BY <1>1, <1>2, QuietStepKeeps

\* A health check calls the servers of the plugin one after the other; they are
\* not stopped before the last check is answered.
LEMMA CheckKeeps ==
  ASSUME ProcessInv, Check \/ CheckStep PROVE ProcessInv'
<1> USE DEF hostVars, controllerVars, nriVars, Check, CheckStep, CheckCalls, CheckAnswered
<1>1. TypeOK'
  <2>1. check' \in {"idle", "getInfo", "prepare", "SERVING", "NOT_SERVING", "DEADLINE"}
    OBVIOUS
  <2>2. UNCHANGED <<hostVars, stage, exit, cancelled, ready, server, status,
                    controllerVars, nriVars>>
    OBVIOUS
  <2> QED
    BY <2>1, <2>2 DEF ProcessInv, TypeOK
<1>2. ReadyInv'
  BY DEF ProcessInv, ReadyInv
<1>3. ServerInv'
  BY DEF ProcessInv, ServerInv, AfterHealth
<1>4. HealthIsTrue'
  BY DEF ProcessInv, TypeOK, ReadyInv, ServerInv, HealthIsTrue, BeforeHealth,
     BeforeRegistered, BeforePlugin, BeforeRecords, BeforeDevices, AfterHealth, AfterPlugin
<1> QED
  BY <1>1, <1>2, <1>3, <1>4 DEF ProcessInv

\* A plugin server that fails cancels the context.
LEMMA HandleErrorKeeps ==
  ASSUME ProcessInv, HandleError PROVE ProcessInv'
<1> USE DEF hostVars, controllerVars, nriVars, HandleError
<1>1. TypeOK'
  BY DEF ProcessInv, TypeOK
<1>2. ReadyInv'
  BY DEF ProcessInv, ReadyInv
<1>3. /\ cancelled' /\ server'["health"] = server["health"]
      /\ server["dra"] = "off" => server'["dra"] = "off"
      /\ server["reg"] = "off" => server'["reg"] = "off"
      /\ UNCHANGED <<stage, ready, status, check>>
  BY DEF ProcessInv, TypeOK
<1>4. ServerInv' /\ HealthIsTrue'
  BY <1>3 DEF ProcessInv, ServerInv, HealthIsTrue
<1> QED
  BY <1>1, <1>2, <1>4 DEF ProcessInv

\* The plugin servers end with the context they were given.
LEMMA ServersEndKeeps ==
  ASSUME ProcessInv, ServersEnd PROVE ProcessInv'
<1> USE DEF hostVars, controllerVars, nriVars, ServersEnd
<1>1. TypeOK'
  BY DEF ProcessInv, TypeOK
<1>2. ReadyInv'
  BY DEF ProcessInv, ReadyInv
<1>3. /\ cancelled' /\ server'["health"] = server["health"]
      /\ server["dra"] = "off" => server'["dra"] = "off"
      /\ server["reg"] = "off" => server'["reg"] = "off"
      /\ UNCHANGED <<stage, ready, status, check>>
  BY DEF ProcessInv, TypeOK
<1>4. ServerInv' /\ HealthIsTrue'
  BY <1>3 DEF ProcessInv, ServerInv, HealthIsTrue
<1> QED
  BY <1>1, <1>2, <1>4 DEF ProcessInv

\* The controller and its reconciles, whether or not they can publish.
LEMMA ControllerKeeps ==
  ASSUME ProcessInv, ControllerStep \/ Reconcile PROVE ProcessInv'
<1> USE DEF hostVars, servingVars, nriVars, ControllerStep, Reconcile
<1>1. TypeOK'
  <2>1. cancelled' \in BOOLEAN /\ matched' \in BOOLEAN /\ unpublished' \in BOOLEAN
    BY DEF ProcessInv, TypeOK, controllerVars
  <2>2. /\ ctrl' \in {"none", "starting", "synced"} /\ slice' \in {"none", "empty", "current"}
        /\ UNCHANGED <<flags, files, kubelet, known, stage, exit, servingVars, nriVars>>
    BY DEF ProcessInv, TypeOK
  <2> HIDE DEF ControllerStep, Reconcile
  <2> QED
    BY <2>1, <2>2 DEF ProcessInv, TypeOK
<1>2. UNCHANGED <<stage, ready, server, status, check>> /\ (cancelled => cancelled')
  OBVIOUS
<1> QED
  BY <1>1, <1>2, QuietStepKeeps

\* A signal that is caught only cancels the context; any other end is an Exit.
LEMMA EndKeeps ==
  ASSUME ProcessInv, SendPanics \/ Signal \/ Kill PROVE ProcessInv'
<1>1. CASE Signal /\ Caught
  <2>1. cancelled' \in BOOLEAN
    BY <1>1, ExitKeeps DEF Signal, Exit
  <2>2. CASE Exit("killed")
    BY <1>1, <2>2, ExitKeeps DEF Signal, ProcessInv, TypeOK
  <2>3. CASE ~Exit("killed")
    <3>1. /\ UNCHANGED <<flags, files, slice, kubelet, known, stage, exit, servingVars,
                         controllerVars, nriVars>>
          /\ cancelled'
      BY <1>1, <2>3 DEF Signal
    <3>2. TypeOK'
      BY <2>1, <3>1 DEF ProcessInv, TypeOK, servingVars, controllerVars, nriVars
    <3> QED
      BY <3>1, <3>2, QuietStepKeeps DEF servingVars, controllerVars
  <2> QED
    BY <2>2, <2>3
<1>2. CASE ~(Signal /\ Caught)
  BY <1>2, ExitKeeps DEF SendPanics, Signal, Kill, hostVars, ProcessInv, TypeOK
<1> QED
  BY <1>1, <1>2

\* A new process starts with nothing set up.
LEMMA StartKeeps ==
  ASSUME ProcessInv, StartProcess PROVE ProcessInv'
<1> USE DEF hostVars, servingVars, controllerVars, nriVars, StartProcess
<1>1. stage' = "dirs"
  BY DEF StartOrder
<1>2. TypeOK'
  BY <1>1, StagesAre DEF ProcessInv, TypeOK
<1>3. ReadyInv' /\ HealthIsTrue'
  BY <1>1 DEF ProcessInv, ReadyInv, HealthIsTrue,
     BeforeHealth, BeforeRegistered, BeforePlugin,
     BeforeRecords, BeforeDevices
<1>4. ServerInv'
  BY <1>1 DEF ProcessInv, ServerInv, BeforeHealth, BeforeRegistered, BeforePlugin,
     BeforeRecords, BeforeDevices
<1> QED
  BY <1>2, <1>3, <1>4 DEF ProcessInv

-----------------------------------------------------------------------------

\* The invariant holds before the first start.
LEMMA ProcessInvInit ==
  ASSUME Init PROVE ProcessInv
<1> USE DEF Init, NoServers
<1>1. TypeOK
  <2>1. /\ server \in [{"dra", "reg", "health"} -> {"off", "serving", "failed"}]
        /\ cancelled \in BOOLEAN /\ matched \in BOOLEAN /\ kubelet \in BOOLEAN
        /\ unpublished \in BOOLEAN /\ known \in BOOLEAN
    OBVIOUS
  <2>2. chan \in -1 .. Capacity
    BY ProcessAssumption
  <2> QED
    BY <2>1, <2>2 DEF TypeOK
<1>2. ReadyInv /\ HealthIsTrue
  BY DEF ReadyInv, HealthIsTrue, BeforeDevices,
     BeforeRecords, BeforeHealth, BeforeRegistered, BeforePlugin
<1>3. ServerInv
  BY DEF ServerInv, BeforePlugin, BeforeRecords, BeforeDevices, BeforeRegistered
<1> QED
  BY <1>1, <1>2, <1>3 DEF ProcessInv

\* Every step keeps the invariant.
LEMMA ProcessInvNext ==
  ASSUME ProcessInv, [Next]_vars PROVE ProcessInv'
<1>1. CASE UNCHANGED vars
  <2>1. TypeOK'
    BY <1>1 DEF ProcessInv, TypeOK, vars, hostVars, servingVars, controllerVars, nriVars
  <2> QED
    BY <1>1, <2>1, QuietStepKeeps
    DEF ProcessInv, vars, hostVars, servingVars, controllerVars
<1> QED
  BY <1>1, StartKeeps, MainStepKeeps, CheckKeeps, HandleErrorKeeps, ServersEndKeeps,
     ControllerKeeps, QuietSteps, EndKeeps DEF Next, HookStep

\* At every stage of the start, the service and the stop of the process, what is
\* set up, served and registered is what RunPlugin relies on.
THEOREM ProcessInvariant == Spec => []ProcessInv
<1>1. Init => ProcessInv
  BY ProcessInvInit
<1>2. ProcessInv /\ [Next]_vars => ProcessInv'
  BY ProcessInvNext
<1> QED
  BY <1>1, <1>2, PTL DEF Spec

\* The servers of kubeletplugin.Start answer from the discovered devices and the
\* loaded checkpoint only.
THEOREM CallsAlwaysSeeRecords == Spec => []CallsSeeRecords
<1>1. ProcessInv => CallsSeeRecords
  BY DEF ProcessInv, ReadyInv, ServerInv, CallsSeeRecords, BeforePlugin, BeforeRecords
<1> QED
  BY <1>1, ProcessInvariant, PTL

\* The health service says SERVING only of a plugin that the kubelet accepted, and
\* finds one that it cannot reach only when the context is done, through start,
\* stop, failed servers and crashes.
THEOREM HealthAlwaysTrue == Spec => []HealthIsTrue
<1>1. ProcessInv => HealthIsTrue
  BY DEF ProcessInv
<1> QED
  BY <1>1, ProcessInvariant, PTL
=============================================================================
