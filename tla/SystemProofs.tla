---------------------------- MODULE SystemProofs ----------------------------
(***************************************************************************)
(* The two controllers together, in a process that is stopped and started. *)
(* What was proved of the machine controller alone still holds with the    *)
(* nodeupdate controller at work on the same Nodes, and that controller,   *)
(* which decides from a cached Node and an old look at the infra cluster,  *)
(* never takes a Node from under a VirtualMachine.                         *)
(*                                                                         *)
(* All of it under one hypothesis, OneNamespace: the ConfigMap may be      *)
(* edited, taken away and broken, but it is not made to name another       *)
(* namespace of the infra cluster.  Without it the theorems are false: see *)
(* the runs config_moved and namespace_moved.                              *)
(*                                                                         *)
(* A step of the system is one of four kinds.  A step of the machine side  *)
(* is a step of Next, and the lemmas of the other modules apply to it; it  *)
(* leaves the nodeupdate controller alone or stops the process.  A process *)
(* without an actuator panics, or the process is started.  A step of the   *)
(* nodeupdate controller writes nothing but one Node.  An administrator    *)
(* writes the ConfigMap.                                                   *)
(***************************************************************************)
EXTENDS CopiesProofs, SystemProperties

\* Where a ConfigMap says the VirtualMachines are, if it does.
OneNamespace == \A c \in ConfigMaps : c.namespace \in {NoKey, InfraNamespace}

\* So the actuator is in no other namespace, and nothing is.
Home ==
  /\ configMap \in ConfigMaps
  /\ serving \in {InfraNamespace, NilActuator, NoProcess}
  /\ otherSecrets = {}
  /\ otherVMs = [n \in Names |-> Absent]
  /\ otherVMIs = [n \in Names |-> "none"]

SystemTypeInv == TypeOK /\ NodeUpdateTypeOK /\ Home

\* What the steps that are not the machine side's leave alone.
AsideVars == <<machines, uids, userData, infraVars, workerVars>>

\* What the nodeupdate controller may do to the Nodes (nodeupdate_controller.go:79-106).
NodeWrites ==
  \/ UNCHANGED nodes
  \/ nodePc = "deleteNode" /\ nodes' = [nodes EXCEPT ![nodeName] = Absent]
  \/ /\ nodePc = "updateNode" /\ nodes[nodeName] = node
     /\ nodes' = [nodes EXCEPT ![nodeName] =
                    [node EXCEPT !.providerID = FormatProviderID(namespace, nodeName)]]

NodeSide ==
  /\ UNCHANGED <<AsideVars, upsets>>
  /\ UNCHANGED faults \/ Fault
  /\ NodeWrites
  /\ UNCHANGED processVars

\* The step of an administrator.
ConfigSide ==
  /\ UNCHANGED <<AsideVars, nodes, faults, serving, otherVars, nodeWorkerVars>>
  /\ upsets < MaxUpsets /\ upsets' = upsets + 1
  /\ configMap' \in ConfigMaps

\* The machine side takes a step of Next, or none.
MachineSide ==
  /\ [Next]_vars
  /\ \/ UNCHANGED <<serving, nodeWorkerVars>> /\ (Runs \/ UNCHANGED workerVars)
     \/ Stops /\ pc' = "idle"
  /\ UNCHANGED <<configMap, otherVars>>

\* The process panics for want of an actuator, or is started.
StartSide ==
  /\ Restart /\ UNCHANGED clusterVars
  /\ pc # "createVM"
  /\ UNCHANGED faults \/ Fault
  /\ NodeDone
  /\ nodeCache' \in {nodes, [n \in Names |-> Absent]} /\ nodeQueue' \subseteq Names
  /\ serving' \in {Started(configMap), NilActuator, NoProcess}
  /\ UNCHANGED <<configMap, otherVars>>

-----------------------------------------------------------------------------
(* The steps there are. *)

\* A call that panics ends the Reconcile.
LEMMA PanicEnds ==
  ASSUME TypeOK, Call, Panics, ~NilPanics, faults' = faults
  PROVE  pc' = "idle"
<1>1. ~Fault
  BY WorkerAssumption DEF Fault, TypeOK, WorkerTypeOK
<1>2. Panic \/ Restart => pc' = "idle"
  BY DEF Panic, Restart, Done
<1>3. /\ pc = "createVM" => createVM
      /\ pc = "getForDelete" => getForDelete
      /\ pc = "getForUpdate" => getForUpdate
      /\ pc = "getUserData" => getUserData
  BY DEF Call, addFinalizer, setDeleting, drain, getForDelete, deleteVM,
     existsAfterDelete, deleteNode, removeFinalizer, exists, setProvisioning,
     getUserData, createSecret, createVM, getForUpdate, updateVM, getVMI, patchMachine,
     patchStatus, setRunning, failAnnotation, failStatus, reportError
<1>4. CASE pc = "getUserData"
  <2>1. getUserData
    BY <1>3, <1>4
  <2> QED  BY <1>1, <1>2, <1>4, <2>1 DEF getUserData, Panics, Read, Unsent
<1>5. CASE /\ pc \in {"createVM", "getForDelete", "getForUpdate"}
           /\ CreateMachineScope(m.config) /\ BuildOutcome(m.config) = "panic"
  BY <1>2, <1>3, <1>5 DEF createVM, getForDelete, getForUpdate
<1> QED  BY <1>4, <1>5 DEF Panics

\* Nothing happens in a namespace in which there is nothing.
LEMMA NothingElsewhere ==
  ASSUME Home, NEW n \in Names
  PROVE  ~Elsewhere!InfraNext(n)
<1>1. otherVMs[n] = Absent /\ otherVMIs[n] = "none"
  BY DEF Home
<1> QED
  BY <1>1
  DEF Elsewhere!InfraNext, Elsewhere!KubeVirt, Elsewhere!StartVMI, Elsewhere!SyncVMStatus,
      Elsewhere!StopVMI, Elsewhere!FinishVM, Elsewhere!FailVMI, Elsewhere!DropVM,
      Elsewhere!DeleteVirtualMachineAccepted, Elsewhere!BootGuest, Elsewhere!KubeletWrites

\* A call of the machine controller is one of Next, or the panic of a process without an
\* actuator.
LEMMA ServingSteps ==
  ASSUME SystemTypeInv, ServingCall, UNCHANGED configMap,
         IF Panics /\ faults' = faults THEN Stops ELSE UNCHANGED <<serving, nodeWorkerVars>>
  PROVE  MachineSide \/ StartSide
<1>1. UNCHANGED otherVars /\ ((Call /\ ~NilPanics) \/ (Panic /\ NilPanics))
  BY ProcessAssumption, InfraAssumption DEF ServingCall, SystemTypeInv, Home, NilPanics
<1>2. CASE Call /\ ~NilPanics
  <2>1. Panics /\ faults' = faults => pc' = "idle"
    BY <1>2, PanicEnds DEF SystemTypeInv
  <2>2. Runs
    BY ProcessAssumption, InfraAssumption DEF ServingCall, Runs, NilPanics, NilActuator, NoProcess
  <2> QED  BY <1>1, <1>2, <2>1, <2>2 DEF MachineSide, Next, ControllerNext
<1>3. CASE Panic /\ NilPanics
  <2>1. faults' = faults /\ Restart /\ UNCHANGED clusterVars
    BY <1>3 DEF Panic
  <2>2. Stops
    BY <1>3, <2>1 DEF Panics
  <2> QED  BY <1>1, <1>3, <2>1, <2>2 DEF StartSide, Stops, NilPanics
<1> QED  BY <1>1, <1>2, <1>3

\* These are the steps there are.
LEMMA SystemSteps ==
  ASSUME SystemTypeInv, [SystemNext]_systemVars
  PROVE  MachineSide \/ StartSide \/ (NodeUpdateNext /\ NodeSide) \/ ConfigSide
<1>1. CASE MachineSideNext /\ UNCHANGED configMap
  <2>1. CASE /\ ServingCall
             /\ IF Panics /\ faults' = faults THEN Stops
                ELSE UNCHANGED <<serving, nodeWorkerVars>>
    BY <1>1, <2>1, ServingSteps
  <2>2. CASE Runs /\ Crash /\ Stops /\ UNCHANGED otherVars
    <3>1. pc' = "idle"
      BY <2>2 DEF Crash, Restart, Done
    <3> QED  BY <1>1, <2>2, <3>1 DEF MachineSide, Next, ControllerNext
  <2>3. CASE /\ Runs /\ \E k \in Machines : Reconcile(k) \/ Sync(k) \/ Resync(k)
             /\ UNCHANGED <<serving, otherVars, nodeWorkerVars>>
    BY <1>1, <2>3 DEF MachineSide, Next, ControllerNext
  <2>4. CASE /\ \E k \in Machines : TenantNext(k)
             /\ UNCHANGED <<serving, otherVars, nodeWorkerVars>>
    <3>1. UNCHANGED workerVars
      BY <2>4 DEF TenantNext
    <3> QED  BY <1>1, <2>4, <3>1 DEF MachineSide, Next
  <2>5. CASE (\E n \in Names : BothInfraNext(n)) /\ UNCHANGED <<serving, nodeWorkerVars>>
    <3>1. PICK n \in Names : InfraNext(n) /\ UNCHANGED otherVars
      BY <2>5, NothingElsewhere DEF BothInfraNext, SystemTypeInv
    <3>2. UNCHANGED workerVars
      BY <3>1 DEF InfraNext
    <3> QED  BY <1>1, <2>5, <3>1, <3>2 DEF MachineSide, Next
  <2> QED  BY <1>1, <2>1, <2>2, <2>3, <2>4, <2>5 DEF MachineSideNext
<1>2. CASE NodeUpdateNext
  <2> USE DEF NodeSide, NodeWrites, AsideVars
  <2>1. CASE getVM
    <3>1. UNCHANGED faults \/ Fault
      BY <2>1 DEF getVM, NodeRead
    <3>2. UNCHANGED <<clusterVars, workerVars, processVars>>
      BY <2>1 DEF getVM, NodeRead
    <3> QED  BY <1>2, <3>1, <3>2 DEF clusterVars, tenantVars
  <2>2. CASE deleteNodeOfNoVM
    BY <1>2, <2>2 DEF deleteNodeOfNoVM, NodeWrite
  <2>3. CASE updateNode
    BY <1>2, <2>3 DEF updateNode, NodeWrite
  <2>4. ASSUME NEW n \in Names, NodeReconcile(n)
        PROVE  NodeSide
    BY <2>4 DEF NodeReconcile, clusterVars, tenantVars
  <2>5. ASSUME NEW n \in Names, NodeSync(n) \/ NodeResync(n)
        PROVE  NodeSide
    BY <2>5 DEF NodeSync, NodeResync, vars, clusterVars, tenantVars
  <2> QED
    BY <1>2, <2>1, <2>2, <2>3, <2>4, <2>5 DEF NodeUpdateNext, NodeCall
<1>3. CASE EditsConfigMap /\ UNCHANGED nodeWorkerVars
  BY <1>3 DEF EditsConfigMap, ConfigSide, AsideVars, Upset, tenantVars
<1>4. CASE Start
  <2>1. pc = "idle"
    BY <1>4 DEF Start, SystemTypeInv, NodeUpdateTypeOK
  <2> QED  BY <1>4, <2>1 DEF Start, StartSide
<1>5. CASE UNCHANGED systemVars
  BY <1>5 DEF systemVars, processVars, vars, MachineSide
<1> QED  BY <1>1, <1>2, <1>3, <1>4, <1>5 DEF SystemNext

-----------------------------------------------------------------------------
(* Types. *)

\* The objects of a Reconcile of a Node that is under way.
LEMMA NodeObjects ==
  ASSUME NodeUpdateTypeOK, nodePc # "idle"
  PROVE  nodeName \in Names /\ node \in Node /\ namespace \in Namespaces
BY NodeUpdateAssumption DEF NodeUpdateTypeOK

\* What the nodeupdate controller writes into a Node.
LEMMA NodeWritten ==
  ASSUME NodeUpdateTypeOK, nodePc # "idle"
  PROVE  [node EXCEPT !.providerID = FormatProviderID(namespace, nodeName)] \in Node
<1>1. nodeName \in Names /\ node \in Node /\ namespace \in Namespaces
  BY NodeObjects
<1>2. FormatProviderID(namespace, nodeName) \in ProviderIDs
  BY <1>1 DEF ProviderIDs
<1> QED  BY <1>1, <1>2 DEF Node

\* What the nodeupdate controller stores is a Node.
LEMMA NodeWritesType ==
  ASSUME SystemTypeInv, NodeWrites
  PROVE  nodes' \in [Names -> Node \cup {Absent}]
<1>1. nodes \in [Names -> Node \cup {Absent}]
  BY DEF SystemTypeInv, TypeOK, TenantTypeOK
<1>2. CASE nodePc = "updateNode"
  BY <1>1, <1>2, NodeWritten DEF NodeWrites, SystemTypeInv
<1>3. CASE nodePc # "updateNode"
  BY <1>1, <1>3 DEF NodeWrites
<1> QED  BY <1>2, <1>3

\* How a Reconcile of a Node ends.
LEMMA NodeDoneType ==
  ASSUME NodeDone
  PROVE  /\ nodePc' \in NodeLabels /\ nodePc' = "idle"
         /\ nodeName' = Absent /\ node' = Absent /\ namespace' = NoKey
BY DEF NodeDone, NodeLabels

\* The steps of the nodeupdate controller keep its own types.
LEMMA NodeStepType ==
  ASSUME SystemTypeInv, NodeUpdateNext, NodeSide
  PROVE  NodeUpdateTypeOK'
<1> USE DEF NodeUpdateTypeOK
<1>1. /\ NodeUpdateTypeOK /\ nodes \in [Names -> Node \cup {Absent}]
      /\ UNCHANGED <<serving, pc>>
  BY DEF SystemTypeInv, TypeOK, TenantTypeOK, NodeSide, AsideVars, processVars, workerVars,
     localVars
<1>2. ASSUME NEW r, NodeReturn(r), nodePc # "idle"
      PROVE  NodeUpdateTypeOK'
  <2>1. nodeName \in Names
    BY <1>1, <1>2, NodeObjects
  <2>2. nodeQueue' \subseteq Names /\ nodeCache' = nodeCache /\ NodeDone
    BY <1>1, <1>2, <2>1 DEF NodeReturn
  <2> QED  BY <1>1, <2>2, NodeDoneType DEF Runs
<1>3. ASSUME NEW label \in {"deleteNode", "updateNode"}, NodeGoto(label), nodePc = "getVM"
      PROVE  NodeUpdateTypeOK'
  BY <1>1, <1>3 DEF NodeGoto, NodeLabels, Runs
<1>4. CASE getVM
  <2>1. nodePc = "getVM"
    BY <1>4 DEF getVM
  <2>2. \/ \E r \in BOOLEAN : NodeReturn(r)
        \/ NodeGoto("deleteNode")
        \/ NodeGoto("updateNode")
    BY <1>4 DEF getVM, NodeRead
  <2> QED  BY <1>2, <1>3, <2>1, <2>2
<1>5. CASE deleteNodeOfNoVM \/ updateNode
  <2>1. nodePc # "idle"
    BY <1>5 DEF deleteNodeOfNoVM, updateNode
  <2>2. \E r \in BOOLEAN : NodeReturn(r)
    BY <1>5 DEF deleteNodeOfNoVM, updateNode, NodeWrite
  <2> QED  BY <1>2, <2>1, <2>2
<1>6. ASSUME NEW n \in Names, NodeReconcile(n)
      PROVE  NodeUpdateTypeOK'
  <2>1. configMap.namespace \in Namespaces \cup {NoKey}
    BY ProcessAssumption DEF SystemTypeInv, Home, ConfigMap
  <2>2. nodeQueue' \subseteq Names /\ nodeCache' = nodeCache
    BY <1>1, <1>6 DEF NodeReconcile, nodeLocals
  <2>3. \/ UNCHANGED nodeLocals
        \/ /\ nodePc' = "getVM" /\ nodeName' = n /\ node' = nodeCache[n]
           /\ nodeCache[n] # Absent
           /\ namespace' = configMap.namespace /\ namespace' # NoKey
    BY <1>6 DEF NodeReconcile, HasNamespace
  <2>4. nodePc = "idle" /\ Runs
    BY <1>6 DEF NodeReconcile
  <2> QED  BY <1>1, <2>1, <2>2, <2>3, <2>4, NodeUpdateAssumption DEF nodeLocals, NodeLabels, Runs
<1>7. ASSUME NEW n \in Names, NodeSync(n) \/ NodeResync(n)
      PROVE  NodeUpdateTypeOK'
  BY <1>1, <1>7 DEF NodeSync, NodeResync, nodeLocals, Runs
<1> QED
  BY <1>4, <1>5, <1>6, <1>7 DEF NodeUpdateNext, NodeCall

\* What the process is started with is at home.
LEMMA StartedHome ==
  ASSUME OneNamespace, NEW c \in ConfigMaps
  PROVE  Started(c) \in {InfraNamespace, NilActuator, NoProcess}
BY DEF OneNamespace, Started, NewActuator, HasNamespace

\* Every step of the system keeps the types.
LEMMA SystemTypeStep ==
  ASSUME OneNamespace, SystemTypeInv, [SystemNext]_systemVars
  PROVE  SystemTypeInv'
<1> USE DEF SystemTypeInv
<1>1. CASE MachineSide
  <2>1. TypeOK' /\ nodes \in [Names -> Node \cup {Absent}]
    BY <1>1, TypeStep DEF MachineSide, TypeOK, TenantTypeOK
  <2>2. CASE UNCHANGED <<serving, nodeWorkerVars>> /\ (Runs \/ UNCHANGED workerVars)
    <3>1. NodeUpdateTypeOK'
      BY <2>2 DEF NodeUpdateTypeOK, nodeWorkerVars, nodeLocals, workerVars, localVars, Runs
    <3> QED  BY <1>1, <2>1, <2>2, <3>1 DEF MachineSide, Home, otherVars
  <2>3. CASE Stops /\ pc' = "idle"
    <3>1. NodeUpdateTypeOK'
      BY <2>1, <2>3, NodeDoneType DEF Stops, NodeUpdateTypeOK
    <3> QED  BY <1>1, <2>1, <2>3, <3>1 DEF MachineSide, Home, otherVars, Stops
  <2> QED  BY <1>1, <2>2, <2>3 DEF MachineSide
<1>2. CASE StartSide
  <2>1. TypeOK'
    BY <1>2, RestartType, ClustersUnchanged, FaultType
    DEF StartSide, TypeOK, WorkerTypeOK
  <2>2. nodes \in [Names -> Node \cup {Absent}] /\ pc' = "idle"
    BY <1>2 DEF TypeOK, TenantTypeOK, StartSide, Restart, Done
  <2>3. NodeUpdateTypeOK'
    BY <1>2, <2>2, NodeDoneType DEF StartSide, NodeUpdateTypeOK
  <2>4. Home'
    BY <1>2, StartedHome DEF StartSide, Home, otherVars
  <2> QED  BY <2>1, <2>3, <2>4
<1>3. CASE NodeUpdateNext /\ NodeSide
  <2>1. nodes' \in [Names -> Node \cup {Absent}]
    BY <1>3, NodeWritesType DEF NodeSide
  <2>2. faults' \in 0 .. MaxFaults
    BY <1>3, FaultType DEF NodeSide, TypeOK, WorkerTypeOK
  <2>3. TypeOK'
    BY <1>3, <2>1, <2>2
    DEF NodeSide, AsideVars, infraVars, workerVars, localVars, TypeOK, InfraTypeOK,
        TenantTypeOK, WorkerTypeOK, HandlerTypeOK
  <2>4. Home'
    BY <1>3 DEF NodeSide, Home, processVars, otherVars
  <2> QED  BY <1>3, <2>3, <2>4, NodeStepType
<1>4. CASE ConfigSide
  <2>1. upsets' \in 0 .. MaxUpsets
    BY <1>4, InfraAssumption DEF ConfigSide, TypeOK, InfraTypeOK
  <2>2. TypeOK'
    BY <1>4, <2>1
    DEF ConfigSide, AsideVars, infraVars, workerVars, localVars, TypeOK, InfraTypeOK,
        TenantTypeOK, WorkerTypeOK, HandlerTypeOK
  <2>3. NodeUpdateTypeOK' /\ Home'
    BY <1>4
    DEF ConfigSide, AsideVars, workerVars, localVars, NodeUpdateTypeOK, Home, otherVars,
        nodeWorkerVars, nodeLocals, Runs
  <2> QED  BY <2>2, <2>3
<1> QED  BY <1>1, <1>2, <1>3, <1>4, SystemSteps

\* The types hold initially, and in every reachable state.
LEMMA SystemTypes ==
  ASSUME OneNamespace
  PROVE  SystemSpec => []SystemTypeInv
<1>1. SystemInit => SystemTypeInv
  <2> SUFFICES ASSUME SystemInit
               PROVE  SystemTypeInv
    OBVIOUS
  <2>1. TypeOK
    BY InfraAssumption, TenantAssumption, WorkerAssumption
    DEF SystemInit, Init, InfraInit, TenantInit, WorkerInit, TypeOK, InfraTypeOK,
        TenantTypeOK, WorkerTypeOK, HandlerTypeOK, Labels, VMIs
  <2>2. Home
    BY DEF SystemInit, ProcessInit, Home, Elsewhere!InfraInit
  <2>3. Runs
    BY ProcessAssumption, InfraAssumption DEF SystemInit, ProcessInit, Runs
  <2>4. NodeUpdateTypeOK
    BY <2>1, <2>3
    DEF SystemInit, NodeUpdateInit, NodeUpdateTypeOK, NodeLabels, TypeOK, TenantTypeOK
  <2> QED  BY <2>1, <2>2, <2>4 DEF SystemTypeInv
<1>2. SystemTypeInv /\ [SystemNext]_systemVars => SystemTypeInv'
  BY SystemTypeStep
<1> QED  BY <1>1, <1>2, PTL DEF SystemSpec

\* The composed system has the types of its parts, whatever is edited, fails and is
\* restarted: in particular the Reconcile of a Node (nodeupdate_controller.go:56-109) has
\* its Node and a namespace at every call, and a process that is not running is in the
\* middle of no Reconcile.
THEOREM SystemTypeCorrect ==
  ASSUME OneNamespace
  PROVE  SystemSpec => []SystemTypeOK
<1>1. SystemTypeInv => SystemTypeOK
  <2> SUFFICES ASSUME SystemTypeInv
               PROVE  ProcessTypeOK
    BY DEF SystemTypeInv, SystemTypeOK
  <2>1. Elsewhere!InfraTypeOK
    BY DEF SystemTypeInv, Home, TypeOK, InfraTypeOK, Elsewhere!InfraTypeOK, VMIs,
       Elsewhere!VMIs
  <2> QED  BY <2>1, InfraAssumption DEF SystemTypeInv, Home, ProcessTypeOK
<1> QED  BY <1>1, SystemTypes, PTL

-----------------------------------------------------------------------------
(* What was proved of the machine controller. *)

\* No Node appears by a write of the nodeupdate controller, and the one that goes is the
\* one it decided to delete.
LEMMA NodeWritesTake ==
  ASSUME SystemTypeInv, NodeWrites, NEW n \in Names
  PROVE  /\ nodes[n] = Absent => nodes'[n] = Absent
         /\ nodes[n] # Absent /\ nodes'[n] = Absent => nodePc = "deleteNode" /\ n = nodeName
<1>1. nodes \in [Names -> Node \cup {Absent}] /\ nodes' \in [Names -> Node \cup {Absent}]
  BY NodeWritesType DEF SystemTypeInv, TypeOK, TenantTypeOK
<1>2. CASE nodePc = "updateNode"
  BY <1>1, <1>2, NodeObjects, NodeWritten, TenantAssumption DEF NodeWrites, SystemTypeInv
<1>3. CASE nodePc # "updateNode"
  BY <1>1, <1>3 DEF NodeWrites
<1> QED  BY <1>2, <1>3

\* The steps that are not the machine side's keep both invariants of the machine
\* controller, and use up no name.
LEMMA AsideSteps ==
  ASSUME SystemTypeInv, FinalizerInv, NamesInv,
         UNCHANGED AsideVars, UNCHANGED nodes \/ NodeWrites
  PROVE  FinalizerInv' /\ NamesInv' /\ UNCHANGED Used
<1> USE DEF AsideVars, infraVars, workerVars, localVars
<1>1. FinalizerInv'
  <2>1. UNCHANGED <<machines, cache, pc, key, vms>>
    OBVIOUS
  <2>2. DeletedHasFinalizer' /\ CachedLive' /\ CachedDeleted'
    BY <2>1 DEF FinalizerInv, DeletedHasFinalizer, CachedLive, CachedDeleted, Live,
       HasFinalizer, Deleted, Has
  <2>3. HandlerIsRight' /\ NoOrphanedVM'
    BY <2>1 DEF FinalizerInv, HandlerIsRight, NoOrphanedVM, Live, HasFinalizer, Deleted, Has,
       name
  <2> QED  BY <2>2, <2>3 DEF FinalizerInv
<1>2. UNCHANGED Used
  BY SameUsed
<1>3. \A n \in Names : nodes[n] = Absent => nodes'[n] = Absent
  BY NodeWritesTake
<1>4. NamesInv'
  BY <1>2, <1>3 DEF NamesInv, NamesUsedOnce, name
<1> QED  BY <1>1, <1>2, <1>4

\* So does the process when it is started, or panics before it gets to an actuator: it is
\* not in the middle of a Create.
LEMMA StartSteps ==
  ASSUME SystemTypeInv, FinalizerInv, NamesInv, StartSide
  PROVE  FinalizerInv' /\ NamesInv' /\ UNCHANGED <<machines, nodes, vms, Used>>
<1>1. /\ UNCHANGED <<machines, nodes, vms, vmis, secrets>>
      /\ pc' = "idle" /\ cache' = machines /\ pc # "createVM"
  BY DEF StartSide, Restart, Done, clusterVars, infraVars, tenantVars
<1>2. FinalizerInv'
  <2>1. Quiet
    BY <1>1, StillIsQuiet DEF Quiet
  <2> QED  BY <2>1, QuietStep DEF SystemTypeInv
<1>3. UNCHANGED Used
  BY <1>1, SameUsed
<1>4. NamesInv'
  BY <1>1, <1>3 DEF NamesInv, NamesUsedOnce
<1> QED  BY <1>1, <1>2, <1>3, <1>4

\* So every step of the system keeps them.
LEMMA SystemMachineStep ==
  ASSUME SystemTypeInv, FinalizerInv, NamesInv, [SystemNext]_systemVars
  PROVE  FinalizerInv' /\ NamesInv'
<1>1. CASE MachineSide
  <2>1. TypeOK /\ [Next]_vars
    BY <1>1 DEF MachineSide, SystemTypeInv
  <2> QED  BY <2>1, FinalizerStep, NamesStep
<1>2. CASE NodeSide \/ ConfigSide
  BY <1>2, AsideSteps DEF NodeSide, ConfigSide
<1> QED  BY <1>1, <1>2, SystemSteps, StartSteps

\* The invariants of the machine controller hold with both controllers at work.
LEMMA SystemMachineInvariant ==
  ASSUME OneNamespace
  PROVE  SystemSpec => [](FinalizerInv /\ NamesInv)
<1>1. SystemInit => FinalizerInv /\ NamesInv
  <2>1. Init => FinalizerInv
    BY DEF Init, InfraInit, TenantInit, WorkerInit, FinalizerInv, DeletedHasFinalizer,
       CachedLive, CachedDeleted, HandlerIsRight, NoOrphanedVM, Live, HasFinalizer, Deleted,
       Has, HandlesLive, HandlesDeleted
  <2>2. Init => NamesInv
    BY DEF Init, InfraInit, TenantInit, WorkerInit, NamesInv, NamesUsedOnce
  <2> QED  BY <2>1, <2>2 DEF SystemInit
<1>2. SystemTypeInv /\ FinalizerInv /\ NamesInv /\ [SystemNext]_systemVars
        => FinalizerInv' /\ NamesInv'
  BY SystemMachineStep
<1> QED  BY <1>1, <1>2, SystemTypes, PTL DEF SystemSpec

\* No VirtualMachine is left behind (controller.go:244-268) although the nodeupdate
\* controller deletes Nodes of its own accord (nodeupdate_controller.go:79-88) while the
\* machine controller drains and deletes them, and although the process is started under
\* a ConfigMap that is missing, incomplete or cannot be read (actuator.go:69-86) - as long
\* as the ConfigMap names no other namespace.
THEOREM SystemNoOrphans ==
  ASSUME OneNamespace
  PROVE  SystemSpec => []NoOrphanedVM
<1>1. FinalizerInv => NoOrphanedVM
  BY DEF FinalizerInv
<1> QED  BY <1>1, SystemMachineInvariant, PTL

-----------------------------------------------------------------------------
(* What the nodeupdate controller relies on. *)

\* The inductive invariant: a Reconcile also looks where the actuator creates.
NodeInv == NodeDecisionsHold /\ (nodePc # "idle" => namespace = InfraNamespace)

\* A name that is used up stays so and gets no other VirtualMachine.
LEMMA GoneForGood ==
  ASSUME SystemTypeInv, FinalizerInv, NamesInv, [SystemNext]_systemVars
  PROVE  /\ Used \subseteq Used'
         /\ \A n \in Names : n \in Used /\ vms[n] = Absent => vms'[n] = Absent
<1>1. CASE MachineSide
  <2>1. TypeOK /\ [Next]_vars
    BY <1>1 DEF MachineSide, SystemTypeInv
  <2> QED  BY <2>1, LinksStay
<1>2. CASE NodeSide \/ ConfigSide
  BY <1>2, AsideSteps DEF NodeSide, ConfigSide, AsideVars, infraVars
<1>3. CASE StartSide
  BY <1>3, StartSteps
<1> QED  BY <1>1, <1>2, <1>3, SystemSteps

\* Every step keeps the invariant.
LEMMA NodeInvStep ==
  ASSUME OneNamespace, SystemTypeInv, FinalizerInv, NamesInv, NodeInv,
         [SystemNext]_systemVars
  PROVE  NodeInv'
<1> DEFINE Stays == /\ Used \subseteq Used'
                   /\ \A n \in Names : n \in Used /\ vms[n] = Absent => vms'[n] = Absent
<1>1. Stays
  BY GoneForGood
<1>2. NodeUpdateTypeOK /\ \A n \in Names : nodes[n] # Absent => n \in Used
  BY DEF SystemTypeInv, NamesInv, NamesUsedOnce
<1>3. ASSUME UNCHANGED nodeLocals,
             \A n \in Names : nodeCache'[n] # Absent => n \in Used
      PROVE  NodeInv'
  <2>1. nodePc # "idle" => nodeName \in Names
    BY <1>2, NodeObjects
  <2> QED  BY <1>1, <1>3, <2>1 DEF NodeInv, NodeDecisionsHold, nodeLocals
<1>4. ASSUME nodePc' = "idle",
             \A n \in Names : nodeCache'[n] # Absent => n \in Used
      PROVE  NodeInv'
  BY <1>1, <1>4 DEF NodeInv, NodeDecisionsHold
<1>5. CASE MachineSide \/ ConfigSide \/ StartSide
  <2>1. CASE UNCHANGED nodeWorkerVars
    BY <1>3, <2>1 DEF nodeWorkerVars, NodeInv, NodeDecisionsHold
  <2>2. CASE Stops
    BY <1>4, <2>2, NodeDoneType DEF Stops
  <2>3. CASE StartSide
    BY <1>2, <1>4, <2>3, NodeDoneType DEF StartSide
  <2> QED  BY <1>5, <2>1, <2>2, <2>3 DEF MachineSide, ConfigSide
<1>6. CASE NodeUpdateNext /\ NodeSide
  <2>1. \A n \in Names : nodeCache[n] # Absent => n \in Used
    BY DEF NodeInv, NodeDecisionsHold
  <2>2. ASSUME NEW r, NodeReturn(r)
        PROVE  NodeInv'
    BY <1>4, <2>1, <2>2, NodeDoneType DEF NodeReturn
  <2>3. CASE getVM
    <3>1. nodePc = "getVM" /\ nodeName \in Names /\ nodeName \in Used
          /\ namespace = InfraNamespace
      BY <1>2, <2>3, NodeObjects DEF getVM, NodeInv, NodeDecisionsHold
    <3>2. \/ \E r \in BOOLEAN : NodeReturn(r)
          \/ NodeGoto("deleteNode") /\ vms[nodeName] = Absent
          \/ NodeGoto("updateNode")
      BY <2>3, <3>1 DEF getVM, NodeRead, VMIn
    <3> QED  BY <1>1, <2>1, <2>2, <3>1, <3>2 DEF NodeGoto, NodeInv, NodeDecisionsHold
  <2>4. CASE deleteNodeOfNoVM \/ updateNode
    <3>1. \E r \in BOOLEAN : NodeReturn(r)
      BY <2>4 DEF deleteNodeOfNoVM, updateNode, NodeWrite
    <3> QED  BY <2>2, <3>1
  <2>5. ASSUME NEW n \in Names, NodeReconcile(n)
        PROVE  NodeInv'
    <3>1. nodeCache' = nodeCache
      BY <2>5 DEF NodeReconcile
    <3>2. CASE UNCHANGED nodeLocals
      BY <1>3, <2>1, <3>1, <3>2
    <3>3. CASE /\ nodePc' = "getVM" /\ nodeName' = n /\ nodeCache[n] # Absent
               /\ namespace' = configMap.namespace /\ configMap.namespace # NoKey
      <4>1. namespace' = InfraNamespace
        BY <3>3 DEF OneNamespace, SystemTypeInv, Home
      <4> QED  BY <1>1, <2>1, <3>1, <3>3, <4>1 DEF NodeInv, NodeDecisionsHold
    <3> QED  BY <2>5, <3>2, <3>3 DEF NodeReconcile, HasNamespace
  <2>6. ASSUME NEW n \in Names, NodeSync(n) \/ NodeResync(n)
        PROVE  NodeInv'
    <3>1. \A i \in Names : nodeCache'[i] # Absent => i \in Used
      BY <1>2, <2>1, <2>6 DEF NodeSync, NodeResync, NodeUpdateTypeOK
    <3> QED  BY <1>3, <2>6, <3>1 DEF NodeSync, NodeResync
  <2> QED  BY <1>6, <2>3, <2>4, <2>5, <2>6 DEF NodeUpdateNext, NodeCall
<1> QED  BY <1>5, <1>6, SystemSteps

\* The invariant holds initially, and in every reachable state.
LEMMA NodeInvariant ==
  ASSUME OneNamespace
  PROVE  SystemSpec => []NodeInv
<1>1. SystemInit => NodeInv
  BY DEF SystemInit, Init, TenantInit, NodeUpdateInit, NodeInv, NodeDecisionsHold
<1>2. SystemTypeInv /\ FinalizerInv /\ NamesInv /\ NodeInv /\ [SystemNext]_systemVars
        => NodeInv'
  BY NodeInvStep
<1> QED  BY <1>1, <1>2, SystemTypes, SystemMachineInvariant, PTL DEF SystemSpec

\* A Node that is about to be deleted has no VirtualMachine, and gets none, however long
\* ago the nodeupdate controller looked (nodeupdate_controller.go:79-88) and however old
\* the Node it looked for is: the name of every Node it has ever seen is used up.
THEOREM NodeDecisions ==
  ASSUME OneNamespace
  PROVE  SystemSpec => []NodeDecisionsHold
<1>1. NodeInv => NodeDecisionsHold
  BY DEF NodeInv
<1> QED  BY <1>1, NodeInvariant, PTL

\* The step that takes a Node takes it from a VirtualMachine that is gone: the machine
\* controller's (NodeStep), or the nodeupdate controller's, by its invariant.
LEMMA SystemNodeStep ==
  ASSUME SystemTypeInv, FinalizerInv, NodeInv, [SystemNext]_systemVars
  PROVE  NodeGoesLast
<1>1. CASE MachineSide
  <2>1. TypeOK /\ [Next]_vars
    BY <1>1 DEF MachineSide, SystemTypeInv
  <2> QED  BY <2>1, NodeStep DEF NodeGoesLast, vars, clusterVars, tenantVars
<1>2. CASE NodeSide
  BY <1>2, NodeWritesTake DEF NodeSide, NodeGoesLast, NodeInv, NodeDecisionsHold
<1>3. CASE ConfigSide \/ StartSide
  BY <1>3 DEF ConfigSide, StartSide, clusterVars, tenantVars, NodeGoesLast
<1> QED  BY <1>1, <1>2, <1>3, SystemSteps

\* No Node is deleted while its VirtualMachine is there, by either controller
\* (controller.go:250-261, nodeupdate_controller.go:79-88), although each looks at the
\* infra cluster some steps before it deletes the Node, by its name.
THEOREM SystemNodesOutliveVMs ==
  ASSUME OneNamespace
  PROVE  SystemSpec => NodeOutlivesVM
<1>1. SystemTypeInv /\ FinalizerInv /\ NodeInv /\ [SystemNext]_systemVars
        => [NodeGoesLast]_vars
  BY SystemNodeStep
<1> QED
  BY <1>1, SystemTypes, SystemMachineInvariant, NodeInvariant, PTL
  DEF SystemSpec, NodeOutlivesVM, NodeGoesLast

\* Every step of the system is a step of the life cycle or none.
LEMMA SystemLifecycleStep ==
  ASSUME SystemTypeInv, FinalizerInv, NamesInv, NodeInv, [SystemNext]_systemVars
  PROVE  LifecycleStep
<1>1. TypeOK /\ NodeUpdateTypeOK
  BY DEF SystemTypeInv
<1>2. CASE MachineSide
  BY <1>1, <1>2, LifecycleRefines DEF MachineSide
<1>3. CASE NodeSide \/ ConfigSide
  <2>1. UNCHANGED <<machines, vms>> /\ UNCHANGED Used
    BY <1>3, AsideSteps DEF NodeSide, ConfigSide, AsideVars, infraVars
  <2>2. UNCHANGED <<Claims, BackedNames>>
    BY <2>1 DEF Claims, BackedNames
  <2>3. CASE UNCHANGED JoinedNames
    BY <2>1, <2>2, <2>3 DEF LifecycleStep
  <2>4. CASE NodeSide /\ nodePc = "deleteNode"
    <3>1. nodeName \in Names /\ vms[nodeName] = Absent
      BY <1>1, <2>4, NodeObjects DEF NodeInv, NodeDecisionsHold
    <3>2. UNCHANGED nodes \/ nodes' = [nodes EXCEPT ![nodeName] = Absent]
      BY <2>4 DEF NodeSide, NodeWrites
    <3> QED  BY <1>1, <2>1, <2>2, <3>1, <3>2, LossRefines
  <2>5. CASE ConfigSide \/ nodePc # "deleteNode"
    <3>1. \A n \in Names : nodes[n] = Absent <=> nodes'[n] = Absent
      BY <1>3, <2>5, NodeWritesTake DEF NodeSide, ConfigSide
    <3> QED  BY <2>3, <3>1 DEF JoinedNames
  <2> QED  BY <1>3, <2>4, <2>5
<1>4. CASE StartSide
  BY <1>4, StartSteps DEF LifecycleStep, Claims, BackedNames, JoinedNames
<1> QED  BY <1>2, <1>3, <1>4, SystemSteps

\* The two controllers together implement the life cycle (controller.go:187-272,
\* kubevirt.go:50-146, nodeupdate_controller.go:56-109): the second one adds nothing to it
\* but another way for a Node to leave.
THEOREM SystemRefinesLifecycle ==
  ASSUME OneNamespace
  PROVE  SystemSpec => ImplementsLifecycle
<1>1. SystemInit => Lifecycle!LifecycleInit
  BY DEF SystemInit, Init, InfraInit, TenantInit, WorkerInit, Lifecycle!LifecycleInit, Claims,
     ClaimOf, HasFinalizer, Has, Used, BackedNames, JoinedNames
<1>2. SystemTypeInv /\ FinalizerInv /\ NamesInv /\ NodeInv /\ [SystemNext]_systemVars
        => [Lifecycle!LifecycleNext]_(Lifecycle!lifecycleVars)
  BY SystemLifecycleStep DEF LifecycleStep, Lifecycle!lifecycleVars
<1> QED
  BY <1>1, <1>2, SystemTypes, SystemMachineInvariant, NodeInvariant, PTL
  DEF SystemSpec, ImplementsLifecycle, Lifecycle!LifecycleSpec
=============================================================================
