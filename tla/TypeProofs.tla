----------------------------- MODULE TypeProofs -----------------------------
(***************************************************************************)
(* The specification is type-correct for any number of Machines, names,    *)
(* configurations, faults, upsets and incarnations.                        *)
(***************************************************************************)
EXTENDS MachineProperties, TLAPS

-----------------------------------------------------------------------------
(* What the operators on Machines and VirtualMachines return. *)

\* A provider spec's answer decoded into a copy is a configuration again.
LEMMA DecodedConfigType ==
  ASSUME NEW a \in Config, NEW c \in Config
  PROVE  DecodedConfig(a, c) \in Config
<1> DEFINE base == IF a.providerSpec = "nil" THEN c ELSE a
<1>1. base \in Config
  OBVIOUS
<1>2. /\ (a.clusterIDLabel \/ c.clusterIDLabel) \in BOOLEAN
      /\ (a.excludeNodeDraining \/ c.excludeNodeDraining) \in BOOLEAN
  BY DEF Config
<1> HIDE DEF base
<1>3. ASSUME NEW p \in BOOLEAN, NEW q \in BOOLEAN
      PROVE  [base EXCEPT !.clusterIDLabel = p, !.excludeNodeDraining = q] \in Config
  BY <1>1 DEF Config
<1> QED  BY <1>2, <1>3 DEF DecodedConfig, base

\* An answer decoded into a copy of a Machine is a Machine (TenantCluster!Decoded).
LEMMA DecodedType ==
  ASSUME NEW a \in Machine, NEW c \in Machine
  PROVE  Decoded(a, c) \in Machine
BY DecodedConfigType DEF Decoded, Kept, Machine

\* A merge patch yields a Machine and touches neither the deletion timestamp nor the
\* finalizers.
LEMMA PatchedMachineType ==
  ASSUME NEW b \in Machine, NEW a \in Machine, NEW s \in Machine
  PROVE  /\ PatchedMachine(b, a, s) \in Machine
         /\ PatchedMachine(b, a, s).deleted = s.deleted
         /\ PatchedMachine(b, a, s).finalizer = s.finalizer
BY DEF PatchedMachine, Delta, Machine

\* Likewise for a patch of the status.
LEMMA PatchedStatusType ==
  ASSUME NEW b \in Machine, NEW a \in Machine, NEW s \in Machine
  PROVE  /\ PatchedStatus(b, a, s) \in Machine
         /\ PatchedStatus(b, a, s).deleted = s.deleted
         /\ PatchedStatus(b, a, s).finalizer = s.finalizer
BY DEF PatchedStatus, Delta, Machine

\* The status patch that updateStatus sends is one of those.
LEMMA UpdatedStatusType ==
  ASSUME NEW p \in Phases, m \in Machine, machines[key] \in Machine
  PROVE  /\ UpdatedStatus(p) \in Machine
         /\ UpdatedStatus(p).deleted = machines[key].deleted
         /\ UpdatedStatus(p).finalizer = machines[key].finalizer
<1>1. [m EXCEPT !.phase = p] \in Machine
  BY DEF Machine
<1> QED  BY <1>1, PatchedStatusType DEF UpdatedStatus

\* An Update leaves a Machine with the finalizers sent, or none at all.
LEMMA UpdatedMachineType ==
  ASSUME NEW s \in Machine, NEW a \in Machine
  PROVE  /\ UpdatedMachine(s, a) \in Machine \cup {Absent}
         /\ a.finalizer => /\ UpdatedMachine(s, a) \in Machine
                           /\ UpdatedMachine(s, a).finalizer
                           /\ UpdatedMachine(s, a).deleted = s.deleted
         /\ UpdatedMachine(s, a) # Absent /\ ~a.finalizer
              => ~UpdatedMachine(s, a).finalizer /\ ~UpdatedMachine(s, a).deleted
BY DEF UpdatedMachine, Machine

\* The status of one copy on another.
LEMMA WithStatusType ==
  ASSUME NEW o \in Machine, NEW c \in Machine
  PROVE  WithStatus(o, c) \in Machine
BY DEF WithStatus, Machine

\* SyncMachine writes a Machine.
LEMMA SyncMachineType ==
  ASSUME NEW o \in Machine, NEW v \in VM, NEW b \in BOOLEAN, NEW n \in Names
  PROVE  SyncMachine(o, v, b, FormatProviderID(InfraNamespace, n)) \in Machine
<1>1. FormatProviderID(InfraNamespace, n) \in ProviderIDs
  BY InfraAssumption DEF ProviderIDs
<1>2. MachineState(v) \in InstanceStates
  BY DEF MachineState, InstanceStates, VMStates
<1> QED  BY <1>1, <1>2 DEF SyncMachine, Machine

\* The VirtualMachine built from any configuration is one (a malformed value included).
LEMMA VMSpecType ==
  ASSUME NEW c \in Config
  PROVE  CreateVirtualMachineFromMachine(c) \in VMSpecs
<1>1. buildVMITemplate(c) \in [memory : Quantities \cup {"malformed"},
                               binding : {"SRIOV", "Bridge"}]
  BY DEF buildVMITemplate, OrDefault, Config, Quantities
<1>2. buildBootVolumeDataVolumeTemplate(c)
        \in [storage : Quantities \cup {"malformed"}, accessMode : AccessModes \cup {"other"}]
  BY DEF buildBootVolumeDataVolumeTemplate, OrDefault, Config, Quantities, AccessModes
<1> QED  BY <1>1, <1>2 DEF CreateVirtualMachineFromMachine, VMSpecs

\* A new VirtualMachine, and an updated one.
LEMMA VMType ==
  ASSUME NEW c \in Config, NEW a \in InstanceStates, NEW v \in VM
  PROVE  /\ NewVM(CreateVirtualMachineFromMachine(c), a) \in VM
         /\ UpdatedVM(v, CreateVirtualMachineFromMachine(c), a) \in VM
BY VMSpecType DEF NewVM, UpdatedVM, VM

-----------------------------------------------------------------------------
(* Type correctness: first the ways a call continues, then one case per action. *)

\* What a handler that is not idle works on.
LEMMA HandlerObjects ==
  ASSUME HandlerTypeOK, pc # "idle"
  PROVE  /\ key \in Machines /\ name \in Names
         /\ m \in Machine /\ version \in Machine
BY TenantAssumption DEF HandlerTypeOK, name

\* A Reconcile that ends leaves an idle handler (Worker!Return).
LEMMA ReturnType ==
  ASSUME HandlerTypeOK, pc # "idle", NEW r, Return(r)
  PROVE  HandlerTypeOK'
<1>1. queue' \subseteq Machines
  BY HandlerObjects DEF HandlerTypeOK, Return
<1> QED  BY <1>1 DEF HandlerTypeOK, Return, Done, Labels

\* A restarted process is idle (Worker!Restart).
LEMMA RestartType ==
  ASSUME TenantTypeOK, HandlerTypeOK, Restart
  PROVE  HandlerTypeOK'
<1>1. queue' \subseteq Machines /\ cache' \in [Machines -> Machine \cup {Absent}]
  BY DEF TenantTypeOK, Restart
<1> QED  BY <1>1 DEF HandlerTypeOK, Restart, Done, Labels

\* Labels reached with nothing but the Machine in hand.
PlainLabels == Labels \ {"idle", "updateVM", "getVMI", "patchMachine", "patchStatus"}

\* The next call (Worker!Goto).
LEMMA GotoType ==
  ASSUME HandlerTypeOK, pc # "idle", NEW label \in PlainLabels, Goto(label)
  PROVE  HandlerTypeOK'
BY DEF HandlerTypeOK, Goto, PlainLabels

\* The next call, with the answer decoded into the copy (Worker!GotoWith).
LEMMA GotoWithType ==
  ASSUME HandlerTypeOK, pc # "idle", NEW label \in PlainLabels, NEW a \in Machine,
         GotoWith(label, a)
  PROVE  HandlerTypeOK'
<1>1. Decoded(a, m) \in Machine
  BY HandlerObjects, DecodedType
<1>2. Absent \notin Machine
  BY TenantAssumption
<1> QED  BY <1>1, <1>2 DEF HandlerTypeOK, GotoWith, PlainLabels

\* The end of syncMachine, with or without the instance (KubevirtVM!FinishSync).
LEMMA FinishSyncType ==
  ASSUME HandlerTypeOK, pc # "idle", NEW v \in VM, NEW b \in BOOLEAN, FinishSync(v, b)
  PROVE  HandlerTypeOK'
<1>1. SyncMachine(m, v, b, FormatProviderID(InfraNamespace, name)) \in Machine
  BY HandlerObjects, SyncMachineType
<1>2. Absent \notin Machine /\ Absent \notin VM
  BY TenantAssumption, InfraAssumption
<1> QED  BY <1>1, <1>2 DEF HandlerTypeOK, FinishSync, Labels

\* Its beginning (KubevirtVM!StartSync).
LEMMA StartSyncType ==
  ASSUME HandlerTypeOK, pc # "idle", NEW v \in VM, StartSync(v)
  PROVE  HandlerTypeOK'
<1>1. CASE v.ready
  BY <1>1, InfraAssumption DEF HandlerTypeOK, StartSync, Labels
<1>2. CASE ~v.ready
  BY <1>2, FinishSyncType DEF StartSync
<1> QED  BY <1>1, <1>2

\* An error that is reported (Worker!Reports).
LEMMA ReportsType ==
  ASSUME HandlerTypeOK, pc # "idle", Reports
  PROVE  HandlerTypeOK'
<1>1. "reportError" \in PlainLabels
  BY DEF PlainLabels, Labels
<1> QED  BY <1>1, ReturnType, GotoType DEF Reports

\* A call that failed ends the Reconcile, has its error reported, or has the Machine
\* patched first (Worker!Fails).
LEMMA FailsType ==
  ASSUME HandlerTypeOK, pc # "idle", Fails
  PROVE  HandlerTypeOK'
<1>1. CASE Reports
  BY <1>1, ReportsType
<1>2. CASE Return(TRUE)
  BY <1>2, ReturnType
<1>3. CASE /\ pc' = "patchMachine" /\ origin' = m /\ vm' = Absent
           /\ UNCHANGED <<cache, queue, key, m, version>>
  BY <1>3, HandlerObjects, TenantAssumption DEF HandlerTypeOK, Labels
<1> QED  BY <1>1, <1>2, <1>3 DEF Fails, PatchAfterError

\* A fault uses up one of the faults left (Worker!Fault).
LEMMA FaultType ==
  ASSUME faults \in 0 .. MaxFaults, Fault
  PROVE  faults' \in 0 .. MaxFaults
BY WorkerAssumption DEF Fault

\* The clusters keep their types when nothing happens to them.
LEMMA ClustersUnchanged ==
  ASSUME InfraTypeOK, TenantTypeOK
  PROVE  /\ UNCHANGED <<infraVars, upsets>> => InfraTypeOK'
         /\ UNCHANGED tenantVars => TenantTypeOK'
         /\ UNCHANGED clusterVars => InfraTypeOK' /\ TenantTypeOK'
BY DEF InfraTypeOK, TenantTypeOK, infraVars, tenantVars, clusterVars

\* A call the server refuses, one that is not sent, and a panic.
LEMMA FailedCallType ==
  ASSUME TypeOK, pc # "idle", Refused \/ Unsent \/ Panic
  PROVE  TypeOK'
<1>1. CASE Refused
  BY <1>1, FailsType, ClustersUnchanged DEF TypeOK, WorkerTypeOK, Refused
<1>2. CASE Unsent
  BY <1>2, FailsType, FaultType, ClustersUnchanged DEF TypeOK, WorkerTypeOK, Unsent
<1>3. CASE Panic
  BY <1>3, RestartType, ClustersUnchanged DEF TypeOK, WorkerTypeOK, Panic
<1> QED  BY <1>1, <1>2, <1>3

\* The Machine is stored (TenantCluster!StoreMachine), a Machine or nothing.
LEMMA StoreMachineType ==
  ASSUME TenantTypeOK, NEW k \in Machines, NEW o \in Machine \cup {Absent},
         StoreMachine(k, o)
  PROVE  TenantTypeOK'
BY DEF TenantTypeOK, StoreMachine

\* A VirtualMachine is stored or deleted (InfraCluster).
LEMMA StoreVMType ==
  ASSUME InfraTypeOK, UNCHANGED upsets, NEW n \in Names, NEW v \in VM,
         \/ CreateSecret(n) \/ CreateVirtualMachine(n, v)
         \/ UpdateVirtualMachine(n, v)
         \/ DeleteVirtualMachineAccepted(n) /\ DeleteVirtualMachine(n)
  PROVE  InfraTypeOK'
BY DEF InfraTypeOK, CreateSecret, CreateVirtualMachine, UpdateVirtualMachine,
       DeleteVirtualMachineAccepted, DeleteVirtualMachine, VM

\* Every call keeps the types; in each, what it stores has the type it should have and
\* what follows is one of the continuations above.
LEMMA CallType ==
  ASSUME TypeOK, Call
  PROVE  TypeOK'
<1> USE DEF TypeOK, WorkerTypeOK
<1>1. pc # "idle"
  BY DEF Call, addFinalizer, setDeleting, drain, getForDelete, deleteVM, existsAfterDelete,
         deleteNode, removeFinalizer, exists, setProvisioning, getUserData, createSecret,
         createVM, getForUpdate, updateVM, getVMI, patchMachine, patchStatus, setRunning,
         failAnnotation, failStatus, reportError
<1>2. /\ key \in Machines /\ name \in Names /\ m \in Machine /\ version \in Machine
      /\ m.config \in Config /\ m.instanceState \in InstanceStates
  BY <1>1, HandlerObjects DEF Machine
<1>3. PatchAccepted(key) => machines[key] \in Machine
  BY <1>2 DEF PatchAccepted, TenantTypeOK
<1>4. /\ UNCHANGED <<infraVars, upsets>> => InfraTypeOK'
      /\ UNCHANGED tenantVars => TenantTypeOK'
      /\ UNCHANGED clusterVars => InfraTypeOK' /\ TenantTypeOK'
  BY ClustersUnchanged
<1>5. Refused \/ Unsent \/ Panic => TypeOK'
  BY <1>1, FailedCallType
<1>6. ASSUME NEW r, Return(r)  PROVE HandlerTypeOK'
  BY <1>1, <1>6, ReturnType
<1>7. ASSUME NEW l \in PlainLabels, Goto(l)  PROVE HandlerTypeOK'
  BY <1>1, <1>7, GotoType
<1>8. ASSUME NEW l \in PlainLabels, NEW a \in Machine, GotoWith(l, a)  PROVE HandlerTypeOK'
  BY <1>1, <1>8, GotoWithType
<1>9. Fault => faults' \in 0 .. MaxFaults
  BY FaultType
<1>10. ASSUME NEW o \in Machine \cup {Absent}, StoreMachine(key, o)  PROVE TenantTypeOK'
  BY <1>2, <1>10, StoreMachineType
<1>11. ASSUME NEW v \in VM, UNCHANGED upsets,
              \/ CreateSecret(name) \/ CreateVirtualMachine(name, v)
              \/ UpdateVirtualMachine(name, v)
              \/ DeleteVirtualMachineAccepted(name) /\ DeleteVirtualMachine(name)
       PROVE  InfraTypeOK'
  BY <1>2, <1>11, StoreVMType
<1>12. ASSUME NEW v \in VM, StartSync(v)  PROVE HandlerTypeOK'
  BY <1>1, <1>12, StartSyncType
<1>13. Fails => HandlerTypeOK'
  BY <1>1, FailsType
<1>14. Reports => HandlerTypeOK'
  BY <1>1, ReportsType
<1>20. CASE addFinalizer
  <2>1. UpdatedMachine(version, [m EXCEPT !.finalizer = TRUE]) \in Machine \cup {Absent}
    <3>1. [m EXCEPT !.finalizer = TRUE] \in Machine
      BY <1>2 DEF Machine
    <3> QED  BY <1>2, <3>1, UpdatedMachineType
  <2> QED  BY <1>20, <2>1, <1>4, <1>5, <1>6, <1>13, <1>9, <1>10 DEF addFinalizer, WriteTenant, Lost
<1>21. CASE removeFinalizer
  <2>1. UpdatedMachine(version, [m EXCEPT !.finalizer = FALSE]) \in Machine \cup {Absent}
    <3>1. [m EXCEPT !.finalizer = FALSE] \in Machine
      BY <1>2 DEF Machine
    <3> QED  BY <1>2, <3>1, UpdatedMachineType
  <2> QED  BY <1>21, <2>1, <1>4, <1>5, <1>6, <1>13, <1>9, <1>10 DEF removeFinalizer, WriteTenant, Lost
<1>22. CASE setDeleting
  <2>1. PatchAccepted(key) => UpdatedStatus("Deleting") \in Machine
    BY <1>2, <1>3, UpdatedStatusType DEF Phases, NoPhase
  <2>2. {"drain", "getForDelete"} \subseteq PlainLabels
    BY DEF PlainLabels, Labels
  <2> QED  BY <1>22, <2>1, <2>2, <1>4, <1>5, <1>6, <1>8, <1>13, <1>9, <1>10
           DEF setDeleting, updateStatus, WriteTenant, Lost
<1>23. CASE setProvisioning
  <2>1. PatchAccepted(key) => UpdatedStatus("Provisioning") \in Machine
    BY <1>2, <1>3, UpdatedStatusType DEF Phases, NoPhase
  <2> QED  BY <1>23, <2>1, <1>4, <1>5, <1>6, <1>13, <1>9, <1>10
           DEF setProvisioning, updateStatus, WriteTenant, Lost
<1>24. CASE setRunning
  <2>1. PatchAccepted(key) => /\ UpdatedStatus("Running") \in Machine
                              /\ UpdatedStatus("Provisioned") \in Machine
    BY <1>2, <1>3, UpdatedStatusType DEF Phases, NoPhase
  <2> QED  BY <1>24, <2>1, <1>4, <1>5, <1>6, <1>9, <1>10, <1>13, <1>14
           DEF setRunning, updateStatus, WriteTenant, Lost
<1>25. CASE failStatus
  <2>1. PatchAccepted(key) => UpdatedStatus("Failed") \in Machine
    BY <1>2, <1>3, UpdatedStatusType DEF Phases, NoPhase
  <2> QED  BY <1>25, <2>1, <1>4, <1>5, <1>6, <1>13, <1>9, <1>10
           DEF failStatus, updateStatus, WriteTenant, Lost
<1>26. CASE failAnnotation
  <2>1. [m EXCEPT !.instanceState = "Unknown"] \in Machine
    BY <1>2 DEF Machine, InstanceStates
  <2>2. PatchAccepted(key) =>
          PatchedMachine(m, [m EXCEPT !.instanceState = "Unknown"], machines[key]) \in Machine
    BY <2>1, <1>2, <1>3, PatchedMachineType
  <2>3. "failStatus" \in PlainLabels
    BY DEF PlainLabels, Labels
  <2> QED  BY <1>26, <2>2, <2>3, <1>4, <1>5, <1>6, <1>8, <1>13, <1>9, <1>10
           DEF failAnnotation, WriteTenant, Lost
<1>27. CASE patchMachine
  <2>1. origin \in Machine
    BY <1>27 DEF patchMachine, HandlerTypeOK
  <2> DEFINE patched == PatchedMachine(origin, m, machines[key])
  <2>2. PatchAccepted(key) => patched \in Machine
    BY <2>1, <1>2, <1>3, PatchedMachineType
  <2>3. ASSUME patched \in Machine, pc' = "patchStatus", version' = patched,
               m' = WithStatus(Decoded(patched, m), m),
               UNCHANGED <<cache, queue, key, origin, vm>>
        PROVE  HandlerTypeOK'
    <3>1. m' \in Machine
      BY <2>3, <1>2, DecodedType, WithStatusType
    <3> HIDE DEF patched
    <3>2. Absent \notin Machine
      BY TenantAssumption
    <3>3. Absent \notin {key', m', version', origin'}
      BY <1>2, <2>1, <2>3, <3>1, <3>2, TenantAssumption
    <3> QED  BY <2>1, <2>3, <3>1, <3>3 DEF HandlerTypeOK, Labels
  <2>4. ASSUME WriteTenant(PatchAccepted(key), StoreMachine(key, patched),
                           /\ pc' = "patchStatus" /\ version' = patched
                           /\ m' = WithStatus(Decoded(patched, m), m)
                           /\ UNCHANGED <<cache, queue, key, origin, vm>>)
        PROVE  TypeOK'
    <3> HIDE DEF patched
    <3> QED  BY <2>2, <2>3, <2>4, <1>4, <1>5, <1>6, <1>13, <1>9, <1>10 DEF WriteTenant, Lost
  <2> QED  BY <1>27, <2>4 DEF patchMachine
<1>28. CASE patchStatus
  <2>1. origin \in Machine
    BY <1>28 DEF patchStatus, HandlerTypeOK
  <2>2. PatchAccepted(key) => PatchedStatus(origin, m, machines[key]) \in Machine
    BY <2>1, <1>2, <1>3, PatchedStatusType
  <2>3. {"setRunning", "reportError"} \subseteq PlainLabels
    BY DEF PlainLabels, Labels
  <2> QED  BY <1>28, <2>2, <2>3, <1>4, <1>5, <1>6, <1>8, <1>13, <1>9, <1>10
           DEF patchStatus, StatusPatchAccepted, WriteTenant, Lost
<1>29. CASE drain \/ deleteNode
  <2>1. ASSUME \/ nodes' = [nodes EXCEPT ![name] =
                               IF @ = Absent THEN Absent ELSE [@ EXCEPT !.drained = TRUE]]
               \/ nodes' = [nodes EXCEPT ![name] = Absent],
               UNCHANGED <<machines, uids, userData>>
        PROVE  TenantTypeOK'
    BY <2>1, <1>2 DEF TenantTypeOK, Node
  <2>2. {"getForDelete", "removeFinalizer"} \subseteq PlainLabels
    BY DEF PlainLabels, Labels
  <2>3. CASE drain
    BY <2>3, <2>1, <2>2, <1>4, <1>5, <1>6, <1>13, <1>7, <1>9 DEF drain, WriteTenant, Lost
  <2>4. CASE deleteNode
    BY <2>4, <2>1, <2>2, <1>4, <1>5, <1>6, <1>13, <1>7, <1>9 DEF deleteNode, WriteTenant, Lost
  <2> QED  BY <1>29, <2>3, <2>4
<1>30. CASE getForDelete
  <2>1. {"existsAfterDelete", "deleteVM"} \subseteq PlainLabels
    BY DEF PlainLabels, Labels
  <2>2. ASSUME NEW e, DeleteFails(e)  PROVE HandlerTypeOK'
    BY <2>1, <2>2, <1>6, <1>7 DEF DeleteFails
  <2>3. ASSUME NEW l \in PlainLabels, Read(Goto(l))  PROVE TypeOK'
    BY <2>3, <1>4, <1>5, <1>7 DEF Read
  <2> QED  BY <1>30, <2>1, <2>2, <2>3, <1>4, <1>5 DEF getForDelete
<1>31. CASE deleteVM
  <2>1. "existsAfterDelete" \in PlainLabels
    BY DEF PlainLabels, Labels
  <2>2. DeleteVirtualMachineAccepted(name) => vms[name] \in VM
    BY <1>2 DEF DeleteVirtualMachineAccepted, InfraTypeOK
  <2> QED  BY <1>31, <2>1, <2>2, <1>4, <1>5, <1>6, <1>7, <1>9, <1>11, <1>13
           DEF deleteVM, WriteInfra, Lost
<1>32. CASE existsAfterDelete
  <2>1. {"deleteNode", "removeFinalizer"} \subseteq PlainLabels
    BY DEF PlainLabels, Labels
  <2> QED  BY <1>32, <2>1, <1>4, <1>5, <1>6, <1>7 DEF existsAfterDelete, Read
<1>33. CASE exists
  <2>1. {"getForUpdate", "failAnnotation", "setProvisioning", "getUserData"}
          \subseteq PlainLabels
    BY DEF PlainLabels, Labels
  <2> QED  BY <1>33, <2>1, <1>4, <1>5, <1>7 DEF exists, Read
<1>34. CASE getUserData
  <2>1. {"failAnnotation", "createSecret"} \subseteq PlainLabels
    BY DEF PlainLabels, Labels
  <2>2. ASSUME NEW e, CreateFails(e)  PROVE HandlerTypeOK'
    BY <2>1, <2>2, <1>6, <1>7 DEF CreateFails
  <2>3. Restart => HandlerTypeOK'
    BY RestartType
  <2> QED  BY <1>34, <2>1, <2>2, <2>3, <1>4, <1>5, <1>7 DEF getUserData, Read
<1>35. CASE createSecret
  <2>1. "createVM" \in PlainLabels
    BY DEF PlainLabels, Labels
  <2>2. CreateSecret(name) /\ UNCHANGED upsets => InfraTypeOK'
    BY <1>2 DEF CreateSecret, InfraTypeOK
  <2> QED  BY <1>35, <2>1, <2>2, <1>4, <1>5, <1>6, <1>13, <1>7, <1>9
           DEF createSecret, WriteInfra, Lost
<1>36. CASE createVM
  <2> DEFINE v == NewVM(CreateVirtualMachineFromMachine(m.config), m.instanceState)
  <2>1. v \in VM
    BY <1>2, VMSpecType DEF NewVM, VM
  <2>2. CreateFails(WrapError("invalid")) => HandlerTypeOK'
    <3>1. "failAnnotation" \in PlainLabels
      BY DEF PlainLabels, Labels
    <3> QED  BY <3>1, <1>6, <1>7 DEF CreateFails
  <2>3. WriteInfra(CreateVirtualMachineAccepted(name), CreateVirtualMachine(name, v),
                   StartSync(v)) => TypeOK'
    <3> HIDE DEF v
    <3> QED  BY <2>1, <1>4, <1>5, <1>6, <1>13, <1>9, <1>11, <1>12 DEF WriteInfra, Lost
  <2> QED  BY <1>36, <2>2, <2>3, <1>4, <1>5 DEF createVM
<1>37. CASE getForUpdate
  <2>1. ASSUME Read(IF vms[name] = Absent THEN Fails
                    ELSE /\ pc' = "updateVM" /\ vm' = vms[name]
                         /\ UNCHANGED <<cache, queue, key, m, origin, version>>)
        PROVE  TypeOK'
    <3>1. CASE Unsent
      BY <3>1, <1>5
    <3>2. CASE Fails /\ UNCHANGED <<clusterVars, faults>>
      BY <3>2, <1>4, <1>13
    <3>3. CASE /\ vms[name] # Absent /\ pc' = "updateVM" /\ vm' = vms[name]
               /\ UNCHANGED <<cache, queue, key, m, origin, version>>
               /\ UNCHANGED <<clusterVars, faults>>
      <4>1. vms[name] \in VM /\ Absent \notin VM
        BY <3>3, <1>2, InfraAssumption DEF InfraTypeOK
      <4>2. HandlerTypeOK'
        BY <3>3, <4>1, <1>1 DEF HandlerTypeOK, Labels
      <4> QED  BY <3>3, <4>2, <1>4
    <3> QED  BY <2>1, <3>1, <3>2, <3>3 DEF Read
  <2> QED  BY <1>37, <2>1, <1>4, <1>5, <1>14 DEF getForUpdate
<1>38. CASE updateVM
  <2> DEFINE v == UpdatedVM(vm, CreateVirtualMachineFromMachine(m.config), m.instanceState)
  <2>1. v \in VM
    <3>1. vm \in VM
      BY <1>38 DEF updateVM, HandlerTypeOK
    <3> QED  BY <3>1, <1>2, VMType
  <2>2. WriteInfra(UpdateVirtualMachineAccepted(name, vm), UpdateVirtualMachine(name, v),
                   StartSync(v)) => TypeOK'
    <3> HIDE DEF v
    <3> QED  BY <2>1, <1>4, <1>5, <1>6, <1>13, <1>9, <1>11, <1>12 DEF WriteInfra, Lost
  <2> QED  BY <1>38, <2>2 DEF updateVM
<1>39. CASE getVMI
  <2>1. vm \in VM
    BY <1>39 DEF getVMI, HandlerTypeOK
  <2>2. FinishSync(vm, TRUE) => HandlerTypeOK'
    BY <2>1, <1>1, FinishSyncType
  <2> QED  BY <1>39, <2>2, <1>4, <1>5, <1>6, <1>13 DEF getVMI, Read
<1>40. CASE reportError
  <2>1. PatchAccepted(key) => UpdatedStatus("empty") \in Machine
    BY <1>2, <1>3, UpdatedStatusType DEF Phases, NoPhase
  <2> QED  BY <1>40, <2>1, <1>4, <1>5, <1>6, <1>13, <1>9, <1>10
           DEF reportError, updateStatus, WriteTenant, Lost
<1> QED
  BY <1>20, <1>21, <1>22, <1>23, <1>24, <1>25, <1>26, <1>27, <1>28, <1>29, <1>30, <1>31,
     <1>32, <1>33, <1>34, <1>35, <1>36, <1>37, <1>38, <1>39, <1>40 DEF Call

\* An upset uses up one of the upsets left (InfraCluster!Upset).
LEMMA UpsetType ==
  ASSUME InfraTypeOK, NEW kind, Upset(kind)
  PROVE  upsets' \in 0 .. MaxUpsets
<1>1. MaxUpsets \in Nat
  BY InfraAssumption
<1>2. upsets \in 0 .. MaxUpsets
  BY DEF InfraTypeOK
<1>3. upsets < MaxUpsets /\ upsets' = upsets + 1
  BY DEF Upset
<1> QED  BY <1>1, <1>2, <1>3

\* A new Node is one.
LEMMA NewNodeType == NewNode \in Node
BY DEF NewNode, Node, ProviderIDs

\* The kubelet takes no Node away and undoes no drain, and touches nothing else.
LEMMA KubeletKeeps ==
  ASSUME TenantTypeOK, NEW n \in Names, KubeletWrites(n)
  PROVE  /\ UNCHANGED <<machines, uids, userData, infraVars>>
         /\ nodes' \in [Names -> Node \cup {Absent}]
         /\ \A i \in Names : /\ nodes'[i] = Absent <=> nodes[i] = Absent
                            /\ nodes'[i].drained = nodes[i].drained
<1>1. nodes[n] \in Node
  BY DEF KubeletWrites, TenantTypeOK
<1>2. /\ [nodes[n] EXCEPT !.status = ~@] \in Node
      /\ [nodes[n] EXCEPT !.status = ~@].drained = nodes[n].drained
  BY <1>1 DEF Node
<1>3. nodes' = [nodes EXCEPT ![n] = [nodes[n] EXCEPT !.status = ~@]]
  BY DEF KubeletWrites
<1>4. nodes \in [Names -> Node \cup {Absent}] /\ Absent \notin Node
  BY TenantAssumption DEF TenantTypeOK
<1>5. nodes' \in [Names -> Node \cup {Absent}]
  BY <1>2, <1>3, <1>4
<1>6. ASSUME NEW i \in Names
      PROVE  (nodes'[i] = Absent <=> nodes[i] = Absent) /\ nodes'[i].drained = nodes[i].drained
  <2>1. CASE i = n
    BY <1>1, <1>2, <1>3, <1>4, <2>1
  <2>2. CASE i # n
    BY <1>3, <1>4, <2>2
  <2> QED  BY <2>1, <2>2
<1> QED  BY <1>5, <1>6 DEF KubeletWrites

\* The steps of the infra cluster keep the types of both clusters.
LEMMA InfraNextType ==
  ASSUME InfraTypeOK, TenantTypeOK, NEW n \in Names, InfraNext(n)
  PROVE  InfraTypeOK' /\ TenantTypeOK'
<1>1. CASE KubeVirt(n) /\ UNCHANGED tenantVars
  <2>1. InfraTypeOK'
    <3>1. CASE StartVMI(n) \/ StopVMI(n)
      BY <3>1 DEF StartVMI, StopVMI, InfraTypeOK, VMIs
    <3>2. CASE SyncVMStatus(n)
      <4>1. [vms[n] EXCEPT !.created = (vmis[n] # "none"), !.ready = (vmis[n] = "ready")] \in VM
        BY <3>2 DEF SyncVMStatus, InfraTypeOK, VM
      <4> QED  BY <3>2, <4>1 DEF SyncVMStatus, InfraTypeOK
    <3>3. CASE FinishVM(n)
      BY <3>3 DEF FinishVM, InfraTypeOK
    <3> QED  BY <1>1, <3>1, <3>2, <3>3 DEF KubeVirt
  <2> QED  BY <1>1, <2>1, ClustersUnchanged
<1>2. CASE FailVMI(n) /\ UNCHANGED tenantVars
  <2>1. InfraTypeOK'
    BY <1>2, UpsetType DEF FailVMI, InfraTypeOK, VMIs
  <2> QED  BY <1>2, <2>1, ClustersUnchanged
<1>3. CASE DropVM(n) /\ UNCHANGED tenantVars
  <2>1. upsets' \in 0 .. MaxUpsets
    BY <1>3, UpsetType DEF DropVM
  <2>2. vms[n] \in VM
    BY <1>3 DEF DropVM, DeleteVirtualMachineAccepted, InfraTypeOK
  <2>3. [vms[n] EXCEPT !.terminating = TRUE] \in VM
    BY <2>2 DEF VM
  <2> QED  BY <1>3, <2>1, <2>3, ClustersUnchanged DEF DropVM, DeleteVirtualMachine, InfraTypeOK
<1>4. CASE BootGuest(n)
  <2>1. InfraTypeOK'
    BY <1>4 DEF BootGuest, InfraTypeOK, VMIs
  <2> QED  BY <1>4, <2>1, NewNodeType DEF BootGuest, TenantTypeOK
<1>5. CASE KubeletWrites(n)
  <2>1. InfraTypeOK'
    BY <1>5, UpsetType DEF KubeletWrites, InfraTypeOK, infraVars
  <2> QED  BY <1>5, <2>1, KubeletKeeps DEF TenantTypeOK
<1> QED  BY <1>1, <1>2, <1>3, <1>4, <1>5 DEF InfraNext

\* So do the steps of the tenant cluster.
LEMMA TenantNextType ==
  ASSUME InfraTypeOK, TenantTypeOK, NEW k \in Machines, TenantNext(k)
  PROVE  InfraTypeOK' /\ TenantTypeOK'
<1>1. machines[k] # Absent => machines[k] \in Machine
  BY DEF TenantTypeOK
<1>2. CASE UserCreates(k)
  <2>1. ASSUME NEW c \in Configs  PROVE NewMachine(k, c) \in Machine
    <3>1. uids[k] + 1 \in Nat
      <4>1. MaxIncarnations \in Nat /\ uids[k] \in 0 .. MaxIncarnations
        BY TenantAssumption DEF TenantTypeOK
      <4> QED  BY <4>1
    <3>2. c \in Config
      BY TenantAssumption
    <3> QED  BY <3>1, <3>2 DEF NewMachine, Machine, InstanceStates, Phases, NoPhase, ProviderIDs
  <2>2. uids' \in [Machines -> 0 .. MaxIncarnations]
    BY <1>2, TenantAssumption DEF UserCreates, TenantTypeOK
  <2>3. machines' \in [Machines -> Machine \cup {Absent}]
    BY <1>2, <2>1 DEF UserCreates, TenantTypeOK
  <2> QED  BY <1>2, <2>2, <2>3, ClustersUnchanged DEF UserCreates, TenantTypeOK
<1>3. CASE UserDeletes(k)
  <2>1. [machines[k] EXCEPT !.deleted = TRUE] \in Machine
    BY <1>1, <1>3 DEF UserDeletes, Machine
  <2> QED  BY <1>3, <2>1, ClustersUnchanged DEF UserDeletes, TenantTypeOK
<1>4. CASE UserEdits(k)
  <2>1. ASSUME NEW c \in Configs  PROVE [machines[k] EXCEPT !.config = c] \in Machine
    BY <1>1, <1>4, TenantAssumption DEF UserEdits, Machine
  <2>2. machines' \in [Machines -> Machine \cup {Absent}]
    BY <1>4, <2>1 DEF UserEdits, TenantTypeOK
  <2>3. InfraTypeOK'
    BY <1>4, UpsetType DEF UserEdits, InfraTypeOK, infraVars
  <2> QED  BY <1>4, <2>2, <2>3 DEF UserEdits, TenantTypeOK
<1>5. CASE UserEditsUserData
  BY <1>5, UpsetType DEF UserEditsUserData, InfraTypeOK, TenantTypeOK, infraVars
<1>6. CASE NodeLink(k)
  <2>1. [machines[k] EXCEPT !.nodeRef = TRUE] \in Machine
    BY <1>1, <1>6 DEF NodeLink, Machine
  <2> QED  BY <1>6, <2>1, ClustersUnchanged DEF NodeLink, TenantTypeOK
<1>7. CASE NodeUnlink(k)
  <2>1. [machines[k] EXCEPT !.nodeRef = FALSE] \in Machine
    BY <1>1, <1>7 DEF NodeUnlink, Machine
  <2> QED  BY <1>7, <2>1, ClustersUnchanged DEF NodeUnlink, TenantTypeOK
<1> QED  BY <1>2, <1>3, <1>4, <1>5, <1>6, <1>7 DEF TenantNext

\* Every step keeps the types: one case per kind of step.
LEMMA TypeStep ==
  ASSUME TypeOK, [Next]_vars
  PROVE  TypeOK'
<1>1. CASE Call
  BY <1>1, CallType
<1>2. ASSUME NEW k \in Machines, Reconcile(k)
      PROVE  TypeOK'
  <2>1. HandlerTypeOK'
    <3>1. cache[k] \in Machine \cup {Absent} /\ Absent \notin Machines
      BY TenantAssumption DEF TypeOK, WorkerTypeOK, HandlerTypeOK
    <3>2. /\ queue' \subseteq Machines /\ cache' = cache
          /\ vm' = vm /\ origin' = origin
      BY <1>2 DEF Reconcile, TypeOK, WorkerTypeOK, HandlerTypeOK, localVars
    <3>3. CASE UNCHANGED localVars
      BY <3>2, <3>3 DEF TypeOK, WorkerTypeOK, HandlerTypeOK, localVars
    <3>4. CASE /\ pc' \in {"setDeleting", "addFinalizer", "exists"}
               /\ key' = k /\ m' = cache[k] /\ version' = cache[k] /\ cache[k] # Absent
      BY <3>1, <3>2, <3>4 DEF TypeOK, WorkerTypeOK, HandlerTypeOK, Labels
    <3> QED  BY <3>3, <3>4, <1>2 DEF Reconcile
  <2> QED  BY <1>2, <2>1, ClustersUnchanged DEF Reconcile, TypeOK, WorkerTypeOK
<1>3. ASSUME NEW k \in Machines, Sync(k) \/ Resync(k)
      PROVE  TypeOK'
  <2>1. HandlerTypeOK'
    BY <1>3 DEF Sync, Resync, TypeOK, TenantTypeOK, WorkerTypeOK, HandlerTypeOK, localVars
  <2> QED  BY <1>3, <2>1, ClustersUnchanged DEF Sync, Resync, TypeOK, WorkerTypeOK
<1>4. CASE Crash
  BY <1>4, RestartType, FaultType, ClustersUnchanged DEF Crash, TypeOK, WorkerTypeOK
<1>5. ASSUME NEW n \in Names, InfraNext(n)
      PROVE  TypeOK'
  <2>1. InfraTypeOK' /\ TenantTypeOK'
    BY <1>5, InfraNextType DEF TypeOK
  <2>2. UNCHANGED <<workerVars, faults>>
    BY <1>5 DEF InfraNext
  <2> QED  BY <2>1, <2>2
           DEF TypeOK, WorkerTypeOK, HandlerTypeOK, workerVars, localVars
<1>6. ASSUME NEW k \in Machines, TenantNext(k)
      PROVE  TypeOK'
  <2>1. InfraTypeOK' /\ TenantTypeOK'
    BY <1>6, TenantNextType DEF TypeOK
  <2>2. UNCHANGED <<workerVars, faults>>
    BY <1>6 DEF TenantNext
  <2> QED  BY <2>1, <2>2
           DEF TypeOK, WorkerTypeOK, HandlerTypeOK, workerVars, localVars
<1>7. CASE UNCHANGED vars
  BY <1>7 DEF vars, clusterVars, infraVars, tenantVars, workerVars, localVars, TypeOK,
              InfraTypeOK, TenantTypeOK, WorkerTypeOK, HandlerTypeOK
<1> QED  BY <1>1, <1>2, <1>3, <1>4, <1>5, <1>6, <1>7 DEF Next, ControllerNext

\* TypeOK holds in every reachable state, whatever the numbers of Machines, names,
\* configurations, faults, upsets and incarnations: in particular no step of Reconcile
\* dereferences a Machine, a VirtualMachine or an originMachineCopy it does not have.
THEOREM TypeCorrect == Spec => []TypeOK
<1>1. Init => TypeOK
  BY InfraAssumption, TenantAssumption, WorkerAssumption
  DEF Init, InfraInit, TenantInit, WorkerInit, TypeOK, InfraTypeOK, TenantTypeOK,
      WorkerTypeOK, HandlerTypeOK, Labels, VMIs
<1>2. TypeOK /\ [Next]_vars => TypeOK'
  BY TypeStep
<1> QED  BY <1>1, <1>2, PTL DEF Spec
=============================================================================
