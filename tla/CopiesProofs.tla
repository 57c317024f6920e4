---------------------------- MODULE CopiesProofs ----------------------------
(***************************************************************************)
(* What the copies of a Machine - the stored one, the cached one and the   *)
(* one a Reconcile works on - still say truly when they are acted upon,    *)
(* for any number of Machines, names, configurations, faults, upsets and   *)
(* incarnations.                                                           *)
(*                                                                         *)
(* A provider ID, an address or a Node reference in any copy means that    *)
(* the name was used, for good.  From this follows that a VirtualMachine   *)
(* is never replaced, that a Machine fails only without one, and that it   *)
(* is drained before it is deleted.  What a call stores, what it leaves    *)
(* the handler with and how each call is reached is stated once, for the   *)
(* invariants below and those of PhaseProofs.                              *)
(***************************************************************************)
EXTENDS LifecycleProofs

-----------------------------------------------------------------------------
(* What a call stores. *)

Stores(o) == machines' = [machines EXCEPT ![key] = o]

\* The phases the calls of updateStatus write.
Writes(p) ==
  \/ pc = "setDeleting" /\ p = "Deleting"
  \/ pc = "setProvisioning" /\ p = "Provisioning"
  \/ pc = "setRunning" /\ machineIsProvisioned(m) /\ p \in {"Provisioned", "Running"}
  \/ pc = "failStatus" /\ p = "Failed"
  \/ pc = "reportError" /\ p = "empty"

\* The finalizer, a phase, or what the two patches of an Update carry.
StoredByCall ==
  \/ UNCHANGED machines
  \/ /\ pc \in {"addFinalizer", "removeFinalizer"} /\ pc' = "idle"
     /\ machines[key] = version /\ (m.deleted => version.deleted)
     /\ Stores(UpdatedMachine(version, [m EXCEPT !.finalizer = (pc = "addFinalizer")]))
  \/ /\ machines[key] \in Machine
     /\ \/ \E p \in Phases : Writes(p) /\ Stores(UpdatedStatus(p))
        \/ /\ pc = "failAnnotation"
           /\ Stores(PatchedMachine(m, [m EXCEPT !.instanceState = "Unknown"], machines[key]))
        \/ pc = "patchMachine" /\ Stores(PatchedMachine(origin, m, machines[key]))
        \/ pc = "patchStatus" /\ Stores(PatchedStatus(origin, m, machines[key]))

\* Every call stores one of these, or no Machine at all.
LEMMA CallStores ==
  ASSUME TypeOK, Call
  PROVE  StoredByCall
<1> USE DEF StoredByCall
<1>1. pc # "idle" /\ key \in Machines
  BY CallFrame, HandlerObjects DEF TypeOK, WorkerTypeOK
<1>2. PatchAccepted(key) => machines[key] \in Machine
  BY <1>1 DEF PatchAccepted, TypeOK, TenantTypeOK
<1>3. Refused \/ Unsent \/ Panic => UNCHANGED machines
  BY DEF Refused, Unsent, Panic, clusterVars, tenantVars
<1>4. UNCHANGED clusterVars \/ UNCHANGED tenantVars => UNCHANGED machines
  BY DEF clusterVars, tenantVars
<1>5. ASSUME NEW o, StoreMachine(key, o)  PROVE Stores(o)
  BY <1>5 DEF StoreMachine, Stores
<1>6. ASSUME NEW p, NEW then, updateStatus(p, then), Writes(p)  PROVE StoredByCall
  <2>1. p \in Phases
    BY <1>6 DEF Writes, Phases, NoPhase
  <2> QED  BY <1>2, <1>3, <1>5, <1>6, <2>1 DEF updateStatus, WriteTenant, Lost
<1>7. CASE addFinalizer
  <2> DEFINE o == UpdatedMachine(version, [m EXCEPT !.finalizer = TRUE])
  <2>1. pc = "addFinalizer" /\ o = UpdatedMachine(version, [m EXCEPT !.finalizer = (pc = "addFinalizer")])
    BY <1>7 DEF addFinalizer
  <2>2. WriteTenant(UpdateAccepted(key, version, m), StoreMachine(key, o), Return(FALSE))
    BY <1>7 DEF addFinalizer
  <2> HIDE DEF o
  <2>3. Fails \/ Return(FALSE) => pc' = "idle"
    BY <2>1 DEF Fails, ReportedCalls, UpdateCalls, Return, Done
  <2> QED  BY <1>3, <1>5, <2>1, <2>2, <2>3 DEF WriteTenant, Lost, UpdateAccepted
<1>8. CASE removeFinalizer
  <2> DEFINE o == UpdatedMachine(version, [m EXCEPT !.finalizer = FALSE])
  <2>1. pc = "removeFinalizer" /\ o = UpdatedMachine(version, [m EXCEPT !.finalizer = (pc = "addFinalizer")])
    BY <1>8 DEF removeFinalizer
  <2>2. WriteTenant(UpdateAccepted(key, version, m), StoreMachine(key, o), Return(FALSE))
    BY <1>8 DEF removeFinalizer
  <2> HIDE DEF o
  <2>3. Fails \/ Return(FALSE) => pc' = "idle"
    BY <2>1 DEF Fails, ReportedCalls, UpdateCalls, Return, Done
  <2> QED  BY <1>3, <1>5, <2>1, <2>2, <2>3 DEF WriteTenant, Lost, UpdateAccepted
<1>9. CASE setDeleting
  BY <1>6, <1>9 DEF setDeleting, Writes
<1>10. CASE setProvisioning \/ failStatus \/ reportError
  BY <1>6, <1>10 DEF setProvisioning, failStatus, reportError, Writes
<1>11. CASE setRunning
  BY <1>4, <1>6, <1>11 DEF setRunning, Writes
<1>12. CASE failAnnotation
  BY <1>2, <1>3, <1>5, <1>12 DEF failAnnotation, WriteTenant, Lost
<1>13. CASE patchMachine
  BY <1>2, <1>3, <1>5, <1>13 DEF patchMachine, WriteTenant, Lost
<1>14. CASE patchStatus
  BY <1>2, <1>3, <1>5, <1>14 DEF patchStatus, WriteTenant, Lost, StatusPatchAccepted
<1>15. CASE drain \/ deleteNode
  BY <1>3, <1>4, <1>15 DEF drain, deleteNode, WriteTenant, Lost
<1>16. CASE createSecret \/ createVM \/ updateVM \/ deleteVM
  BY <1>3, <1>4, <1>16 DEF createSecret, createVM, updateVM, deleteVM, WriteInfra, Lost
<1>17. CASE getForDelete \/ existsAfterDelete \/ exists \/ getUserData \/ getForUpdate \/ getVMI
  BY <1>3, <1>4, <1>17
  DEF getForDelete, existsAfterDelete, exists, getUserData, getForUpdate, getVMI, Read
<1> QED
  BY <1>7, <1>8, <1>9, <1>10, <1>11, <1>12, <1>13, <1>14, <1>15, <1>16, <1>17 DEF Call

-----------------------------------------------------------------------------
(* What a call leaves the handler with, and how each call is reached. *)

\* A Reconcile ends, with the cache as it is or, restarted, as the Machines are.
CallEnds == pc' = "idle" /\ (cache' = cache \/ (cache' = machines /\ UNCHANGED machines))

\* It goes on with the copy as it was; with the answer decoded into the copy; with the copy
\* put together for the second patch; or with the copy SyncMachine has brought up to date.
Unread == m' = m /\ version' = version
Answered ==
  /\ pc \in {"setDeleting", "failAnnotation", "patchStatus"}
  /\ machines'[key] \in Machine
  /\ m' = Decoded(machines'[key], m) /\ version' = machines'[key] /\ UNCHANGED <<origin, vm>>
HalfPatched ==
  /\ pc = "patchMachine" /\ pc' = "patchStatus"
  /\ machines'[key] \in Machine
  /\ version' = machines'[key] /\ m' = WithStatus(Decoded(machines'[key], m), m)
  /\ UNCHANGED <<origin, vm>>
Synced ==
  /\ pc' = "patchMachine"
  /\ \/ createVM \/ (pc = "updateVM" /\ vms[name] # Absent)
     \/ pc = "getVMI" /\ vmis[name] # "none"
  /\ \E v \in VM : \E b \in BOOLEAN :
       /\ b \/ ~v.ready
       /\ FinishSync(v, b)
CallGoesOn ==
  /\ pc' # "idle" /\ UNCHANGED <<cache, key>>
  /\ Unread \/ Answered \/ HalfPatched \/ Synced

\* Reached how: what a call is preceded by, and what was found there.
Arrival ==
  /\ pc' = "drain" => pc = "setDeleting"
  /\ pc' = "getForDelete" =>
       \/ pc = "setDeleting" /\ ~(m'.nodeRef /\ ~m'.config.excludeNodeDraining)
       \/ /\ pc = "drain" /\ Unread /\ UNCHANGED vms
          /\ nodes' = [nodes EXCEPT ![name] =
                         IF @ = Absent THEN Absent ELSE [@ EXCEPT !.drained = TRUE]]
  /\ pc' = "deleteVM" => pc = "getForDelete" /\ vms[name] # Absent /\ Unread
  /\ pc' = "existsAfterDelete" => pc \in {"getForDelete", "deleteVM"} /\ Unread
  /\ pc' = "deleteNode" => pc = "existsAfterDelete" /\ Unread
  /\ pc' = "removeFinalizer" => pc \in {"existsAfterDelete", "deleteNode"} /\ Unread
  /\ pc' \notin {"addFinalizer", "setDeleting", "exists"}
  /\ pc' = "setProvisioning" => pc = "exists" /\ Unread
  /\ pc' = "getUserData" => pc = "exists" /\ Unread
  /\ pc' \in {"createSecret", "createVM"} => pc \in {"getUserData", "createSecret"} /\ Unread
  /\ pc' = "getForUpdate" => pc = "exists" /\ vms[name] # Absent /\ Unread
  /\ pc' = "updateVM" =>
       /\ pc = "getForUpdate" /\ BuildOutcome(m.config) = "ok" /\ vm' = vms[name] /\ Unread
       /\ UNCHANGED vms
  /\ pc' = "getVMI" => pc = "updateVM" /\ vm'.ready /\ Unread
  /\ pc' = "patchMachine" =>
       \/ Synced
       \/ pc \in UpdateCalls /\ Unread /\ origin' = m /\ vm' = Absent
  /\ pc' = "patchStatus" => HalfPatched
  /\ pc' = "setRunning" => pc = "patchStatus" /\ vm # Absent /\ vm.ready /\ Answered
  /\ pc' = "failAnnotation" =>
       pc = "exists" /\ vms[name] = Absent /\ machineIsProvisioned(m) /\ Unread
  /\ pc' = "failStatus" => pc = "failAnnotation" /\ Answered
  /\ pc' = "reportError" =>
       \/ pc \in ReportedCalls \cup {"getForUpdate", "setRunning"} /\ Unread
       \/ pc = "patchStatus" /\ Answered

Continues == CallEnds \/ (CallGoesOn /\ Arrival)

\* Every call continues in one of these ways.
LEMMA CallContinues ==
  ASSUME TypeOK, Call
  PROVE  Continues
<1>1. pc # "idle" /\ key \in Machines /\ name \in Names /\ m \in Machine
  BY CallFrame, HandlerObjects DEF TypeOK, WorkerTypeOK
<1>2. PatchAccepted(key) => machines[key] \in Machine
  BY <1>1 DEF PatchAccepted, TypeOK, TenantTypeOK
<1>3. ASSUME NEW r, Return(r)  PROVE Continues
  BY <1>3 DEF Return, Done, Continues, CallEnds
<1>4. Panic \/ (Restart /\ UNCHANGED clusterVars) => Continues
  BY DEF Panic, Restart, Done, clusterVars, tenantVars, Continues, CallEnds
<1>5. ASSUME Goto("reportError"), pc \in ReportedCalls \cup {"getForUpdate", "setRunning"}
      PROVE  Continues
  BY <1>5 DEF Goto, Continues, CallGoesOn, Unread, Arrival
<1>6. Fails => Continues
  <2>1. CASE pc \in ReportedCalls
    <3>1. Fails => Reports
      BY <2>1 DEF Fails, ReportedCalls, UpdateCalls
    <3> QED  BY <1>3, <1>5, <2>1, <3>1 DEF Reports
  <2>2. CASE pc \in UpdateCalls
    <3>1. Fails => PatchAfterError
      BY <2>2 DEF Fails, ReportedCalls, UpdateCalls
    <3> QED  BY <1>3, <2>2, <3>1
             DEF PatchAfterError, Continues, CallGoesOn, Unread, Arrival
  <2>3. CASE pc \notin ReportedCalls \cup UpdateCalls
    BY <1>3, <2>3 DEF Fails
  <2> QED  BY <2>1, <2>2, <2>3
<1>7. Refused \/ Unsent => Continues
  BY <1>6 DEF Refused, Unsent
<1>8. ASSUME NEW o \in Machine, StoreMachine(key, o)  PROVE machines'[key] = o
  BY <1>1, <1>8 DEF StoreMachine, TypeOK, TenantTypeOK
<1>9. ASSUME NEW p \in Phases, PatchAccepted(key)  PROVE UpdatedStatus(p) \in Machine
  BY <1>1, <1>2, <1>9, UpdatedStatusType
<1>20. CASE addFinalizer \/ removeFinalizer
  BY <1>3, <1>6, <1>7, <1>20 DEF addFinalizer, removeFinalizer, WriteTenant, Lost
<1>21. CASE setProvisioning \/ failStatus \/ reportError
  BY <1>3, <1>6, <1>7, <1>21
  DEF setProvisioning, failStatus, reportError, updateStatus, WriteTenant, Lost
<1>22. CASE setRunning
  <2>1. pc = "setRunning"
    BY <1>22 DEF setRunning
  <2> QED  BY <1>3, <1>5, <1>6, <1>7, <1>22, <2>1
           DEF setRunning, Reports, updateStatus, WriteTenant, Lost
<1>23. CASE setDeleting
  <2> DEFINE answer == UpdatedStatus("Deleting")
             copy == Decoded(answer, m)
             label == IF copy.nodeRef /\ ~copy.config.excludeNodeDraining
                      THEN "drain" ELSE "getForDelete"
  <2>1. pc = "setDeleting"
        /\ WriteTenant(PatchAccepted(key), StoreMachine(key, answer),
                       IF ~copy.finalizer THEN Return(FALSE) ELSE GotoWith(label, answer))
    BY <1>23 DEF setDeleting, updateStatus
  <2>2. PatchAccepted(key) => answer \in Machine
    BY <1>9 DEF Phases, NoPhase
  <2>3. ASSUME answer \in Machine, StoreMachine(key, answer), GotoWith(label, answer)
        PROVE  Continues
    <3>1. machines'[key] = answer /\ m' = copy /\ pc' = label
      BY <1>8, <2>3 DEF GotoWith
    <3>2. CallGoesOn
      BY <2>1, <2>3, <3>1 DEF GotoWith, CallGoesOn, Answered
    <3> HIDE DEF answer
    <3>3. pc' = "drain" \/ (pc' = "getForDelete" /\ ~(m'.nodeRef /\ ~m'.config.excludeNodeDraining))
      BY <3>1
    <3> QED  BY <2>1, <3>2, <3>3 DEF Continues, Arrival
  <2> HIDE DEF answer, copy, label
  <2> QED  BY <1>3, <1>6, <1>7, <2>1, <2>2, <2>3 DEF WriteTenant, Lost
<1>24. CASE failAnnotation
  <2> DEFINE patched == PatchedMachine(m, [m EXCEPT !.instanceState = "Unknown"], machines[key])
  <2>1. /\ pc = "failAnnotation"
        /\ WriteTenant(PatchAccepted(key), StoreMachine(key, patched),
                       GotoWith("failStatus", patched))
    BY <1>24 DEF failAnnotation
  <2>2. PatchAccepted(key) => patched \in Machine
    <3>1. [m EXCEPT !.instanceState = "Unknown"] \in Machine
      BY <1>1 DEF Machine, InstanceStates
    <3> QED  BY <1>1, <1>2, <3>1, PatchedMachineType
  <2> HIDE DEF patched
  <2>3. ASSUME patched \in Machine, StoreMachine(key, patched), GotoWith("failStatus", patched)
        PROVE  Continues
    BY <1>8, <2>1, <2>3 DEF GotoWith, Continues, CallGoesOn, Answered, Arrival
  <2> QED  BY <1>6, <1>7, <2>1, <2>2, <2>3 DEF WriteTenant, Lost
<1>25. CASE patchMachine
  <2> DEFINE patched == PatchedMachine(origin, m, machines[key])
             then == /\ pc' = "patchStatus" /\ version' = patched
                     /\ m' = WithStatus(Decoded(patched, m), m)
                     /\ UNCHANGED <<cache, queue, key, origin, vm>>
  <2>1. pc = "patchMachine" /\ WriteTenant(PatchAccepted(key), StoreMachine(key, patched), then)
    BY <1>25 DEF patchMachine
  <2>2. PatchAccepted(key) => patched \in Machine
    <3>1. origin \in Machine
      BY <2>1 DEF TypeOK, WorkerTypeOK, HandlerTypeOK
    <3> QED  BY <1>1, <1>2, <3>1, PatchedMachineType
  <2>3. ASSUME patched \in Machine, StoreMachine(key, patched), then
        PROVE  Continues
    <3> HIDE DEF patched
    <3> QED  BY <1>8, <2>1, <2>3 DEF Continues, CallGoesOn, HalfPatched, Arrival
  <2> HIDE DEF patched, then
  <2> QED  BY <1>6, <1>7, <2>1, <2>2, <2>3 DEF WriteTenant, Lost
<1>26. CASE patchStatus
  <2> DEFINE patched == PatchedStatus(origin, m, machines[key])
  <2>1. /\ pc = "patchStatus"
        /\ WriteTenant(StatusPatchAccepted, StoreMachine(key, patched),
                       IF vm # Absent /\ vm.ready THEN GotoWith("setRunning", patched)
                       ELSE IF Decoded(patched, m).phase = "" THEN GotoWith("reportError", patched)
                       ELSE Return(TRUE))
    BY <1>26 DEF patchStatus
  <2>2. StatusPatchAccepted => patched \in Machine
    <3>1. origin \in Machine
      BY <2>1 DEF TypeOK, WorkerTypeOK, HandlerTypeOK
    <3> QED  BY <1>1, <1>2, <3>1, PatchedStatusType DEF StatusPatchAccepted
  <2> HIDE DEF patched
  <2>3. ASSUME patched \in Machine, StoreMachine(key, patched),
               \/ vm # Absent /\ vm.ready /\ GotoWith("setRunning", patched)
               \/ GotoWith("reportError", patched)
        PROVE  Continues
    BY <1>8, <2>1, <2>3 DEF GotoWith, Continues, CallGoesOn, Answered, Arrival
  <2> QED  BY <1>3, <1>6, <1>7, <2>1, <2>2, <2>3 DEF WriteTenant, Lost
<1>27. CASE drain
  <2>1. ASSUME Goto("getForDelete"), UNCHANGED infraVars,
               nodes' = [nodes EXCEPT ![name] =
                           IF @ = Absent THEN Absent ELSE [@ EXCEPT !.drained = TRUE]]
        PROVE  Continues
    BY <1>27, <2>1 DEF drain, Goto, infraVars, Continues, CallGoesOn, Unread, Arrival
  <2> QED  BY <1>6, <1>7, <1>27, <2>1 DEF drain, WriteTenant, Lost
<1>28. CASE deleteNode \/ deleteVM \/ createSecret
  <2>1. \/ pc = "deleteNode" /\ Goto("removeFinalizer")
        \/ pc = "deleteVM" /\ Goto("existsAfterDelete")
        \/ pc = "createSecret" /\ Goto("createVM")
        => Continues
    BY DEF Goto, Continues, CallGoesOn, Unread, Arrival
  <2> QED  BY <1>6, <1>7, <1>28, <2>1
           DEF deleteNode, deleteVM, createSecret, WriteTenant, WriteInfra, Lost
<1>29. CASE getForDelete
  <2>1. \/ Goto("existsAfterDelete")
        \/ vms[name] # Absent /\ Goto("deleteVM")
        => Continues
    BY <1>29 DEF getForDelete, Goto, Continues, CallGoesOn, Unread, Arrival
  <2> QED  BY <1>3, <1>4, <1>7, <1>29, <2>1 DEF getForDelete, DeleteFails, Read
<1>30. CASE existsAfterDelete
  <2>1. Goto("deleteNode") \/ Goto("removeFinalizer") => Continues
    BY <1>30 DEF existsAfterDelete, Goto, Continues, CallGoesOn, Unread, Arrival
  <2> QED  BY <1>3, <1>7, <1>30, <2>1 DEF existsAfterDelete, Read
<1>31. CASE exists
  <2>1. \/ vms[name] # Absent /\ Goto("getForUpdate")
        \/ vms[name] = Absent /\ machineIsProvisioned(m) /\ Goto("failAnnotation")
        \/ Goto("setProvisioning") \/ Goto("getUserData")
        => Continues
    BY <1>31 DEF exists, Goto, Continues, CallGoesOn, Unread, Arrival
  <2> QED  BY <1>7, <1>31, <2>1 DEF exists, Read
<1>32. CASE getUserData
  <2>1. Goto("createSecret") => Continues
    BY <1>32 DEF getUserData, Goto, Continues, CallGoesOn, Unread, Arrival
  <2>2. ASSUME NEW e, CreateFails(e)  PROVE Continues
    BY <1>3, <2>2 DEF CreateFails, isInvalidMachineConfigurationError, HandleMachineError
  <2>3. UNCHANGED <<clusterVars, faults>> => UNCHANGED clusterVars
    OBVIOUS
  <2> QED  BY <1>4, <1>7, <1>32, <2>1, <2>2, <2>3 DEF getUserData, Read
<1>33. CASE createVM
  <2> DEFINE v == NewVM(CreateVirtualMachineFromMachine(m.config), m.instanceState)
  <2>1. v \in VM /\ ~v.ready
    <3>1. m.config \in Config /\ m.instanceState \in InstanceStates
      BY <1>1 DEF Machine
    <3> QED  BY <3>1, VMSpecType DEF NewVM, VM
  <2>2. CreateFails(WrapError("invalid")) => Continues
    BY <1>3 DEF CreateFails, isInvalidMachineConfigurationError, HandleMachineError
  <2>3. StartSync(v) => Synced /\ UNCHANGED <<cache, key>>
    <3> HIDE DEF v
    <3> QED  BY <1>33, <2>1 DEF StartSync, Synced, FinishSync
  <2>4. Synced /\ UNCHANGED <<cache, key>> => Continues
    BY DEF Synced, Continues, CallGoesOn, Arrival
  <2> HIDE DEF v
  <2>5. CASE WriteInfra(CreateVirtualMachineAccepted(name), CreateVirtualMachine(name, v),
                        StartSync(v))
    BY <1>6, <1>7, <2>3, <2>4, <2>5 DEF WriteInfra, Lost
  <2> QED  BY <1>4, <1>33, <2>2, <2>5 DEF createVM, v
<1>34. CASE getForUpdate
  <2>1. ASSUME BuildOutcome(m.config) = "ok", pc' = "updateVM", vm' = vms[name],
               UNCHANGED <<cache, queue, key, m, origin, version>>, UNCHANGED clusterVars
        PROVE  Continues
    BY <1>34, <2>1
    DEF getForUpdate, clusterVars, infraVars, Continues, CallGoesOn, Unread, Arrival
  <2>2. Reports => Continues
    BY <1>3, <1>5, <1>34 DEF getForUpdate, Reports
  <2> QED  BY <1>4, <1>6, <1>7, <1>34, <2>1, <2>2 DEF getForUpdate, Read
<1>35. CASE updateVM
  <2> DEFINE v == UpdatedVM(vm, CreateVirtualMachineFromMachine(m.config), m.instanceState)
  <2>1. v \in VM /\ vm # Absent /\ pc = "updateVM"
    <3>1. vm \in VM /\ vm # Absent
      BY <1>35, InfraAssumption DEF updateVM, TypeOK, WorkerTypeOK, HandlerTypeOK
    <3>2. m.config \in Config /\ m.instanceState \in InstanceStates
      BY <1>1 DEF Machine
    <3> QED  BY <1>35, <3>1, <3>2, VMType DEF updateVM
  <2>2. WriteInfra(UpdateVirtualMachineAccepted(name, vm), UpdateVirtualMachine(name, v),
                   StartSync(v))
    BY <1>35 DEF updateVM
  <2> HIDE DEF v
  <2>3. ASSUME UpdateVirtualMachineAccepted(name, vm), StartSync(v), v.ready  PROVE Continues
    BY <2>1, <2>3 DEF StartSync, Continues, CallGoesOn, Unread, Arrival
  <2>4. ASSUME UpdateVirtualMachineAccepted(name, vm), StartSync(v), ~v.ready
        PROVE  Synced /\ UNCHANGED <<cache, key>>
    BY <2>1, <2>4 DEF UpdateVirtualMachineAccepted, StartSync, FinishSync, Synced
  <2>5. Synced /\ UNCHANGED <<cache, key>> => Continues
    BY DEF Synced, Continues, CallGoesOn, Arrival
  <2> QED  BY <1>6, <1>7, <2>2, <2>3, <2>4, <2>5 DEF WriteInfra, Lost
<1>36. CASE getVMI
  <2>1. vm \in VM /\ pc = "getVMI"
    BY <1>36 DEF getVMI, TypeOK, WorkerTypeOK, HandlerTypeOK
  <2>2. vmis[name] # "none" /\ FinishSync(vm, TRUE) => Synced /\ UNCHANGED <<cache, key>>
    BY <2>1 DEF FinishSync, Synced
  <2>3. Synced /\ UNCHANGED <<cache, key>> => Continues
    BY DEF Synced, Continues, CallGoesOn, Arrival
  <2> QED  BY <1>6, <1>7, <1>36, <2>2, <2>3 DEF getVMI, Read
<1> QED
  BY <1>20, <1>21, <1>22, <1>23, <1>24, <1>25, <1>26, <1>27, <1>28, <1>29, <1>30, <1>31,
     <1>32, <1>33, <1>34, <1>35, <1>36 DEF Call


-----------------------------------------------------------------------------
(* What the copies say stays true. *)

\* The name was used, and its Node is there or its VirtualMachine is gone for good.
Linked(n) == n \in Used /\ (nodes[n] # Absent \/ vms[n] = Absent)

\* What a copy of a Machine of the name n rightly says.
Sound(x, n) == (machineIsProvisioned(x) => n \in Used) /\ (x.nodeRef => Linked(n))

CopiesInv ==
  /\ \A k \in Machines : /\ Has(machines[k]) => Sound(machines[k], NameOf[k])
                         /\ Has(cache[k]) => Sound(cache[k], NameOf[k])
  /\ pc # "idle" => Sound(m, name)

\* A copy put together from two others says no more than they do.
From(x, a, s) ==
  /\ machineIsProvisioned(x) => machineIsProvisioned(a) \/ machineIsProvisioned(s)
  /\ x.nodeRef => a.nodeRef \/ s.nodeRef

\* That is how the patches, updates and answers put them together.
LEMMA PutTogether ==
  ASSUME NEW a \in Machine, NEW b \in Machine, NEW s \in Machine
  PROVE  /\ From(PatchedMachine(b, a, s), a, s)
         /\ From(PatchedStatus(b, a, s), a, s)
         /\ From(Decoded(s, a), a, s)
         /\ From(WithStatus(Decoded(s, a), a), a, s)
         /\ UpdatedMachine(s, a) # Absent => From(UpdatedMachine(s, a), a, s)
<1>1. From(PatchedMachine(b, a, s), a, s) /\ From(PatchedStatus(b, a, s), a, s)
  BY DEF From, PatchedMachine, PatchedStatus, Delta, machineIsProvisioned, Machine
<1>2. From(Decoded(s, a), a, s)
  BY DEF From, Decoded, Kept, machineIsProvisioned, Machine
<1>3. From(WithStatus(Decoded(s, a), a), a, s)
  <2>1. Decoded(s, a) \in Machine
    BY DecodedType
  <2>2. Decoded(s, a).providerID # NoProviderID
          => a.providerID # NoProviderID \/ s.providerID # NoProviderID
    BY DEF Decoded, Kept
  <2> HIDE DEF Decoded
  <2> QED  BY <2>1, <2>2 DEF From, WithStatus, machineIsProvisioned, Machine
<1>4. UpdatedMachine(s, a) # Absent => From(UpdatedMachine(s, a), a, s)
  BY DEF From, UpdatedMachine, machineIsProvisioned, Machine
<1> QED  BY <1>1, <1>2, <1>3, <1>4

\* What a call stores is put together from what is stored and what the handler has.
LEMMA StoresFrom ==
  ASSUME TypeOK, Call
  PROVE  \/ UNCHANGED machines
         \/ Stores(Absent)
         \/ /\ machines[key] \in Machine
            /\ \E o \in Machine : Stores(o) /\ From(o, m, machines[key])
<1>1. pc # "idle" /\ m \in Machine /\ key \in Machines /\ version \in Machine
  BY CallFrame, HandlerObjects DEF TypeOK, WorkerTypeOK
<1>2. CASE /\ machines[key] = version
           /\ Stores(UpdatedMachine(version, [m EXCEPT !.finalizer = (pc = "addFinalizer")]))
  <2> DEFINE a == [m EXCEPT !.finalizer = (pc = "addFinalizer")]
  <2>1. a \in Machine /\ machineIsProvisioned(a) = machineIsProvisioned(m) /\ a.nodeRef = m.nodeRef
    BY <1>1 DEF Machine, machineIsProvisioned
  <2>2. UpdatedMachine(version, a) \in Machine \cup {Absent}
    BY <1>1, <2>1, UpdatedMachineType
  <2>3. UpdatedMachine(version, a) # Absent => From(UpdatedMachine(version, a), a, version)
    BY <1>1, <2>1, PutTogether
  <2>4. Stores(UpdatedMachine(version, a))
    BY <1>2
  <2> HIDE DEF a
  <2> QED  BY <1>1, <1>2, <2>1, <2>2, <2>3, <2>4 DEF From
<1>3. ASSUME NEW p \in Phases, machines[key] \in Machine
      PROVE  UpdatedStatus(p) \in Machine /\ From(UpdatedStatus(p), m, machines[key])
  <2>1. UpdatedStatus(p) \in Machine
    BY <1>1, <1>3, UpdatedStatusType
  <2>2. [m EXCEPT !.phase = p] \in Machine /\ [m EXCEPT !.phase = p].addresses = m.addresses
    BY <1>1 DEF Machine
  <2> QED  BY <1>1, <1>3, <2>1, <2>2
           DEF From, UpdatedStatus, PatchedStatus, Delta, machineIsProvisioned, Machine
<1>4. ASSUME machines[key] \in Machine
      PROVE  LET o == PatchedMachine(m, [m EXCEPT !.instanceState = "Unknown"], machines[key])
             IN  o \in Machine /\ From(o, m, machines[key])
  <2>1. /\ [m EXCEPT !.instanceState = "Unknown"] \in Machine
        /\ [m EXCEPT !.instanceState = "Unknown"].providerID = m.providerID
    BY <1>1 DEF Machine, InstanceStates
  <2>2. PatchedMachine(m, [m EXCEPT !.instanceState = "Unknown"], machines[key]) \in Machine
    BY <1>1, <1>4, <2>1, PatchedMachineType
  <2> QED  BY <1>1, <1>4, <2>1, <2>2
           DEF From, PatchedMachine, Delta, machineIsProvisioned, Machine
<1>5. ASSUME machines[key] \in Machine, pc \in {"patchMachine", "patchStatus"}
      PROVE  /\ PatchedMachine(origin, m, machines[key]) \in Machine
             /\ PatchedStatus(origin, m, machines[key]) \in Machine
             /\ From(PatchedMachine(origin, m, machines[key]), m, machines[key])
             /\ From(PatchedStatus(origin, m, machines[key]), m, machines[key])
  <2>1. origin \in Machine
    BY <1>5 DEF TypeOK, WorkerTypeOK, HandlerTypeOK
  <2> QED  BY <1>1, <1>5, <2>1, PatchedMachineType, PatchedStatusType, PutTogether
<1>6. StoredByCall
  BY CallStores
<1> QED  BY <1>2, <1>3, <1>4, <1>5, <1>6 DEF StoredByCall

\* What is used stays used, and a link stays one: no second VirtualMachine, and no Node
\* that goes first.
LEMMA LinksStay ==
  ASSUME TypeOK, FinalizerInv, NamesInv, [Next]_vars
  PROVE  /\ Used \subseteq Used'
         /\ \A n \in Names : n \in Used /\ vms[n] = Absent => vms'[n] = Absent
         /\ \A n \in Names : Linked(n) => n \in Used' /\ (nodes'[n] # Absent \/ vms'[n] = Absent)
<1>1. Used \subseteq Used'
  BY UsedCases
<1>2. ASSUME NEW n \in Names, n \in Used, vms[n] = Absent  PROVE vms'[n] = Absent
  <2>1. createVM => name \notin Used
    BY DEF createVM, Used
  <2> QED  BY <1>2, <2>1, Appearances
<1>3. ASSUME NEW n \in Names, nodes[n] # Absent, nodes'[n] = Absent  PROVE vms[n] = Absent
  BY <1>3, NodeStep DEF NodeGoesLast, vars, clusterVars, tenantVars
<1> QED  BY <1>1, <1>2, <1>3 DEF Linked

\* Calls keep the copies sound.
LEMMA CopiesCall ==
  ASSUME TypeOK, FinalizerInv, NamesInv, CopiesInv, Call
  PROVE  CopiesInv'
<1>1. /\ pc # "idle" /\ key \in Machines /\ name \in Names /\ m \in Machine
      /\ NameOf[key] = name /\ machines \in [Machines -> Machine \cup {Absent}]
      /\ NameOf \in [Machines -> Names]
  BY CallFrame, HandlerObjects, TenantAssumption DEF TypeOK, WorkerTypeOK, TenantTypeOK, name
<1> DEFINE After(x, n) == /\ machineIsProvisioned(x) => n \in Used'
                          /\ x.nodeRef => n \in Used' /\ (nodes'[n] # Absent \/ vms'[n] = Absent)
<1>2. ASSUME NEW x, NEW n \in Names, Sound(x, n)  PROVE After(x, n)
  BY <1>2, LinksStay DEF Sound, Next, ControllerNext
<1>3. ASSUME NEW x, NEW a, NEW s, From(x, a, s), After(a, name), After(s, name)
      PROVE  After(x, name)
  BY <1>3 DEF From
<1>4. After(m, name)
  BY <1>1, <1>2 DEF CopiesInv
<1>5. \A k \in Machines : Has(machines[k]) => After(machines[k], NameOf[k])
  BY <1>1, <1>2 DEF CopiesInv
<1>6. \A k \in Machines : Has(cache[k]) => After(cache[k], NameOf[k])
  BY <1>1, <1>2 DEF CopiesInv
<1> HIDE DEF After
<1>7. ASSUME NEW k \in Machines, Has(machines'[k])  PROVE After(machines'[k], NameOf[k])
  <2>1. CASE UNCHANGED machines \/ k # key \/ Stores(Absent)
    BY <1>1, <1>5, <1>7, <2>1, StoresFrom DEF Stores, Has
  <2>2. CASE /\ k = key /\ machines[key] \in Machine
             /\ \E o \in Machine : Stores(o) /\ From(o, m, machines[key])
    BY <1>1, <1>3, <1>4, <1>5, <2>2, TenantAssumption DEF Stores, Has
  <2> QED  BY <2>1, <2>2, StoresFrom
<1>8. CASE CallEnds
  <2>1. \A k \in Machines : Has(cache'[k]) => After(cache'[k], NameOf[k])
    BY <1>5, <1>6, <1>8 DEF CallEnds
  <2> QED  BY <1>7, <1>8, <2>1 DEF CallEnds, CopiesInv, Sound, Linked, After
<1>9. CASE CallGoesOn
  <2>1. name' = name /\ UNCHANGED cache
    BY <1>9 DEF CallGoesOn, name
  <2>2. machines'[key] \in Machine => After(machines'[key], name)
    BY <1>1, <1>7, TenantAssumption DEF Has
  <2>3. After(m', name)
    <3>1. CASE Unread
      BY <1>4, <3>1 DEF Unread
    <3>2. CASE Answered \/ HalfPatched
      <4>1. From(m', m, machines'[key])
        BY <1>1, <3>2, PutTogether DEF Answered, HalfPatched
      <4> QED  BY <1>3, <1>4, <2>2, <3>2, <4>1 DEF Answered, HalfPatched
    <3>3. CASE Synced
      <4>1. name \in Used'
        <5>1. createVM => name \in Used'
          BY CreateVMCases DEF Used, NamesInv
        <5>2. vms[name] # Absent \/ vmis[name] # "none" => name \in Used
          BY <1>1 DEF NamesInv, NamesUsedOnce
        <5> QED  BY <3>3, <5>1, <5>2, LinksStay DEF Synced, Next, ControllerNext
      <4>2. m'.nodeRef = m.nodeRef
        <5>1. PICK v \in VM, b \in BOOLEAN : FinishSync(v, b)
          BY <3>3 DEF Synced
        <5> QED  BY <1>1, <5>1 DEF FinishSync, SyncMachine, Machine
      <4> QED  BY <1>4, <4>1, <4>2 DEF After
    <3> QED  BY <1>9, <3>1, <3>2, <3>3 DEF CallGoesOn
  <2> QED  BY <1>6, <1>7, <2>1, <2>3 DEF CopiesInv, Sound, Linked, After
<1> QED  BY <1>8, <1>9, CallContinues DEF Continues

\* So do the steps of everyone else: users create Machines that say nothing, and the
\* nodelink controller refers a Machine to a Node that is there.
LEMMA CopiesStep ==
  ASSUME TypeOK, FinalizerInv, NamesInv, CopiesInv, [Next]_vars
  PROVE  CopiesInv'
<1>1. /\ machines \in [Machines -> Machine \cup {Absent}] /\ NameOf \in [Machines -> Names]
      /\ cache \in [Machines -> Machine \cup {Absent}]
      /\ pc # "idle" => name \in Names
  BY HandlerObjects, TenantAssumption
  DEF TypeOK, WorkerTypeOK, HandlerTypeOK, TenantTypeOK, name
<1> DEFINE After(x, n) == /\ machineIsProvisioned(x) => n \in Used'
                          /\ x.nodeRef => n \in Used' /\ (nodes'[n] # Absent \/ vms'[n] = Absent)
<1>2. ASSUME NEW x, NEW n \in Names, Sound(x, n)  PROVE After(x, n)
  BY <1>2, LinksStay DEF Sound
<1>3. /\ \A k \in Machines : Has(machines[k]) => After(machines[k], NameOf[k])
      /\ \A k \in Machines : Has(cache[k]) => After(cache[k], NameOf[k])
      /\ pc # "idle" => After(m, name)
  BY <1>1, <1>2 DEF CopiesInv
<1> HIDE DEF After
<1>4. ASSUME \A k \in Machines : Has(machines'[k]) => After(machines'[k], NameOf[k]),
             \A k \in Machines : Has(cache'[k]) => After(cache'[k], NameOf[k]),
             pc' # "idle" => After(m', NameOf[key'])
      PROVE  CopiesInv'
  BY <1>4 DEF CopiesInv, Sound, Linked, After, name
<1>5. CASE Call
  BY <1>5, CopiesCall
<1>6. ASSUME NEW k \in Machines, Reconcile(k)  PROVE CopiesInv'
  <2>1. UNCHANGED <<machines, cache>>
    BY <1>6 DEF Reconcile, clusterVars, tenantVars, localVars
  <2>2. pc' # "idle" => key' = k /\ m' = cache[k] /\ Has(cache[k])
    BY <1>6 DEF Reconcile, localVars, Has
  <2> QED  BY <1>3, <1>4, <2>1, <2>2
<1>7. ASSUME NEW k \in Machines, Sync(k) \/ Resync(k)  PROVE CopiesInv'
  <2>1. UNCHANGED <<machines, pc, key, m>>
    BY <1>7 DEF Sync, Resync, clusterVars, tenantVars, localVars
  <2>2. \A j \in Machines : cache'[j] \in {cache[j], machines[j]}
    BY <1>1, <1>7 DEF Sync, Resync
  <2>3. \A j \in Machines : Has(cache'[j]) => After(cache'[j], NameOf[j])
    BY <1>3, <2>2
  <2> QED  BY <1>3, <1>4, <2>1, <2>3 DEF name
<1>8. CASE Crash
  <2>1. UNCHANGED machines /\ cache' = machines /\ pc' = "idle"
    BY <1>8 DEF Crash, Restart, Done, clusterVars, tenantVars
  <2> QED  BY <1>3, <1>4, <2>1
<1>9. ASSUME UNCHANGED <<cache, pc, key, m>>,
             \A k \in Machines : Has(machines'[k]) => After(machines'[k], NameOf[k])
      PROVE  CopiesInv'
  BY <1>3, <1>4, <1>9 DEF name
<1>10. ASSUME NEW n \in Names, InfraNext(n)  PROVE CopiesInv'
  <2>1. UNCHANGED machines
    BY <1>10 DEF InfraNext, BootGuest, KubeletWrites, tenantVars
  <2> QED  BY <1>3, <1>9, <1>10, <2>1, EnvironmentFrame
<1>11. ASSUME NEW k \in Machines, TenantNext(k)  PROVE CopiesInv'
  <2>1. \A j \in Machines \ {k} : machines'[j] = machines[j]
    BY <1>1, <1>11 DEF TenantNext, UserCreates, UserDeletes, UserEdits, UserEditsUserData,
       NodeLink, NodeUnlink
  <2>2. ASSUME Has(machines'[k])  PROVE After(machines'[k], NameOf[k])
    <3>1. CASE UserCreates(k)
      <4>1. PICK c \in Configs : machines'[k] = NewMachine(k, c)
        BY <1>1, <3>1 DEF UserCreates
      <4>2. ~machineIsProvisioned(NewMachine(k, c)) /\ ~NewMachine(k, c).nodeRef
        BY DEF NewMachine, machineIsProvisioned
      <4> QED  BY <4>1, <4>2 DEF After
    <3>2. CASE UserEditsUserData
      BY <1>3, <2>2, <3>2 DEF UserEditsUserData
    <3>3. CASE UserDeletes(k) \/ UserEdits(k) \/ NodeUnlink(k)
      <4>1. machines[k] \in Machine
        BY <1>1, <3>3 DEF UserDeletes, UserEdits, NodeUnlink
      <4>2. /\ machineIsProvisioned(machines'[k]) => machineIsProvisioned(machines[k])
            /\ machines'[k].nodeRef => machines[k].nodeRef
        BY <1>1, <2>2, <3>3, <4>1
        DEF UserDeletes, UserEdits, NodeUnlink, Machine, machineIsProvisioned, Has
      <4> QED  BY <1>3, <4>1, <4>2, TenantAssumption DEF Has, After
    <3>4. CASE NodeLink(k)
      <4>1. machines[k] \in Machine
        BY <1>1, <3>4 DEF NodeLink
      <4>2. machineIsProvisioned(machines'[k]) => machineIsProvisioned(machines[k])
        BY <1>1, <3>4, <4>1 DEF NodeLink, Machine, machineIsProvisioned
      <4>3. NameOf[k] \in Used /\ nodes'[NameOf[k]] # Absent
        BY <1>1, <3>4 DEF NodeLink, NamesInv, NamesUsedOnce
      <4> QED  BY <1>3, <4>1, <4>2, <4>3, LinksStay, TenantAssumption DEF Has, After
    <3> QED  BY <1>11, <3>1, <3>2, <3>3, <3>4 DEF TenantNext
  <2>3. \A j \in Machines : Has(machines'[j]) => After(machines'[j], NameOf[j])
    BY <1>3, <2>1, <2>2
  <2> QED  BY <1>9, <1>11, <2>3, EnvironmentFrame
<1>12. CASE UNCHANGED vars
  BY <1>3, <1>9, <1>12 DEF vars, clusterVars, tenantVars, workerVars, localVars
<1> QED
  BY <1>5, <1>6, <1>7, <1>8, <1>10, <1>11, <1>12 DEF Next, ControllerNext

\* Whatever a copy says of a provider ID, an address or a Node, it says truly.
LEMMA CopiesInvariant == Spec => []CopiesInv
<1>1. Init => CopiesInv
  BY DEF Init, InfraInit, TenantInit, WorkerInit, CopiesInv, Has
<1>2. TypeOK /\ FinalizerInv /\ NamesInv /\ CopiesInv /\ [Next]_vars => CopiesInv'
  BY CopiesStep
<1> QED  BY <1>1, <1>2, TypeCorrect, FinalizerInvariant, NamesInvariant, PTL DEF Spec

\* A Machine that was given its VirtualMachine is never given another: the name is used,
\* and the ignition secret refuses a second Create (controller.go:332-346, kubevirt.go:60).
THEOREM VMsAreNotReplaced == Spec => VMNeverReplaced
<1> DEFINE NotReplaced ==
      \A k \in Machines : vms[NameOf[k]] = Absent /\ vms'[NameOf[k]] # Absent
        => ~(Has(machines[k]) /\ machines[k].providerID # NoProviderID)
<1>1. TypeOK /\ FinalizerInv /\ NamesInv /\ CopiesInv /\ [Next]_vars => [NotReplaced]_vars
  <2> SUFFICES ASSUME TypeOK, FinalizerInv, NamesInv, CopiesInv, [Next]_vars,
                      NEW k \in Machines, vms[NameOf[k]] = Absent, vms'[NameOf[k]] # Absent,
                      Has(machines[k]), machines[k].providerID # NoProviderID
               PROVE  FALSE
    OBVIOUS
  <2>1. NameOf[k] \in Names
    BY TenantAssumption
  <2>2. NameOf[k] \in Used
    BY DEF CopiesInv, Sound, machineIsProvisioned
  <2> QED  BY <2>1, <2>2, LinksStay
<1> QED
  BY <1>1, TypeCorrect, FinalizerInvariant, NamesInvariant, CopiesInvariant, PTL
  DEF Spec, VMNeverReplaced

-----------------------------------------------------------------------------
(* Drained before it is deleted. *)

\* A Delete that has to drain has drained the Node that is there, or has found no Node
\* and then there is no VirtualMachine to delete, and will not be one.
DrainInv ==
  pc \in {"getForDelete", "deleteVM"} /\ m.nodeRef /\ ~m.config.excludeNodeDraining =>
    \/ nodes[name] # Absent /\ nodes[name].drained
    \/ pc = "getForDelete" /\ vms[name] = Absent /\ name \in Used

\* What happens to Nodes while the handler waits: they join and stay, and nobody
\* drains them.
LEMMA NodesWait ==
  ASSUME TypeOK, Next, ~Call, NEW n \in Names, nodes[n] # Absent
  PROVE  nodes'[n] # Absent /\ nodes'[n].drained = nodes[n].drained
<1>1. ASSUME NEW k \in Machines, Reconcile(k) \/ Sync(k) \/ Resync(k) \/ TenantNext(k)
      PROVE  UNCHANGED nodes
  BY <1>1 DEF TenantNext, UserCreates, UserDeletes, UserEdits, UserEditsUserData, NodeLink,
     NodeUnlink, Reconcile, Sync, Resync, clusterVars, tenantVars
<1>2. Crash => UNCHANGED nodes
  BY DEF Crash, clusterVars, tenantVars
<1>3. ASSUME NEW j \in Names, InfraNext(j)
      PROVE  nodes'[n] # Absent /\ nodes'[n].drained = nodes[n].drained
  <2>1. CASE KubeletWrites(j)
    BY <2>1, KubeletKeeps DEF TypeOK
  <2>2. CASE ~KubeletWrites(j)
    BY <1>3, <2>2 DEF InfraNext, BootGuest, tenantVars, TypeOK, TenantTypeOK
  <2> QED  BY <2>1, <2>2
<1> QED  BY <1>1, <1>2, <1>3 DEF Next, ControllerNext

\* Every step that is no call leaves a Reconcile under way where it is, or ends it, or
\* starts one.
LEMMA HandlerWaits ==
  ASSUME [Next]_vars, ~Call
  PROVE  \/ UNCHANGED <<pc, key, m, origin, version, vm>>
         \/ pc' = "idle"
         \/ /\ pc = "idle" /\ pc' \in {"setDeleting", "addFinalizer", "exists"}
            /\ UNCHANGED <<machines, cache, vms, origin, vm>>
            /\ \E k \in Machines :
                 /\ key' = k /\ m' = cache[k] /\ version' = cache[k] /\ Has(cache[k])
                 /\ pc' = "setDeleting" => cache[k].deleted
                 /\ pc' = "exists" => Live(cache[k])
<1>1. ASSUME NEW k \in Machines, Reconcile(k), pc' # "idle"
      PROVE  /\ pc = "idle" /\ pc' \in {"setDeleting", "addFinalizer", "exists"}
             /\ UNCHANGED <<machines, cache, vms, origin, vm>>
             /\ key' = k /\ m' = cache[k] /\ version' = cache[k] /\ Has(cache[k])
             /\ pc' = "setDeleting" => cache[k].deleted
             /\ pc' = "exists" => Live(cache[k])
  BY <1>1 DEF Reconcile, clusterVars, tenantVars, infraVars, localVars, Has, Live, HasFinalizer
<1>2. ASSUME NEW k \in Machines, Sync(k) \/ Resync(k)
      PROVE  UNCHANGED <<pc, key, m, origin, version, vm>>
  BY <1>2 DEF Sync, Resync, localVars
<1>3. Crash => pc' = "idle"
  BY DEF Crash, Restart, Done
<1>4. UNCHANGED vars => UNCHANGED <<pc, key, m, origin, version, vm>>
  BY DEF vars, workerVars, localVars
<1> QED  BY <1>1, <1>2, <1>3, <1>4, EnvironmentFrame DEF Next, ControllerNext

\* Every step keeps the invariant.
LEMMA DrainStep ==
  ASSUME TypeOK, FinalizerInv, NamesInv, CopiesInv, DrainInv, [Next]_vars
  PROVE  DrainInv'
<1> SUFFICES ASSUME pc' \in {"getForDelete", "deleteVM"}, m'.nodeRef,
                    ~m'.config.excludeNodeDraining
             PROVE  \/ nodes'[name'] # Absent /\ nodes'[name'].drained
                    \/ pc' = "getForDelete" /\ vms'[name'] = Absent /\ name' \in Used'
  BY DEF DrainInv
<1>1. CASE Call
  <2>1. /\ pc # "idle" /\ name \in Names /\ nodes \in [Names -> Node \cup {Absent}]
        /\ Absent \notin Node
    BY <1>1, CallFrame, HandlerObjects, TenantAssumption
    DEF TypeOK, WorkerTypeOK, TenantTypeOK
  <2>2. CallGoesOn /\ Arrival /\ name' = name
    BY <1>1, CallContinues DEF Continues, CallEnds, CallGoesOn, name
  <2>3. CASE pc' = "deleteVM"
    <3>1. pc = "getForDelete" /\ vms[name] # Absent /\ m' = m
      BY <2>2, <2>3 DEF Arrival, Unread
    <3>2. UNCHANGED nodes
      BY <1>1, <3>1, CallFrame DEF drain, deleteNode
    <3> QED  BY <2>2, <3>1, <3>2 DEF DrainInv
  <2>4. CASE pc' = "getForDelete"
    <3>1. /\ m' = m /\ UNCHANGED vms
          /\ nodes' = [nodes EXCEPT ![name] =
                         IF @ = Absent THEN Absent ELSE [@ EXCEPT !.drained = TRUE]]
      BY <2>2, <2>4 DEF Arrival, Unread
    <3>2. CASE nodes[name] # Absent
      <4>1. nodes[name] \in Node
        BY <2>1, <3>2
      <4>2. [nodes[name] EXCEPT !.drained = TRUE] \in Node /\ [nodes[name] EXCEPT !.drained = TRUE].drained
        BY <4>1 DEF Node
      <4> QED  BY <2>1, <2>2, <3>1, <3>2, <4>2
    <3>3. CASE nodes[name] = Absent
      <4>1. name \in Used /\ vms[name] = Absent
        BY <2>1, <3>1, <3>3 DEF CopiesInv, Sound, Linked
      <4> QED  BY <2>2, <2>4, <3>1, <4>1, LinksStay
    <3> QED  BY <3>2, <3>3
  <2> QED  BY <2>3, <2>4
<1>2. CASE ~Call
  <2>1. pc' = pc /\ m' = m /\ name' = name
    BY <1>2, HandlerWaits DEF name
  <2>2. name \in Names
    BY <2>1, HandlerObjects DEF TypeOK, WorkerTypeOK
  <2>3. CASE nodes[name] # Absent /\ nodes[name].drained
    <3>1. nodes'[name] # Absent /\ nodes'[name].drained = nodes[name].drained
      BY <1>2, <2>2, <2>3, NodesWait DEF vars, clusterVars, tenantVars
    <3> QED  BY <2>1, <2>3, <3>1
  <2>4. CASE pc = "getForDelete" /\ vms[name] = Absent /\ name \in Used
    BY <2>1, <2>2, <2>4, LinksStay
  <2> QED  BY <2>1, <2>3, <2>4 DEF DrainInv
<1> QED  BY <1>1, <1>2

\* A VirtualMachine whose Machine refers to a Node is deleted only once the pods are
\* evicted from the Node, in every attempt (controller.go:224-231): also when the Node
\* joins, is deleted or is referred to while the handler is on its way.
THEOREM DrainsBeforeDelete == Spec => []DrainedBeforeDelete
<1>1. Init => DrainInv
  BY DEF Init, WorkerInit, DrainInv
<1>2. TypeOK /\ FinalizerInv /\ NamesInv /\ CopiesInv /\ DrainInv /\ [Next]_vars => DrainInv'
  BY DrainStep
<1>3. DrainInv => DrainedBeforeDelete
  BY DEF DrainInv, DrainedBeforeDelete
<1> QED
  BY <1>1, <1>2, <1>3, TypeCorrect, FinalizerInvariant, NamesInvariant, CopiesInvariant, PTL
  DEF Spec

-----------------------------------------------------------------------------
(* Failed without a VirtualMachine. *)

\* While an Update patches the Machine, its copy has the phase it was read with.
PatchInv == pc \in {"patchMachine", "patchStatus"} => m.phase = origin.phase

\* Neither SyncMachine nor the answer to the first patch changes it.
LEMMA PatchStep ==
  ASSUME TypeOK, PatchInv, [Next]_vars
  PROVE  PatchInv'
<1>1. CASE ~Call
  BY <1>1, HandlerWaits DEF PatchInv
<1>2. CASE Call
  <2>1. pc # "idle" /\ m \in Machine
    BY <1>2, CallFrame, HandlerObjects DEF TypeOK, WorkerTypeOK
  <2>2. CASE pc' = "patchMachine"
    <3>1. CASE Synced
      <4>1. PICK v \in VM, b \in BOOLEAN : FinishSync(v, b)
        BY <3>1 DEF Synced
      <4> QED  BY <2>1, <4>1 DEF FinishSync, SyncMachine, Machine, PatchInv
    <3>2. CASE Unread /\ origin' = m
      BY <3>2 DEF Unread, PatchInv
    <3> QED  BY <1>2, <2>2, <3>1, <3>2, CallContinues DEF Continues, CallEnds, Arrival
  <2>3. CASE pc' = "patchStatus"
    <3>1. HalfPatched
      BY <1>2, <2>3, CallContinues DEF Continues, CallEnds, Arrival
    <3>2. Decoded(machines'[key], m) \in Machine
      BY <2>1, <3>1, DecodedType DEF HalfPatched
    <3>3. WithStatus(Decoded(machines'[key], m), m).phase = m.phase
      BY <3>2 DEF WithStatus, Machine
    <3> QED  BY <3>1, <3>3 DEF HalfPatched, PatchInv
  <2> QED  BY <2>2, <2>3 DEF PatchInv
<1> QED  BY <1>1, <1>2

\* So it is in every reachable state.
LEMMA PatchInvariant == Spec => []PatchInv
<1>1. Init => PatchInv
  BY DEF Init, WorkerInit, PatchInv
<1>2. TypeOK /\ PatchInv /\ [Next]_vars => PatchInv'
  BY PatchStep
<1> QED  BY <1>1, <1>2, TypeCorrect, PTL DEF Spec

\* The phase of a Machine that a call stores is the phase it had, or the one written.
LEMMA StoredPhase ==
  ASSUME TypeOK, PatchInv, Call
  PROVE  \/ UNCHANGED machines
         \/ Stores(Absent)
         \/ /\ machines[key] \in Machine
            /\ \E o \in Machine :
                 Stores(o) /\ (o.phase = machines[key].phase \/ Writes(o.phase))
<1>1. pc # "idle" /\ m \in Machine /\ key \in Machines /\ version \in Machine
  BY CallFrame, HandlerObjects DEF TypeOK, WorkerTypeOK
<1>2. CASE /\ machines[key] = version
           /\ Stores(UpdatedMachine(version, [m EXCEPT !.finalizer = (pc = "addFinalizer")]))
  <2> DEFINE a == [m EXCEPT !.finalizer = (pc = "addFinalizer")]
             o == UpdatedMachine(version, a)
  <2>1. a \in Machine
    BY <1>1 DEF Machine
  <2>2. o \in Machine \cup {Absent} /\ (o # Absent => o.phase = version.phase)
    <3>1. o \in Machine \cup {Absent}
      BY <1>1, <2>1, UpdatedMachineType
    <3> HIDE DEF a
    <3> QED  BY <1>1, <2>1, <3>1 DEF UpdatedMachine, Machine
  <2>3. Stores(o)
    BY <1>2
  <2> HIDE DEF o
  <2> QED  BY <1>1, <1>2, <2>2, <2>3
<1>3. ASSUME NEW p \in Phases, machines[key] \in Machine, Writes(p), Stores(UpdatedStatus(p))
      PROVE  \E o \in Machine :
               Stores(o) /\ (o.phase = machines[key].phase \/ Writes(o.phase))
  <2>1. UpdatedStatus(p) \in Machine
    BY <1>1, <1>3, UpdatedStatusType
  <2>2. [m EXCEPT !.phase = p].phase = p
    BY <1>1 DEF Machine
  <2>3. UpdatedStatus(p).phase \in {p, machines[key].phase}
    BY <1>1, <1>3, <2>2 DEF UpdatedStatus, PatchedStatus, Delta, Machine
  <2> QED  BY <1>3, <2>1, <2>3
<1>4. ASSUME NEW a \in Machine, NEW b \in Machine, machines[key] \in Machine
      PROVE  /\ PatchedMachine(b, a, machines[key]) \in Machine
             /\ PatchedMachine(b, a, machines[key]).phase = machines[key].phase
             /\ PatchedStatus(b, a, machines[key]) \in Machine
             /\ a.phase = b.phase => PatchedStatus(b, a, machines[key]).phase = machines[key].phase
  <2>1. /\ PatchedMachine(b, a, machines[key]) \in Machine
        /\ PatchedStatus(b, a, machines[key]) \in Machine
    BY <1>4, PatchedMachineType, PatchedStatusType
  <2> QED  BY <1>4, <2>1 DEF PatchedMachine, PatchedStatus, Delta, Machine
<1>5. [m EXCEPT !.instanceState = "Unknown"] \in Machine
  BY <1>1 DEF Machine, InstanceStates
<1>6. pc \in {"patchMachine", "patchStatus"} => origin \in Machine /\ m.phase = origin.phase
  BY DEF TypeOK, WorkerTypeOK, HandlerTypeOK, PatchInv
<1>7. StoredByCall
  BY CallStores
<1> QED  BY <1>1, <1>2, <1>3, <1>4, <1>5, <1>6, <1>7 DEF StoredByCall

\* What users and the nodelink controller store: a new Machine with nothing in it, or the
\* one there was, with the fields the controller writes as they were.
LEMMA TenantStores ==
  ASSUME TypeOK, NEW k \in Machines, TenantNext(k)
  PROVE  \/ UNCHANGED machines
         \/ /\ machines[k] \in Machine /\ ~machines[k].finalizer
            /\ machines' = [machines EXCEPT ![k] = Absent]
         \/ /\ machines[k] = Absent
            /\ \E o \in Machine :
                 /\ machines' = [machines EXCEPT ![k] = o]
                 /\ ~o.deleted /\ ~o.finalizer /\ o.phase = ""
                 /\ o.providerID = NoProviderID /\ ~o.addresses /\ ~o.nodeRef
                 /\ o.uid = uids'[k] /\ uids'[k] = uids[k] + 1
         \/ /\ machines[k] \in Machine
            /\ \E o \in Machine :
                 /\ machines' = [machines EXCEPT ![k] = o]
                 /\ o.uid = machines[k].uid /\ o.phase = machines[k].phase
                 /\ o.finalizer = machines[k].finalizer
                 /\ o.providerID = machines[k].providerID
                 /\ o.addresses = machines[k].addresses
                 /\ machines[k].deleted => o.deleted
<1>1. machines[k] # Absent => machines[k] \in Machine
  BY DEF TypeOK, TenantTypeOK
<1>2. CASE UserCreates(k)
  <2>1. PICK c \in Configs : machines' = [machines EXCEPT ![k] = NewMachine(k, c)]
    BY <1>2 DEF UserCreates
  <2>2. uids[k] \in 0 .. MaxIncarnations /\ MaxIncarnations \in Nat /\ c \in Config
    BY TenantAssumption DEF TypeOK, TenantTypeOK
  <2>3. uids[k] + 1 \in Nat
    BY <2>2
  <2>4. uids'[k] = uids[k] + 1
    BY <1>2 DEF UserCreates, TypeOK, TenantTypeOK
  <2>5. NewMachine(k, c) \in Machine
    BY <2>2, <2>3 DEF NewMachine, Machine, InstanceStates, Phases, NoPhase, ProviderIDs
  <2>6. LET o == NewMachine(k, c)
        IN  /\ ~o.deleted /\ ~o.finalizer /\ o.phase = ""
            /\ o.providerID = NoProviderID /\ ~o.addresses /\ ~o.nodeRef
            /\ o.uid = uids[k] + 1
    BY DEF NewMachine
  <2>7. machines[k] = Absent
    BY <1>2 DEF UserCreates
  <2> QED  BY <2>1, <2>4, <2>5, <2>6, <2>7
<1>3. CASE UserDeletes(k)
  <2>1. machines[k] \in Machine
    BY <1>1, <1>3 DEF UserDeletes
  <2>2. CASE ~machines[k].finalizer
    BY <1>3, <2>1, <2>2 DEF UserDeletes
  <2>3. CASE machines[k].finalizer
    <3>1. machines' = [machines EXCEPT ![k] = [machines[k] EXCEPT !.deleted = TRUE]]
      BY <1>3, <2>3 DEF UserDeletes
    <3>2. LET o == [machines[k] EXCEPT !.deleted = TRUE]
          IN  /\ o \in Machine /\ o.uid = machines[k].uid /\ o.phase = machines[k].phase
              /\ o.finalizer = machines[k].finalizer /\ o.providerID = machines[k].providerID
              /\ o.addresses = machines[k].addresses /\ o.deleted
      BY <2>1 DEF Machine
    <3> QED  BY <2>1, <3>1, <3>2
  <2> QED  BY <2>2, <2>3
<1>4. CASE UserEdits(k)
  <2>1. machines[k] \in Machine
    BY <1>1, <1>4 DEF UserEdits
  <2>2. PICK c \in Configs : machines' = [machines EXCEPT ![k] = [machines[k] EXCEPT !.config = c]]
    BY <1>4 DEF UserEdits
  <2>3. c \in Config
    BY TenantAssumption
  <2>4. LET o == [machines[k] EXCEPT !.config = c]
        IN  /\ o \in Machine /\ o.uid = machines[k].uid /\ o.phase = machines[k].phase
            /\ o.finalizer = machines[k].finalizer /\ o.providerID = machines[k].providerID
            /\ o.addresses = machines[k].addresses /\ o.deleted = machines[k].deleted
    BY <2>1, <2>3 DEF Machine
  <2> QED  BY <2>1, <2>2, <2>4
<1>5. CASE UserEditsUserData
  BY <1>5 DEF UserEditsUserData
<1>6. CASE NodeLink(k) \/ NodeUnlink(k)
  <2>1. machines[k] \in Machine
    BY <1>1, <1>6 DEF NodeLink, NodeUnlink
  <2>2. PICK b \in BOOLEAN : machines' = [machines EXCEPT ![k] = [machines[k] EXCEPT !.nodeRef = b]]
    BY <1>6 DEF NodeLink, NodeUnlink
  <2>3. LET o == [machines[k] EXCEPT !.nodeRef = b]
        IN  /\ o \in Machine /\ o.uid = machines[k].uid /\ o.phase = machines[k].phase
            /\ o.finalizer = machines[k].finalizer /\ o.providerID = machines[k].providerID
            /\ o.addresses = machines[k].addresses /\ o.deleted = machines[k].deleted
    BY <2>1 DEF Machine
  <2> QED  BY <2>1, <2>2, <2>3
<1> QED  BY <1>2, <1>3, <1>4, <1>5, <1>6 DEF TenantNext

\* A Machine in phase Failed, and one that is on its way there, has lost its
\* VirtualMachine for good.
FailInv ==
  /\ \A k \in Machines : Has(machines[k]) /\ machines[k].phase = "Failed"
       => NameOf[k] \in Used /\ vms[NameOf[k]] = Absent
  /\ pc \in {"failAnnotation", "failStatus"} => name \in Used /\ vms[name] = Absent

\* Only failStatus writes the phase, and exists leads there only when a Machine that was
\* provisioned has no VirtualMachine.
LEMMA FailStep ==
  ASSUME TypeOK, FinalizerInv, NamesInv, CopiesInv, PatchInv, FailInv, [Next]_vars
  PROVE  FailInv'
<1>1. /\ machines \in [Machines -> Machine \cup {Absent}] /\ NameOf \in [Machines -> Names]
      /\ Absent \notin Machine
  BY TenantAssumption DEF TypeOK, TenantTypeOK
<1>2. ASSUME NEW n \in Names, n \in Used, vms[n] = Absent
      PROVE  n \in Used' /\ vms'[n] = Absent
  BY <1>2, LinksStay
<1>3. ASSUME NEW k \in Machines, Has(machines'[k]), machines'[k].phase = "Failed"
      PROVE  NameOf[k] \in Used' /\ vms'[NameOf[k]] = Absent
  <2>1. CASE Has(machines[k]) /\ machines[k].phase = "Failed"
    BY <1>1, <1>2, <2>1 DEF FailInv
  <2>2. CASE Call
    <3>1. key \in Machines /\ pc # "idle"
      BY <2>2, CallFrame, HandlerObjects DEF TypeOK, WorkerTypeOK
    <3>2. CASE UNCHANGED machines \/ k # key \/ Stores(Absent)
      BY <1>1, <1>3, <2>1, <2>2, <3>1, <3>2, StoredPhase DEF Stores, Has
    <3>3. CASE /\ k = key /\ machines[key] \in Machine
               /\ machines'[key].phase = machines[key].phase
      BY <1>1, <1>3, <2>1, <3>3 DEF Has
    <3>4. CASE k = key /\ Writes("Failed")
      BY <1>1, <1>2, <3>1, <3>4 DEF Writes, FailInv, name
    <3> QED  BY <1>1, <1>3, <2>2, <3>1, <3>2, <3>3, <3>4, StoredPhase DEF Stores
  <2>3. CASE ~Call
    <3>1. CASE machines'[k] = machines[k]
      BY <1>3, <2>1, <3>1
    <3>2. CASE machines'[k] # machines[k]
      <4>1. PICK j \in Machines : TenantNext(j)
        BY <2>3, <3>2
        DEF Next, ControllerNext, Reconcile, Sync, Resync, Crash, InfraNext, BootGuest,
            KubeletWrites, vars, clusterVars, tenantVars
      <4>2. machines'[k].phase \in {"", machines[k].phase} /\ (Has(machines[k]) \/ machines'[k].phase = "")
        BY <1>1, <1>3, <3>2, <4>1, TenantStores DEF Has
      <4> QED  BY <1>3, <2>1, <4>2
    <3> QED  BY <3>1, <3>2
  <2> QED  BY <2>2, <2>3
<1>4. ASSUME pc' \in {"failAnnotation", "failStatus"}
      PROVE  name' \in Used' /\ vms'[name'] = Absent
  <2>1. CASE Call
    <3>1. CallGoesOn /\ Arrival /\ name' = name /\ name \in Names
      BY <1>4, <2>1, CallFrame, CallContinues, HandlerObjects
      DEF Continues, CallEnds, CallGoesOn, name, TypeOK, WorkerTypeOK
    <3>2. CASE pc' = "failAnnotation"
      <4>1. pc = "exists" /\ vms[name] = Absent /\ machineIsProvisioned(m)
        BY <3>1, <3>2 DEF Arrival
      <4>2. name \in Used
        BY <4>1 DEF CopiesInv, Sound
      <4> QED  BY <1>2, <3>1, <4>1, <4>2
    <3>3. CASE pc' = "failStatus"
      <4>1. pc = "failAnnotation"
        BY <3>1, <3>3 DEF Arrival
      <4> QED  BY <1>2, <3>1, <4>1 DEF FailInv
    <3> QED  BY <1>4, <3>2, <3>3
  <2>2. CASE ~Call
    <3>1. pc' = pc /\ name' = name
      BY <1>4, <2>2, HandlerWaits DEF name
    <3>2. name \in Names
      BY <1>4, <3>1, HandlerObjects DEF TypeOK, WorkerTypeOK
    <3> QED  BY <1>2, <1>4, <3>1, <3>2 DEF FailInv
  <2> QED  BY <2>1, <2>2
<1> QED  BY <1>3, <1>4 DEF FailInv

\* A Machine in phase Failed has no VirtualMachine (controller.go:332-346): nothing that is
\* running is given up, however stale the copy the decision was made from.
THEOREM FailedHaveNoVM == Spec => []FailedMeansNoVM
<1>1. Init => FailInv
  BY DEF Init, TenantInit, WorkerInit, FailInv, Has
<1>2. TypeOK /\ FinalizerInv /\ NamesInv /\ CopiesInv /\ PatchInv /\ FailInv /\ [Next]_vars
        => FailInv'
  BY FailStep
<1>3. FailInv => FailedMeansNoVM
  BY DEF FailInv, FailedMeansNoVM
<1> QED
  BY <1>1, <1>2, <1>3, TypeCorrect, FinalizerInvariant, NamesInvariant, CopiesInvariant,
     PatchInvariant, PTL DEF Spec

-----------------------------------------------------------------------------
(* Valid VirtualMachines only. *)

ValidSpec(s) ==
  /\ {s.template.memory, s.bootVolume.storage} \subseteq Quantities
  /\ s.bootVolume.accessMode \in AccessModes

\* What is built without an error or a panic has no misspelt quantity or access mode.
LEMMA BuiltIsValid ==
  ASSUME NEW c \in Config, BuildOutcome(c) = "ok"
  PROVE  ValidSpec(CreateVirtualMachineFromMachine(c))
<1>1. /\ c.requestedMemory # "malformed" /\ c.requestedStorage # "malformed"
      /\ c.persistentVolumeAccessMode # "other"
  BY DEF BuildOutcome
<1> QED
  BY <1>1 DEF ValidSpec, CreateVirtualMachineFromMachine, buildVMITemplate,
              buildBootVolumeDataVolumeTemplate, OrDefault, Config, Quantities, AccessModes

\* An Update has checked the configuration that it is about to send.
ValidInv == ValidVMsOnly /\ (pc = "updateVM" => BuildOutcome(m.config) = "ok")

\* createVM and updateVM send what was built; nobody else writes a VirtualMachine's spec.
LEMMA ValidStep ==
  ASSUME TypeOK, ValidInv, [Next]_vars
  PROVE  ValidInv'
<1>1. vms \in [Names -> VM \cup {Absent}] /\ Absent \notin VM
  BY InfraAssumption DEF TypeOK, InfraTypeOK
<1>2. ValidVMsOnly <=> \A n \in Names : vms[n] # Absent => ValidSpec(vms[n].spec)
  BY DEF ValidVMsOnly, ValidSpec
<1>3. ASSUME \A n \in Names : vms'[n] # Absent =>
               \/ vms[n] # Absent /\ vms'[n].spec = vms[n].spec
               \/ ValidSpec(vms'[n].spec)
      PROVE  ValidVMsOnly'
  BY <1>2, <1>3 DEF ValidInv, ValidVMsOnly, ValidSpec
<1>4. ValidVMsOnly'
  <2>1. CASE UNCHANGED vms
    BY <1>3, <2>1
  <2>2. CASE createVM
    <3> DEFINE v == NewVM(CreateVirtualMachineFromMachine(m.config), m.instanceState)
    <3>1. name \in Names /\ m \in Machine /\ m.config \in Config
      BY <2>2, HandlerObjects DEF createVM, TypeOK, WorkerTypeOK, Machine
    <3>2. UNCHANGED vms \/ (BuildOutcome(m.config) = "ok" /\ vms' = [vms EXCEPT ![name] = v])
      BY <2>2 DEF createVM, WriteInfra, Lost, CreateVirtualMachine, Refused, Unsent, Panic,
         clusterVars, infraVars
    <3>3. v.spec = CreateVirtualMachineFromMachine(m.config)
      BY DEF NewVM
    <3> HIDE DEF v
    <3> QED  BY <1>1, <1>3, <2>1, <3>1, <3>2, <3>3, BuiltIsValid
  <2>3. CASE updateVM
    <3> DEFINE v == UpdatedVM(vm, CreateVirtualMachineFromMachine(m.config), m.instanceState)
    <3>1. name \in Names /\ m \in Machine /\ m.config \in Config /\ vm \in VM
      BY <2>3, HandlerObjects DEF updateVM, TypeOK, WorkerTypeOK, HandlerTypeOK, Machine
    <3>2. UNCHANGED vms \/ vms' = [vms EXCEPT ![name] = IF v.terminating THEN Absent ELSE v]
      BY <2>3 DEF updateVM, WriteInfra, Lost, UpdateVirtualMachine, Refused, Unsent,
         clusterVars, infraVars
    <3>3. v.spec = CreateVirtualMachineFromMachine(m.config) /\ BuildOutcome(m.config) = "ok"
      BY <2>3, <3>1 DEF UpdatedVM, VM, updateVM, ValidInv
    <3> HIDE DEF v
    <3> QED  BY <1>1, <1>3, <2>1, <3>1, <3>2, <3>3, BuiltIsValid
  <2>4. CASE deleteVM
    <3>1. name \in Names
      BY <2>4, HandlerObjects DEF deleteVM, TypeOK, WorkerTypeOK
    <3>2. \/ UNCHANGED vms
          \/ vms[name] # Absent /\ vms' = [vms EXCEPT ![name] = Absent]
          \/ vms[name] # Absent /\ vms' = [vms EXCEPT ![name].terminating = TRUE]
      BY <2>4 DEF deleteVM, WriteInfra, Lost, DeleteVirtualMachineAccepted,
         DeleteVirtualMachine, Refused, Unsent, clusterVars, infraVars
    <3>3. vms[name] # Absent => [vms[name] EXCEPT !.terminating = TRUE].spec = vms[name].spec
      BY <1>1, <3>1 DEF VM
    <3> QED  BY <1>1, <1>3, <2>1, <3>1, <3>2, <3>3
  <2>5. CASE Call
    BY <2>1, <2>2, <2>3, <2>4, <2>5, CallFrame DEF createSecret, WriteInfra, Lost,
       CreateSecret, Refused, Unsent, clusterVars, infraVars
  <2>6. ASSUME NEW n \in Names, InfraNext(n)
        PROVE  ValidVMsOnly'
    <3>1. \A j \in Names \ {n} : vms'[j] = vms[j]
      BY <1>1, <2>6 DEF InfraNext, KubeVirt, StartVMI, SyncVMStatus, StopVMI, FinishVM,
         FailVMI, DropVM, DeleteVirtualMachine, BootGuest, KubeletWrites, infraVars
    <3>2. vms'[n] # Absent => vms[n] # Absent /\ vms'[n].spec = vms[n].spec
      BY <1>1, <2>6 DEF InfraNext, KubeVirt, StartVMI, SyncVMStatus, StopVMI, FinishVM,
         FailVMI, DropVM, DeleteVirtualMachine, DeleteVirtualMachineAccepted, BootGuest,
         KubeletWrites, infraVars, VM
    <3> QED  BY <1>3, <3>1, <3>2
  <2>7. ASSUME NEW k \in Machines, TenantNext(k) \/ Reconcile(k) \/ Sync(k) \/ Resync(k)
        PROVE  UNCHANGED vms
    BY <2>7 DEF TenantNext, UserCreates, UserDeletes, UserEdits, UserEditsUserData, NodeLink,
       NodeUnlink, Reconcile, Sync, Resync, clusterVars, infraVars
  <2>8. Crash \/ UNCHANGED vars => UNCHANGED vms
    BY DEF Crash, vars, clusterVars, infraVars
  <2> QED  BY <2>1, <2>5, <2>6, <2>7, <2>8 DEF Next, ControllerNext
<1>5. ASSUME pc' = "updateVM"  PROVE BuildOutcome(m'.config) = "ok"
  <2>1. CASE Call
    BY <1>5, <2>1, CallContinues DEF Continues, CallEnds, Arrival, Unread
  <2>2. CASE ~Call
    BY <1>5, <2>2, HandlerWaits DEF ValidInv
  <2> QED  BY <2>1, <2>2
<1> QED  BY <1>4, <1>5 DEF ValidInv

\* No VirtualMachine is stored with a quantity or an access mode its Machine's owner misspelt
\* (machine_scope.go:82-144, 159-345), whatever is edited while an Update is under way.
THEOREM ValidVMs == Spec => []ValidVMsOnly
<1>1. Init => ValidInv
  BY DEF Init, InfraInit, WorkerInit, ValidInv, ValidVMsOnly
<1>2. TypeOK /\ ValidInv /\ [Next]_vars => ValidInv'
  BY ValidStep
<1>3. ValidInv => ValidVMsOnly
  BY DEF ValidInv
<1> QED  BY <1>1, <1>2, <1>3, TypeCorrect, PTL DEF Spec
=============================================================================
