--------------------------- MODULE LifecycleProofs --------------------------
(***************************************************************************)
(* A VirtualMachine takes over nothing of an earlier one, and the system   *)
(* implements the life cycle of MachineLifecycle, for any number of        *)
(* Machines and names, also when several Machines share a name, and any    *)
(* number of faults, upsets and incarnations.                              *)
(*                                                                         *)
(* Both rest on the ignition secret, which Create makes first and Delete   *)
(* leaves: whatever there is of a name in the two clusters has used it up. *)
(* A Create under way relies on the secret it has just made; NamesInv is   *)
(* both.  The refinement then looks at what a step does to each of the     *)
(* four abstract variables; the lemmas say which calls touch which.        *)
(***************************************************************************)
EXTENDS FinalizerProofs

-----------------------------------------------------------------------------
(* Which calls write what. *)

\* The calls that write the infra cluster are the four of the wrapper; only drain and
\* deleteNode write Nodes, nobody but KubeVirt writes instances, and the VirtualMachine
\* is created right after the secret or not at all.
LEMMA CallFrame ==
  ASSUME Call
  PROVE  /\ pc # "idle"
         /\ createSecret \/ createVM \/ updateVM \/ deleteVM \/ UNCHANGED <<secrets, vms>>
         /\ drain \/ deleteNode \/ UNCHANGED nodes
         /\ UNCHANGED vmis
         /\ pc' = "createVM" => createSecret
<1>1. ASSUME Fails  PROVE pc' # "createVM"
  BY <1>1 DEF Fails, Reports, PatchAfterError, Goto, Return, Done
<1>2. Refused \/ Unsent \/ Panic =>
        /\ UNCHANGED <<secrets, vms, vmis, nodes>> /\ pc' # "createVM"
  BY <1>1 DEF Refused, Unsent, Panic, Restart, Done, clusterVars, tenantVars, infraVars
<1>3. ASSUME NEW v, StartSync(v)  PROVE pc' # "createVM"
  BY <1>3 DEF StartSync, FinishSync
<1>4. CASE addFinalizer \/ removeFinalizer \/ failAnnotation \/ patchMachine \/ patchStatus
  BY <1>1, <1>2, <1>4
  DEF addFinalizer, removeFinalizer, failAnnotation, patchMachine, patchStatus, WriteTenant,
      Lost, StoreMachine, Return, Done, GotoWith, infraVars
<1>5. CASE setDeleting \/ setProvisioning \/ setRunning \/ failStatus \/ reportError
  BY <1>1, <1>2, <1>5
  DEF setDeleting, setProvisioning, setRunning, failStatus, reportError, updateStatus,
      WriteTenant, Lost, StoreMachine, Reports, Return, Done, Goto, GotoWith, clusterVars,
      infraVars, tenantVars
<1>6. CASE drain \/ deleteNode
  BY <1>1, <1>2, <1>6
  DEF drain, deleteNode, WriteTenant, Lost, Goto, clusterVars, infraVars
<1>7. CASE createSecret \/ deleteVM
  BY <1>1, <1>2, <1>7
  DEF createSecret, deleteVM, WriteInfra, Lost, CreateSecret, DeleteVirtualMachine, Goto,
      tenantVars
<1>8. CASE createVM \/ updateVM
  BY <1>1, <1>2, <1>3, <1>8
  DEF createVM, updateVM, WriteInfra, Lost, CreateVirtualMachine, UpdateVirtualMachine,
      CreateFails, Goto, Return, Done, clusterVars, infraVars, tenantVars
<1>9. CASE getForDelete \/ existsAfterDelete \/ exists \/ getUserData
  BY <1>2, <1>9
  DEF getForDelete, existsAfterDelete, exists, getUserData, Read, DeleteFails, CreateFails,
      Restart, Goto, Return, Done, clusterVars, infraVars, tenantVars
<1>10. CASE getForUpdate \/ getVMI
  BY <1>1, <1>2, <1>10
  DEF getForUpdate, getVMI, Read, FinishSync, Reports, Goto, Return, Done, clusterVars,
      infraVars, tenantVars
<1> QED  BY <1>4, <1>5, <1>6, <1>7, <1>8, <1>9, <1>10 DEF Call

\* A VirtualMachine is never created by an Update or a Delete, and neither touches a secret.
LEMMA TakesVMs ==
  ASSUME TypeOK, updateVM \/ deleteVM
  PROVE  /\ NoNewVM /\ UNCHANGED secrets
         /\ \A n \in Names \ {name} : vms'[n] = vms[n]
         /\ name \in Names
<1>1. pc # "idle" /\ pc # "createVM"
  BY DEF updateVM, deleteVM
<1>2. name \in Names
  BY <1>1, HandlerObjects DEF TypeOK, WorkerTypeOK
<1>3. CASE UNCHANGED <<secrets, vms>>
  BY <1>2, <1>3 DEF NoNewVM
<1>4. ASSUME NEW v, UpdateVirtualMachineAccepted(name, vm), UpdateVirtualMachine(name, v),
             vm # Absent
      PROVE  /\ NoNewVM /\ UNCHANGED secrets
             /\ \A n \in Names \ {name} : vms'[n] = vms[n]
  BY <1>2, <1>4
  DEF UpdateVirtualMachineAccepted, UpdateVirtualMachine, NoNewVM, TypeOK, InfraTypeOK
<1>5. ASSUME DeleteVirtualMachineAccepted(name), DeleteVirtualMachine(name)
      PROVE  /\ NoNewVM /\ UNCHANGED secrets
             /\ \A n \in Names \ {name} : vms'[n] = vms[n]
  BY <1>2, <1>5
  DEF DeleteVirtualMachineAccepted, DeleteVirtualMachine, NoNewVM, TypeOK, InfraTypeOK
<1>6. Refused \/ Unsent => UNCHANGED <<secrets, vms>>
  BY DEF Refused, Unsent, clusterVars, infraVars
<1>7. CASE updateVM
  <2>1. vm # Absent
    BY <1>7 DEF updateVM, TypeOK, WorkerTypeOK, HandlerTypeOK
  <2> QED  BY <1>2, <1>3, <1>4, <1>6, <1>7, <2>1 DEF updateVM, WriteInfra, Lost
<1>8. CASE deleteVM
  BY <1>2, <1>3, <1>5, <1>6, <1>8 DEF deleteVM, WriteInfra, Lost
<1> QED  BY <1>7, <1>8

\* The secret is made for the Create under way, or its name is lost, or nothing happens.
LEMMA CreateSecretCases ==
  ASSUME TypeOK, createSecret
  PROVE  /\ name \in Names /\ key \in Machines /\ pc = "createSecret"
         /\ UNCHANGED <<machines, vms, vmis, nodes>>
         /\ \/ /\ name \notin secrets /\ secrets' = secrets \cup {name}
               /\ pc' = "createVM" /\ key' = key
            \/ name \notin secrets /\ secrets' = secrets \cup {name} /\ pc' = "idle"
            \/ UNCHANGED secrets /\ pc' = "idle"
<1>1. name \in Names /\ key \in Machines /\ pc = "createSecret"
  BY HandlerObjects DEF createSecret, TypeOK, WorkerTypeOK
<1>2. Fails => pc' = "idle"
  BY <1>1 DEF Fails, ReportedCalls, UpdateCalls, Return, Done
<1>3. Refused \/ Unsent => /\ pc' = "idle"
                           /\ UNCHANGED <<secrets, machines, vms, vmis, nodes>>
  BY <1>2 DEF Refused, Unsent, clusterVars, infraVars, tenantVars
<1> QED
  BY <1>1, <1>2, <1>3
  DEF createSecret, WriteInfra, Lost, CreateSecretAccepted, CreateSecret, Goto, tenantVars

\* The VirtualMachine is created, or it never will be: the handler leaves createVM.
LEMMA CreateVMCases ==
  ASSUME TypeOK, createVM
  PROVE  /\ name \in Names /\ key \in Machines /\ pc = "createVM" /\ pc' # "createVM"
         /\ UNCHANGED <<secrets, machines, vmis, nodes>>
         /\ \/ UNCHANGED vms
            \/ \E v \in VM : vms[name] = Absent /\ vms' = [vms EXCEPT ![name] = v]
<1> DEFINE v == NewVM(CreateVirtualMachineFromMachine(m.config), m.instanceState)
<1>1. name \in Names /\ key \in Machines /\ m \in Machine /\ pc = "createVM"
  BY HandlerObjects DEF createVM, TypeOK, WorkerTypeOK
<1>2. v \in VM
  <2>1. m.config \in Config /\ m.instanceState \in InstanceStates
    BY <1>1 DEF Machine
  <2> QED  BY <2>1, VMSpecType DEF NewVM, VM
<1>3. Fails => pc' = "idle"
  BY <1>1 DEF Fails, ReportedCalls, UpdateCalls, Return, Done
<1>4. Refused \/ Unsent \/ Panic
        => pc' # "createVM" /\ UNCHANGED <<secrets, machines, vms, vmis, nodes>>
  BY <1>3 DEF Refused, Unsent, Panic, Restart, Done, clusterVars, infraVars, tenantVars
<1>5. StartSync(v) => pc' # "createVM"
  BY DEF StartSync, FinishSync
<1>6. CASE WriteInfra(CreateVirtualMachineAccepted(name), CreateVirtualMachine(name, v),
                      StartSync(v))
  <2> HIDE DEF v
  <2> QED
    BY <1>1, <1>2, <1>3, <1>4, <1>5, <1>6
    DEF WriteInfra, Lost, CreateVirtualMachineAccepted, CreateVirtualMachine, tenantVars
<1>7. CASE CreateFails(WrapError("invalid")) /\ UNCHANGED clusterVars
  BY <1>1, <1>7
  DEF CreateFails, Goto, Return, Done, clusterVars, infraVars, tenantVars
<1>8. CASE Panic
  BY <1>1, <1>4, <1>8
<1> QED  BY <1>6, <1>7, <1>8 DEF createVM

-----------------------------------------------------------------------------
(* What is used up stays used up, and what there is of a name has used it up. *)

\* Whatever there is of a name - VirtualMachine, instance, Node - has used it up.
NamesUsedOnce ==
  \A n \in Names : vms[n] # Absent \/ vmis[n] # "none" \/ nodes[n] # Absent => n \in Used

\* The inductive invariant: a Create that is about to make its VirtualMachine has its
\* secret, which thereby refuses every other Create of the name.
NamesInv == NamesUsedOnce /\ (pc = "createVM" => name \in secrets)

\* The steps that change neither secrets nor where a Create stands change no used name.
LEMMA SameUsed ==
  ASSUME UNCHANGED secrets,
         UNCHANGED <<pc, key>> \/ (pc # "createVM" /\ pc' # "createVM")
  PROVE  Used' = Used
BY DEF Used, name

\* What the steps of the two clusters leave alone.
LEMMA EnvironmentFrame ==
  ASSUME (\E n \in Names : InfraNext(n)) \/ (\E k \in Machines : TenantNext(k))
  PROVE  UNCHANGED <<secrets, cache, pc, key, m, origin, version, vm>>
<1>1. ASSUME NEW n \in Names, InfraNext(n)
      PROVE  UNCHANGED secrets /\ UNCHANGED workerVars
  BY <1>1 DEF InfraNext, KubeVirt, StartVMI, SyncVMStatus, StopVMI, FinishVM, FailVMI,
              DropVM, DeleteVirtualMachine, BootGuest, KubeletWrites, infraVars
<1>2. ASSUME NEW k \in Machines, TenantNext(k)
      PROVE  UNCHANGED secrets /\ UNCHANGED workerVars
  BY <1>2 DEF TenantNext, UserCreates, UserDeletes, UserEdits, UserEditsUserData, NodeLink,
              NodeUnlink, infraVars
<1> QED  BY <1>1, <1>2 DEF workerVars, localVars

\* Names are used up one at a time: by a secret whose Create does not get its answer, or
\* when the handler leaves createVM, whichever way.
LEMMA UsedCases ==
  ASSUME TypeOK, NamesInv, [Next]_vars
  PROVE  \/ Used' = Used
         \/ /\ name \notin Used /\ Used' = Used \cup {name} /\ pc' # "createVM"
            /\ createSecret \/ createVM \/ (Crash /\ pc = "createVM")
<1>1. CASE createSecret
  <2>1. CASE pc' = "createVM"
    BY <1>1, <2>1, CreateSecretCases DEF Used, name
  <2>2. CASE pc' = "idle"
    BY <1>1, <2>2, CreateSecretCases DEF Used, name
  <2> QED  BY <1>1, <2>1, <2>2, CreateSecretCases
<1>2. CASE createVM
  BY <1>2, CreateVMCases DEF Used, NamesInv
<1>3. CASE Call /\ ~createSecret /\ ~createVM
  <2>1. UNCHANGED secrets /\ pc' # "createVM"
    BY <1>3, CallFrame, TakesVMs
  <2>2. pc # "createVM"
    BY <1>3 DEF Call, addFinalizer, setDeleting, drain, getForDelete, deleteVM,
       existsAfterDelete, deleteNode, removeFinalizer, exists, setProvisioning, getUserData,
       getForUpdate, updateVM, getVMI, patchMachine, patchStatus, setRunning,
       failAnnotation, failStatus, reportError
  <2> QED  BY <2>1, <2>2, SameUsed
<1>4. ASSUME NEW k \in Machines, Reconcile(k)
      PROVE  Used' = Used
  <2>1. UNCHANGED secrets /\ pc # "createVM" /\ pc' # "createVM"
    BY <1>4 DEF Reconcile, clusterVars, infraVars, localVars
  <2> QED  BY <2>1, SameUsed
<1>5. ASSUME NEW k \in Machines, Sync(k) \/ Resync(k)
      PROVE  Used' = Used
  <2>1. UNCHANGED secrets /\ UNCHANGED <<pc, key>>
    BY <1>5 DEF Sync, Resync, clusterVars, infraVars, localVars
  <2> QED  BY <2>1, SameUsed
<1>6. CASE Crash
  <2>1. UNCHANGED secrets /\ pc' = "idle"
    BY <1>6 DEF Crash, Restart, Done, clusterVars, infraVars
  <2>2. CASE pc = "createVM"
    BY <1>6, <2>1, <2>2 DEF Used, NamesInv
  <2>3. CASE pc # "createVM"
    BY <2>1, <2>3, SameUsed
  <2> QED  BY <2>2, <2>3
<1>7. CASE (\E n \in Names : InfraNext(n)) \/ (\E k \in Machines : TenantNext(k))
  BY <1>7, EnvironmentFrame, SameUsed
<1>8. CASE UNCHANGED vars
  BY <1>8, SameUsed DEF vars, clusterVars, infraVars, workerVars, localVars
<1> QED  BY <1>1, <1>2, <1>3, <1>4, <1>5, <1>6, <1>7, <1>8 DEF Next, ControllerNext

\* VirtualMachines, instances and Nodes appear only where the name is used up, or is used
\* up by the very step: createVM.
LEMMA Appearances ==
  ASSUME TypeOK, NamesInv, [Next]_vars, NEW n \in Names
  PROVE  /\ vms[n] = Absent /\ vms'[n] # Absent => createVM /\ n = name
         /\ vmis[n] = "none" /\ vmis'[n] # "none" => n \in Used
         /\ nodes[n] = Absent /\ nodes'[n] # Absent => n \in Used
<1>1. CASE Call
  <2>1. nodes[n] = Absent => nodes'[n] = Absent
    <3>1. CASE UNCHANGED nodes
      BY <3>1
    <3>2. CASE drain \/ deleteNode
      <4>1. name \in Names
        BY <1>1, CallFrame, HandlerObjects DEF TypeOK, WorkerTypeOK
      <4>2. \/ UNCHANGED nodes
            \/ nodes' = [nodes EXCEPT ![name] =
                           IF @ = Absent THEN Absent ELSE [@ EXCEPT !.drained = TRUE]]
            \/ nodes' = [nodes EXCEPT ![name] = Absent]
        BY <3>2 DEF drain, deleteNode, WriteTenant, Lost, Refused, Unsent, clusterVars,
           tenantVars
      <4> QED  BY <4>1, <4>2 DEF TypeOK, TenantTypeOK
    <3> QED  BY <1>1, <3>1, <3>2, CallFrame
  <2>2. vms[n] = Absent /\ vms'[n] # Absent => createVM /\ n = name
    <3>1. CASE createVM
      BY <3>1, CreateVMCases DEF TypeOK, InfraTypeOK
    <3>2. CASE ~createVM
      BY <1>1, <3>2, CallFrame, TakesVMs, CreateSecretCases DEF NoNewVM
    <3> QED  BY <3>1, <3>2
  <2> QED  BY <1>1, <2>1, <2>2, CallFrame
<1>2. ASSUME NEW j \in Names, InfraNext(j)
      PROVE  /\ vms[n] = Absent => vms'[n] = Absent
             /\ vmis[n] = "none" /\ vmis'[n] # "none" => n \in Used
             /\ nodes[n] = Absent /\ nodes'[n] # Absent => n \in Used
  <2>1. NoNewVM
    BY <1>2, EnvironmentIsQuiet DEF Quiet, InfraNext
  <2>2. vmis[n] = "none" /\ vmis'[n] # "none" => StartVMI(j) /\ n = j
    BY <1>2 DEF InfraNext, KubeVirt, StartVMI, SyncVMStatus, StopVMI, FinishVM, FailVMI,
       DropVM, DeleteVirtualMachine, BootGuest, KubeletWrites, infraVars, TypeOK, InfraTypeOK
  <2>3. nodes[n] = Absent /\ nodes'[n] # Absent => vmis[n] # "none"
    BY <1>2, KubeletKeeps DEF InfraNext, BootGuest, tenantVars, TypeOK, TenantTypeOK
  <2>4. vmis[n] # "none" \/ vms[n] # Absent => n \in Used
    BY DEF NamesInv, NamesUsedOnce
  <2> QED  BY <2>1, <2>2, <2>3, <2>4 DEF NoNewVM, StartVMI
<1>3. ASSUME NEW k \in Machines,
             TenantNext(k) \/ Reconcile(k) \/ Sync(k) \/ Resync(k)
      PROVE  UNCHANGED <<vms, vmis, nodes>>
  BY <1>3 DEF TenantNext, UserCreates, UserDeletes, UserEdits, UserEditsUserData, NodeLink,
     NodeUnlink, Reconcile, Sync, Resync, Crash, vars, clusterVars, infraVars, tenantVars
<1>4. CASE Crash \/ UNCHANGED vars
  BY <1>4 DEF Crash, vars, clusterVars, infraVars, tenantVars
<1> QED  BY <1>1, <1>2, <1>3, <1>4 DEF Next, ControllerNext

\* Every step keeps the invariant.
LEMMA NamesStep ==
  ASSUME TypeOK, NamesInv, [Next]_vars
  PROVE  NamesInv'
<1>1. Used \subseteq Used'
  BY UsedCases
<1>2. createVM => name \in Used'
  BY CreateVMCases DEF Used, NamesInv
<1>3. NamesUsedOnce'
  BY <1>1, <1>2, Appearances DEF NamesInv, NamesUsedOnce
<1>4. ASSUME pc' = "createVM"  PROVE name' \in secrets'
  <2>1. CASE Call
    BY <1>4, <2>1, CallFrame, CreateSecretCases DEF name
  <2>2. ASSUME UNCHANGED <<secrets, pc, key>>  PROVE name' \in secrets'
    BY <1>4, <2>2 DEF NamesInv, name
  <2>3. ASSUME NEW k \in Machines, Reconcile(k)  PROVE pc' # "createVM"
    BY <2>3 DEF Reconcile, localVars
  <2>4. ASSUME NEW k \in Machines, Sync(k) \/ Resync(k)  PROVE UNCHANGED <<secrets, pc, key>>
    BY <2>4 DEF Sync, Resync, clusterVars, infraVars, localVars
  <2>5. Crash => pc' # "createVM"
    BY DEF Crash, Restart, Done
  <2>6. CASE UNCHANGED vars
    BY <2>2, <2>6 DEF vars, clusterVars, infraVars, workerVars, localVars
  <2> QED
    BY <1>4, <2>1, <2>2, <2>3, <2>4, <2>5, <2>6, EnvironmentFrame DEF Next, ControllerNext
<1> QED  BY <1>3, <1>4 DEF NamesInv

\* The invariant holds initially, and in every reachable state.
LEMMA NamesInvariant == Spec => []NamesInv
<1>1. Init => NamesInv
  BY DEF Init, InfraInit, TenantInit, WorkerInit, NamesInv, NamesUsedOnce
<1>2. TypeOK /\ NamesInv /\ [Next]_vars => NamesInv'
  BY NamesStep
<1> QED  BY <1>1, <1>2, TypeCorrect, PTL DEF Spec

\* What a VirtualMachine finds that is created in this step.
StartsFresh ==
  \A n \in Names : vms[n] = Absent /\ vms'[n] # Absent
    => vmis[n] = "none" /\ nodes[n] = Absent

\* A VirtualMachine takes over neither the instance nor the Node of an earlier one of its
\* name, although the Machine is released, and may be created anew, while both are still
\* there (kubevirt.go:111-146): the Create that makes it has just made its secret
\* (kubevirt.go:60-64), and the name was not used before.
THEOREM VMsStartFresh == Spec => VMStartsFresh
<1>1. TypeOK /\ NamesInv /\ [Next]_vars => [StartsFresh]_vars
  <2> SUFFICES ASSUME TypeOK, NamesInv, [Next]_vars,
                      NEW n \in Names, vms[n] = Absent, vms'[n] # Absent
               PROVE  vmis[n] = "none" /\ nodes[n] = Absent
    BY DEF StartsFresh
  <2>1. pc = "createVM" /\ n = name
    BY Appearances DEF createVM
  <2>2. n \notin Used
    BY <2>1 DEF Used
  <2> QED  BY <2>2 DEF NamesInv, NamesUsedOnce
<1> QED  BY <1>1, TypeCorrect, NamesInvariant, PTL DEF Spec, VMStartsFresh, StartsFresh

-----------------------------------------------------------------------------
(* The refinement: what a step does to claims, used, backed and joined names. *)

\* One step of the life cycle, or none.
LifecycleStep == Lifecycle!LifecycleNext \/ UNCHANGED <<Claims, Used, BackedNames, JoinedNames>>

\* No finalizer and no deletion timestamp changes: no claim does.
LEMMA SameClaims ==
  ASSUME SameMarks
  PROVE  Claims' = Claims
<1>1. ASSUME NEW k \in Machines  PROVE ClaimOf(machines'[k]) = ClaimOf(machines[k])
  BY DEF SameMarks, ClaimOf, HasFinalizer, Deleted
<1> QED  BY <1>1 DEF Claims

\* A Machine is stored: the claim of its key becomes that of the Machine.
LEMMA OneClaim ==
  ASSUME TypeOK, NEW k \in Machines, NEW o, machines' = [machines EXCEPT ![k] = o]
  PROVE  Claims' = [Claims EXCEPT ![k] = ClaimOf(o)]
BY DEF Claims, TypeOK, TenantTypeOK

\* The finalizer is added: the Machine claims its name.
LEMMA AddFinalizerRefines ==
  ASSUME TypeOK, FinalizerInv, NamesInv, addFinalizer
  PROVE  LifecycleStep
<1> DEFINE o == UpdatedMachine(version, [m EXCEPT !.finalizer = TRUE])
<1>1. key \in Machines /\ m \in Machine /\ version \in Machine /\ pc = "addFinalizer"
  BY HandlerObjects DEF addFinalizer, TypeOK, WorkerTypeOK
<1>2. o \in Machine /\ o.finalizer /\ o.deleted = version.deleted
  <2>1. [m EXCEPT !.finalizer = TRUE] \in Machine /\ [m EXCEPT !.finalizer = TRUE].finalizer
    BY <1>1 DEF Machine
  <2> QED  BY <1>1, <2>1, UpdatedMachineType
<1>3. WriteTenant(UpdateAccepted(key, version, m), StoreMachine(key, o), Return(FALSE))
  BY DEF addFinalizer
<1>4. UNCHANGED <<Used, BackedNames, JoinedNames>>
  <2>1. Call /\ ~createSecret /\ ~createVM /\ ~updateVM /\ ~deleteVM /\ ~drain /\ ~deleteNode
    BY <1>1
    DEF Call, addFinalizer, createSecret, createVM, updateVM, deleteVM, drain, deleteNode
  <2> QED
    BY <1>1, <2>1, CallFrame, UsedCases DEF BackedNames, JoinedNames, Next, ControllerNext
<1> HIDE DEF o
<1>5. CASE machines[key] = version /\ machines' = [machines EXCEPT ![key] = o]
  <2>1. Absent \notin Machine
    BY TenantAssumption
  <2>2. ClaimOf(o) = IF version.deleted THEN "condemned" ELSE "held"
    BY <1>2, <2>1 DEF ClaimOf, HasFinalizer, Has
  <2>3. Claims' = [Claims EXCEPT ![key] = ClaimOf(o)]
    BY <1>1, <1>5, OneClaim
  <2>4. Claims[key] = ClaimOf(version) /\ version # Absent
    BY <1>1, <1>5, <2>1 DEF Claims
  <2>5. CASE version.finalizer
    <3>1. ClaimOf(version) = ClaimOf(o)
      BY <2>2, <2>4, <2>5 DEF ClaimOf, HasFinalizer, Has
    <3>2. Claims' = Claims
      BY <2>3, <2>4, <3>1 DEF Claims
    <3> QED  BY <1>4, <3>2 DEF LifecycleStep
  <2>6. CASE ~version.finalizer
    <3>1. ClaimOf(version) = "none" /\ ClaimOf(o) = "held"
      BY <1>1, <1>5, <2>2, <2>4, <2>6
      DEF ClaimOf, HasFinalizer, FinalizerInv, DeletedHasFinalizer, Deleted, Has
    <3>2. Lifecycle!Claim(key)
      BY <1>4, <2>3, <2>4, <3>1 DEF Lifecycle!Claim
    <3> QED  BY <1>1, <3>2 DEF LifecycleStep, Lifecycle!LifecycleNext
  <2> QED  BY <2>5, <2>6
<1>6. pc \notin ReportedCalls \cup UpdateCalls
  BY <1>1 DEF ReportedCalls, UpdateCalls
<1>7. Quiet \/ (machines[key] = version /\ machines' = [machines EXCEPT ![key] = o])
  BY <1>3, <1>6, StoredUpdate
<1>8. Quiet => LifecycleStep
  BY <1>4, SameClaims DEF Quiet, LifecycleStep
<1> QED  BY <1>5, <1>7, <1>8

\* The finalizer is removed: a condemned Machine gives its name back, with the
\* VirtualMachine gone.
LEMMA RemoveFinalizerRefines ==
  ASSUME TypeOK, FinalizerInv, NamesInv, removeFinalizer
  PROVE  LifecycleStep
<1> DEFINE o == UpdatedMachine(version, [m EXCEPT !.finalizer = FALSE])
<1>1. key \in Machines /\ m \in Machine /\ version \in Machine /\ pc = "removeFinalizer"
  BY HandlerObjects DEF removeFinalizer, TypeOK, WorkerTypeOK
<1>2. ClaimOf(o) = "none"
  <2>1. [m EXCEPT !.finalizer = FALSE] \in Machine /\ ~[m EXCEPT !.finalizer = FALSE].finalizer
    BY <1>1 DEF Machine
  <2> QED  BY <1>1, <2>1, UpdatedMachineType DEF ClaimOf, HasFinalizer, Has
<1>3. WriteTenant(UpdateAccepted(key, version, m), StoreMachine(key, o), Return(FALSE))
  BY DEF removeFinalizer
<1>4. UNCHANGED <<Used, BackedNames, JoinedNames>>
  <2>1. Call /\ ~createSecret /\ ~createVM /\ ~updateVM /\ ~deleteVM /\ ~drain /\ ~deleteNode
    BY <1>1
    DEF Call, removeFinalizer, createSecret, createVM, updateVM, deleteVM, drain, deleteNode
  <2> QED
    BY <1>1, <2>1, CallFrame, UsedCases DEF BackedNames, JoinedNames, Next, ControllerNext
<1> HIDE DEF o
<1>5. CASE machines[key] = version /\ machines' = [machines EXCEPT ![key] = o]
  <2>1. ~Live(machines[key]) /\ vms[NameOf[key]] = Absent
    BY <1>1 DEF FinalizerInv, HandlerIsRight, HandlesDeleted, name
  <2>2. Claims' = [Claims EXCEPT ![key] = "none"]
    BY <1>1, <1>2, <1>5, OneClaim
  <2>3. Claims[key] \in {"none", "condemned"}
    BY <1>1, <2>1 DEF Claims, ClaimOf, Live
  <2>4. CASE Claims[key] = "none"
    BY <1>4, <2>2, <2>4 DEF LifecycleStep, Claims
  <2>5. CASE Claims[key] = "condemned"
    <3>1. NameOf[key] \notin BackedNames
      BY <2>1 DEF BackedNames
    <3>2. Lifecycle!Release(key)
      BY <1>4, <2>2, <2>5, <3>1 DEF Lifecycle!Release
    <3> QED  BY <1>1, <3>2 DEF LifecycleStep, Lifecycle!LifecycleNext
  <2> QED  BY <2>3, <2>4, <2>5
<1>6. pc \notin ReportedCalls \cup UpdateCalls
  BY <1>1 DEF ReportedCalls, UpdateCalls
<1>7. Quiet \/ (machines[key] = version /\ machines' = [machines EXCEPT ![key] = o])
  BY <1>3, <1>6, StoredUpdate
<1>8. Quiet => LifecycleStep
  BY <1>4, SameClaims DEF Quiet, LifecycleStep
<1> QED  BY <1>5, <1>7, <1>8

\* A Create makes its secret and its VirtualMachine for a Machine that claims the name;
\* the attempt spoils the name if it goes no further, or if the process stops.
LEMMA CreateRefines ==
  ASSUME TypeOK, FinalizerInv, NamesInv, createSecret \/ createVM \/ Crash
  PROVE  LifecycleStep
<1>1. [Next]_vars
  BY DEF Next, ControllerNext, Call
<1>2. ASSUME pc \in HandlesLive, key \in Machines
      PROVE  NameOf[key] = name /\ Claims[key] # "none"
  BY <1>2 DEF FinalizerInv, HandlerIsRight, Claims, ClaimOf, name
<1>3. ASSUME pc = "createVM", pc' # "createVM", UNCHANGED secrets
      PROVE  name \notin Used /\ Used' = Used \cup {name}
  BY <1>3 DEF NamesInv, Used
<1>4. CASE createSecret
  <2>1. name \in Names /\ UNCHANGED <<Claims, BackedNames, JoinedNames>>
    BY <1>4, CreateSecretCases DEF Claims, BackedNames, JoinedNames
  <2>2. Claims[key] # "none" /\ NameOf[key] = name /\ key \in Machines
    BY <1>2, <1>4, CreateSecretCases DEF HandlesLive
  <2>3. CASE name \notin Used /\ Used' = Used \cup {name}
    <3>1. Lifecycle!Spoil(name)
      BY <2>1, <2>2, <2>3 DEF Lifecycle!Spoil
    <3> QED  BY <2>1, <3>1 DEF LifecycleStep, Lifecycle!LifecycleNext
  <2> QED  BY <1>1, <2>1, <2>3, UsedCases DEF LifecycleStep
<1>5. CASE createVM
  <2>1. name \in Names /\ UNCHANGED <<Claims, JoinedNames>>
    BY <1>5, CreateVMCases DEF Claims, JoinedNames
  <2>2. Claims[key] # "none" /\ NameOf[key] = name /\ key \in Machines
    BY <1>2, <1>5, CreateVMCases DEF HandlesLive
  <2>3. name \notin Used /\ Used' = Used \cup {name}
    BY <1>3, <1>5, CreateVMCases
  <2>4. CASE UNCHANGED vms
    <3>1. Lifecycle!Spoil(name)
      BY <2>1, <2>2, <2>3, <2>4 DEF Lifecycle!Spoil, BackedNames
    <3> QED  BY <2>1, <3>1 DEF LifecycleStep, Lifecycle!LifecycleNext
  <2>5. CASE \E v \in VM : vms[name] = Absent /\ vms' = [vms EXCEPT ![name] = v]
    <3>1. BackedNames' = BackedNames \cup {name}
      BY <2>1, <2>5, InfraAssumption DEF BackedNames, TypeOK, InfraTypeOK
    <3>2. Lifecycle!Back(name)
      BY <2>1, <2>2, <2>3, <3>1 DEF Lifecycle!Back
    <3> QED  BY <2>1, <3>2 DEF LifecycleStep, Lifecycle!LifecycleNext
  <2> QED  BY <1>5, <2>4, <2>5, CreateVMCases
<1>6. CASE Crash
  <2>1. UNCHANGED <<Claims, BackedNames, JoinedNames>>
    BY <1>6 DEF Crash, clusterVars, infraVars, tenantVars, Claims, BackedNames, JoinedNames
  <2>2. CASE name \notin Used /\ Used' = Used \cup {name} /\ pc = "createVM"
    <3>1. name \in Names /\ key \in Machines
      BY <2>2, HandlerObjects DEF TypeOK, WorkerTypeOK
    <3>2. Claims[key] # "none" /\ NameOf[key] = name
      BY <1>2, <2>2, <3>1 DEF HandlesLive
    <3>3. Lifecycle!Spoil(name)
      BY <2>1, <2>2, <3>1, <3>2 DEF Lifecycle!Spoil
    <3> QED  BY <3>1, <3>3 DEF LifecycleStep, Lifecycle!LifecycleNext
  <2> QED  BY <1>1, <1>4, <1>5, <2>1, <2>2, UsedCases DEF LifecycleStep
<1> QED  BY <1>4, <1>5, <1>6

\* A VirtualMachine that goes is lost to its name, and a Node leaves after it.
LEMMA LossRefines ==
  ASSUME TypeOK, FinalizerInv, NEW n \in Names,
         UNCHANGED <<Claims, Used>>,
         \/ /\ NoNewVM /\ UNCHANGED JoinedNames
            /\ \A j \in Names \ {n} : vms'[j] = vms[j]
         \/ /\ UNCHANGED BackedNames /\ vms[n] = Absent
            /\ UNCHANGED nodes \/ nodes' = [nodes EXCEPT ![n] = Absent]
  PROVE  LifecycleStep
<1>1. CASE NoNewVM /\ UNCHANGED JoinedNames /\ \A j \in Names \ {n} : vms'[j] = vms[j]
  <2>1. BackedNames' = BackedNames \/ (n \in BackedNames /\ BackedNames' = BackedNames \ {n})
    BY <1>1 DEF BackedNames, NoNewVM
  <2>2. ASSUME n \in BackedNames, BackedNames' = BackedNames \ {n}
        PROVE  Lifecycle!Lose(n)
    BY <1>1, <2>2 DEF Lifecycle!Lose
  <2> QED  BY <1>1, <2>1, <2>2 DEF LifecycleStep, Lifecycle!LifecycleNext
<1>2. CASE /\ UNCHANGED BackedNames /\ vms[n] = Absent
           /\ UNCHANGED nodes \/ nodes' = [nodes EXCEPT ![n] = Absent]
  <2>1. JoinedNames' = JoinedNames \/ (n \in JoinedNames /\ JoinedNames' = JoinedNames \ {n})
    BY <1>2 DEF JoinedNames, TypeOK, TenantTypeOK
  <2>2. ASSUME n \in JoinedNames, JoinedNames' = JoinedNames \ {n}
        PROVE  Lifecycle!Leave(n)
    BY <1>2, <2>2 DEF Lifecycle!Leave, BackedNames
  <2> QED  BY <1>2, <2>1, <2>2 DEF LifecycleStep, Lifecycle!LifecycleNext
<1> QED  BY <1>1, <1>2


\* Every call of Reconcile is a step of the life cycle or none.
LEMMA CallRefines ==
  ASSUME TypeOK, FinalizerInv, NamesInv, Call
  PROVE  LifecycleStep
<1>1. [Next]_vars /\ pc # "idle"
  BY CallFrame DEF Next, ControllerNext
<1>2. name \in Names /\ key \in Machines
  BY <1>1, HandlerObjects DEF TypeOK, WorkerTypeOK
<1>3. CASE addFinalizer \/ removeFinalizer \/ createSecret \/ createVM
  BY <1>3, AddFinalizerRefines, RemoveFinalizerRefines, CreateRefines
<1>4. CASE pc \notin {"addFinalizer", "removeFinalizer", "createSecret", "createVM"}
  <2>1. UNCHANGED Claims
    BY <1>4, QuietCalls, SameClaims DEF Quiet
  <2>2. ~createSecret /\ ~createVM
    BY <1>4 DEF createSecret, createVM
  <2>3. UNCHANGED Used
    BY <1>1, <1>4, <2>2, UsedCases
  <2>4. CASE updateVM \/ deleteVM
    <3>1. UNCHANGED JoinedNames
      BY <2>4, CallFrame DEF updateVM, deleteVM, drain, deleteNode, JoinedNames
    <3> QED  BY <1>2, <2>1, <2>3, <2>4, <3>1, TakesVMs, LossRefines
  <2>5. CASE deleteNode
    <3>1. UNCHANGED BackedNames
      BY <2>2, <2>5, CallFrame DEF deleteNode, updateVM, deleteVM, BackedNames
    <3>2. vms[name] = Absent
      BY <2>5 DEF deleteNode, FinalizerInv, HandlerIsRight
    <3>3. UNCHANGED nodes \/ nodes' = [nodes EXCEPT ![name] = Absent]
      BY <2>5 DEF deleteNode, WriteTenant, Lost, Refused, Unsent, clusterVars, tenantVars
    <3> QED  BY <1>2, <2>1, <2>3, <3>1, <3>2, <3>3, LossRefines
  <2>6. CASE drain
    <3>1. UNCHANGED BackedNames
      BY <2>2, <2>6, CallFrame DEF drain, updateVM, deleteVM, BackedNames
    <3>2. UNCHANGED nodes \/ nodes' = [nodes EXCEPT ![name] =
            IF @ = Absent THEN Absent ELSE [@ EXCEPT !.drained = TRUE]]
      BY <2>6 DEF drain, WriteTenant, Lost, Refused, Unsent, clusterVars, tenantVars
    <3>3. nodes[name] # Absent => [nodes[name] EXCEPT !.drained = TRUE] # Absent
      BY <1>2, TenantAssumption DEF TypeOK, TenantTypeOK, Node
    <3>4. UNCHANGED JoinedNames
      BY <1>2, <3>2, <3>3 DEF JoinedNames, TypeOK, TenantTypeOK
    <3> QED  BY <2>1, <2>3, <3>1, <3>4 DEF LifecycleStep
  <2>7. CASE ~updateVM /\ ~deleteVM /\ ~drain /\ ~deleteNode
    <3>1. UNCHANGED <<vms, nodes>>
      BY <2>2, <2>7, CallFrame
    <3> QED  BY <2>1, <2>3, <3>1 DEF LifecycleStep, BackedNames, JoinedNames
  <2> QED  BY <2>4, <2>5, <2>6, <2>7
<1> QED
  BY <1>3, <1>4
  DEF Call, setDeleting, drain, getForDelete, deleteVM, existsAfterDelete, deleteNode,
      exists, setProvisioning, getUserData, getForUpdate, updateVM, getVMI, patchMachine,
      patchStatus, setRunning, failAnnotation, failStatus, reportError

\* KubeVirt and the administrators of the infra cluster lose VirtualMachines; a guest that
\* boots joins under a name that was used.
LEMMA InfraRefines ==
  ASSUME TypeOK, FinalizerInv, NamesInv, NEW n \in Names, InfraNext(n)
  PROVE  LifecycleStep
<1>1. UNCHANGED <<Claims, Used>>
  <2>1. UNCHANGED machines
    BY DEF InfraNext, BootGuest, KubeletWrites, tenantVars
  <2> QED  BY <2>1, EnvironmentFrame, SameUsed DEF Claims
<1>2. CASE BootGuest(n)
  <2>1. UNCHANGED BackedNames /\ n \in Used
    BY <1>2 DEF BootGuest, BackedNames, NamesInv, NamesUsedOnce
  <2>2. NewNode # Absent
    BY NewNodeType, TenantAssumption
  <2>3. JoinedNames' = JoinedNames \cup {n}
    BY <1>2, <2>2 DEF BootGuest, JoinedNames, TypeOK, TenantTypeOK
  <2>4. CASE n \in JoinedNames
    <3>1. UNCHANGED JoinedNames
      BY <2>3, <2>4
    <3> QED  BY <1>1, <2>1, <3>1 DEF LifecycleStep
  <2>5. CASE n \notin JoinedNames
    <3>1. Lifecycle!Join(n)
      BY <1>1, <2>1, <2>3, <2>5 DEF Lifecycle!Join
    <3> QED  BY <3>1 DEF LifecycleStep, Lifecycle!LifecycleNext
  <2> QED  BY <2>4, <2>5
<1>3. CASE KubeletWrites(n)
  <2>1. UNCHANGED JoinedNames
    BY <1>3, KubeletKeeps DEF JoinedNames, TypeOK
  <2>2. UNCHANGED BackedNames
    BY <1>3 DEF KubeletWrites, BackedNames, infraVars
  <2> QED  BY <1>1, <2>1, <2>2 DEF LifecycleStep
<1>4. CASE ~BootGuest(n) /\ ~KubeletWrites(n)
  <2>1. UNCHANGED nodes /\ UNCHANGED workerVars
    BY <1>4 DEF InfraNext, tenantVars
  <2>2. NoNewVM
    BY <2>1, EnvironmentIsQuiet DEF Quiet
  <2>3. \A j \in Names \ {n} : vms'[j] = vms[j]
    BY <1>4 DEF InfraNext, KubeVirt, StartVMI, SyncVMStatus, StopVMI, FinishVM, FailVMI,
       DropVM, DeleteVirtualMachine, TypeOK, InfraTypeOK
  <2> QED  BY <1>1, <2>1, <2>2, <2>3, LossRefines DEF JoinedNames
<1> QED  BY <1>2, <1>3, <1>4

\* A user condemns a Machine that claims its name; one that does not just goes.
LEMMA TenantRefines ==
  ASSUME TypeOK, FinalizerInv, NEW k \in Machines, TenantNext(k)
  PROVE  LifecycleStep
<1>1. UNCHANGED <<Used, BackedNames, JoinedNames>>
  <2>1. UNCHANGED <<vms, nodes>>
    BY DEF TenantNext, UserCreates, UserDeletes, UserEdits, UserEditsUserData, NodeLink,
       NodeUnlink, infraVars
  <2> QED  BY <2>1, EnvironmentFrame, SameUsed DEF BackedNames, JoinedNames
<1>2. CASE UserCreates(k)
  <2>1. PICK c \in Configs : machines' = [machines EXCEPT ![k] = NewMachine(k, c)]
    BY <1>2 DEF UserCreates
  <2>2. ClaimOf(NewMachine(k, c)) = "none" /\ Claims[k] = "none"
    BY <1>2 DEF UserCreates, NewMachine, Claims, ClaimOf, HasFinalizer, Has
  <2>3. Claims' = Claims
    BY <2>1, <2>2, OneClaim DEF Claims
  <2> QED  BY <1>1, <2>3 DEF LifecycleStep
<1>3. CASE UserDeletes(k)
  <2>1. machines[k] \in Machine /\ ~machines[k].deleted /\ Absent \notin Machine
    BY <1>3, TenantAssumption DEF UserDeletes, TypeOK, TenantTypeOK
  <2>2. CASE machines[k].finalizer
    <3> DEFINE o == [machines[k] EXCEPT !.deleted = TRUE]
    <3>1. machines' = [machines EXCEPT ![k] = o]
      BY <1>3, <2>2 DEF UserDeletes
    <3>2. o \in Machine /\ o.deleted /\ o.finalizer
      BY <2>1, <2>2 DEF Machine
    <3> HIDE DEF o
    <3>3. ClaimOf(o) = "condemned" /\ Claims[k] = "held"
      BY <2>1, <2>2, <3>2 DEF Claims, ClaimOf, HasFinalizer, Has
    <3>4. Claims' = [Claims EXCEPT ![k] = "condemned"]
      BY <3>1, <3>3, OneClaim
    <3>5. Lifecycle!Condemn(k)
      BY <1>1, <3>3, <3>4 DEF Lifecycle!Condemn
    <3> QED  BY <3>5 DEF LifecycleStep, Lifecycle!LifecycleNext
  <2>3. CASE ~machines[k].finalizer
    <3>1. machines' = [machines EXCEPT ![k] = Absent]
      BY <1>3, <2>3 DEF UserDeletes
    <3>2. ClaimOf(Absent) = "none" /\ Claims[k] = "none"
      BY <2>3 DEF Claims, ClaimOf, HasFinalizer, Has
    <3>3. Claims' = Claims
      BY <3>1, <3>2, OneClaim DEF Claims
    <3> QED  BY <1>1, <3>3 DEF LifecycleStep
  <2> QED  BY <2>2, <2>3
<1>4. CASE UserEdits(k) \/ UserEditsUserData \/ NodeLink(k) \/ NodeUnlink(k)
  <2>1. UNCHANGED workerVars
    BY DEF TenantNext
  <2>2. UNCHANGED Claims
    BY <1>4, <2>1, EnvironmentIsQuiet, SameClaims DEF Quiet
  <2> QED  BY <1>1, <2>2 DEF LifecycleStep
<1> QED  BY <1>2, <1>3, <1>4 DEF TenantNext

\* Every step of the system is a step of the life cycle or none.
LEMMA LifecycleRefines ==
  ASSUME TypeOK, FinalizerInv, NamesInv, [Next]_vars
  PROVE  LifecycleStep
<1>1. CASE Call
  BY <1>1, CallRefines
<1>2. CASE \/ \E k \in Machines : Reconcile(k) \/ Sync(k) \/ Resync(k)
           \/ UNCHANGED vars
  <2>1. UNCHANGED <<machines, vms, nodes>>
    BY <1>2 DEF Reconcile, Sync, Resync, vars, clusterVars, infraVars, tenantVars
  <2>2. CASE createSecret \/ createVM \/ Crash
    BY <2>2, CreateRefines
  <2>3. CASE UNCHANGED Used
    BY <2>1, <2>3 DEF LifecycleStep, Claims, BackedNames, JoinedNames
  <2> QED  BY <2>2, <2>3, UsedCases
<1>3. CASE Crash
  BY <1>3, CreateRefines
<1>4. CASE \E n \in Names : InfraNext(n)
  BY <1>4, InfraRefines
<1>5. CASE \E k \in Machines : TenantNext(k)
  BY <1>5, TenantRefines
<1> QED  BY <1>1, <1>2, <1>3, <1>4, <1>5 DEF Next, ControllerNext

\* Every step of the controller, the clusters and their faults is a step of the life cycle,
\* or none (controller.go:187-272, kubevirt.go:50-146): a VirtualMachine is created for a
\* Machine that claims it, once, the claim is released only after it, and the Node leaves
\* only after it, whatever the controller read from its cache and however long ago.
THEOREM RefinesLifecycle == Spec => ImplementsLifecycle
<1>1. Init => Lifecycle!LifecycleInit
  BY DEF Init, InfraInit, TenantInit, WorkerInit, Lifecycle!LifecycleInit, Claims, ClaimOf,
     HasFinalizer, Has, Used, BackedNames, JoinedNames
<1>2. TypeOK /\ FinalizerInv /\ NamesInv /\ [Next]_vars
        => [Lifecycle!LifecycleNext]_(Lifecycle!lifecycleVars)
  BY LifecycleRefines DEF LifecycleStep, Lifecycle!lifecycleVars
<1> QED
  BY <1>1, <1>2, TypeCorrect, FinalizerInvariant, NamesInvariant, PTL
  DEF Spec, ImplementsLifecycle, Lifecycle!LifecycleSpec
=============================================================================
