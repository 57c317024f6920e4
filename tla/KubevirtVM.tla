----------------------------- MODULE KubevirtVM -----------------------------
(***************************************************************************)
(* pkg/kubevirt, the wrapper the actuator manages virtual machines with:   *)
(* Create, Delete, Update and Exists as the calls they make to the infra   *)
(* cluster, with the work between two calls in the step that follows it.   *)
(*                                                                         *)
(* A label that is no call of this module is the caller's next call.       *)
(***************************************************************************)
EXTENDS MachineErrors

\* Mutant: no copy of the Machine is kept to compute the patches from.
FinishSyncNoOrigin(v, vmi) ==
  /\ pc' = "patchMachine"
  /\ m' = SyncMachine(m, v, vmi, FormatProviderID(InfraNamespace, name))
  /\ vm' = v
  /\ UNCHANGED <<cache, queue, key, origin, version>>

\* syncMachine, after its VirtualMachine is known: the copy is brought up to
\* date, with addresses when an instance was read, and handed to patchMachine.
FinishSync(v, vmi) ==
  /\ pc' = "patchMachine"
  /\ m' = SyncMachine(m, v, vmi, FormatProviderID(InfraNamespace, name))
  /\ origin' = m
  /\ vm' = v
  /\ UNCHANGED <<cache, queue, key, version>>

\* Mutant: the instance is never read.
StartSyncNoVMI(v) == FinishSync(v, FALSE)

\* Only the instance of a ready VirtualMachine is read.
StartSync(v) ==
  IF v.ready
  THEN pc' = "getVMI" /\ vm' = v /\ UNCHANGED <<cache, queue, key, m, origin, version>>
  ELSE FinishSync(v, FALSE)

\* GetVirtualMachineInstance, in syncMachine: without the instance there is
\* nothing to synchronise.
getVMI ==
  /\ pc = "getVMI"
  /\ Read(IF vmis[name] = "none" THEN Fails ELSE FinishSync(vm, TRUE))

-----------------------------------------------------------------------------
\* Create, up to the secret.
createSecret ==
  /\ pc = "createSecret"
  /\ WriteInfra(CreateSecretAccepted(name), CreateSecret(name), Goto("createVM"))

\* Create, from there: the VirtualMachine is built only now.
createVM ==
  /\ pc = "createVM"
  /\ LET v == NewVM(CreateVirtualMachineFromMachine(m.config), m.instanceState)
     IN \/ /\ BuildOutcome(m.config) = "ok"
           /\ WriteInfra(CreateVirtualMachineAccepted(name), CreateVirtualMachine(name, v),
                         StartSync(v))
        \/ /\ BuildOutcome(m.config) = "invalid"
           /\ CreateFails(WrapError("invalid"))
           /\ UNCHANGED <<clusterVars, faults>>
        \/ /\ BuildOutcome(m.config) = "panic"
           /\ Panic

\* Delete: the VirtualMachine is built for its name only, and a build that fails
\* fails the Delete; one that is not there is deleted already.
getForDelete ==
  /\ pc = "getForDelete"
  /\ \/ /\ CreateMachineScope(m.config) /\ BuildOutcome(m.config) = "ok"
        /\ Read(Goto(IF vms[name] = Absent THEN "existsAfterDelete" ELSE "deleteVM"))
     \/ /\ CreateMachineScope(m.config) /\ BuildOutcome(m.config) = "invalid"
        /\ DeleteFails(WrapError("invalid"))
        /\ UNCHANGED <<clusterVars, faults>>
     \/ /\ CreateMachineScope(m.config) /\ BuildOutcome(m.config) = "panic"
        /\ Panic
     \/ /\ ~CreateMachineScope(m.config)
        /\ DeleteFails("invalid")
        /\ UNCHANGED <<clusterVars, faults>>

\* Mutant: nothing waits for the VirtualMachine to go.
deleteVMNoWait ==
  /\ pc = "deleteVM"
  /\ WriteInfra(DeleteVirtualMachineAccepted(name), DeleteVirtualMachine(name),
                Goto("deleteNode"))

deleteVM ==
  /\ pc = "deleteVM"
  /\ WriteInfra(DeleteVirtualMachineAccepted(name), DeleteVirtualMachine(name),
                Goto("existsAfterDelete"))

\* Update: every error of it brings the key back, whatever its type.
getForUpdate ==
  /\ pc = "getForUpdate"
  /\ \/ /\ CreateMachineScope(m.config) /\ BuildOutcome(m.config) = "ok"
        /\ Read(IF vms[name] = Absent THEN Fails
                ELSE /\ pc' = "updateVM" /\ vm' = vms[name]
                     /\ UNCHANGED <<cache, queue, key, m, origin, version>>)
     \/ /\ CreateMachineScope(m.config) /\ BuildOutcome(m.config) = "panic"
        /\ Panic
     \/ /\ CreateMachineScope(m.config) /\ BuildOutcome(m.config) = "invalid"
        /\ Refused
     \/ /\ ~CreateMachineScope(m.config)
        /\ Reports
        /\ UNCHANGED <<clusterVars, faults>>

updateVM ==
  /\ pc = "updateVM"
  /\ LET v == UpdatedVM(vm, CreateVirtualMachineFromMachine(m.config), m.instanceState)
     IN WriteInfra(UpdateVirtualMachineAccepted(name, vm), UpdateVirtualMachine(name, v),
                   StartSync(v))

\* Mutant: the answer of Exists is not looked at.
existsAfterDeleteIgnored ==
  /\ pc = "existsAfterDelete"
  /\ Read(Goto(IF m.nodeRef THEN "deleteNode" ELSE "removeFinalizer"))

\* Exists, for a Machine that is being deleted and for one that is not; the
\* machine controller says what follows from the answer.
existsAfterDelete ==
  /\ pc = "existsAfterDelete"
  /\ Read(IF vms[name] # Absent THEN Return(TRUE)
          ELSE Goto(IF m.nodeRef THEN "deleteNode" ELSE "removeFinalizer"))

\* Mutant: a terminating VirtualMachine is taken for a missing one.
existsUnlessTerminating ==
  /\ pc = "exists"
  /\ Read(Goto(IF (IF vms[name] = Absent THEN FALSE ELSE ~vms[name].terminating)
               THEN "getForUpdate"
               ELSE IF machineIsProvisioned(m) THEN "failAnnotation"
               ELSE IF m.phase \in NoPhase THEN "setProvisioning"
               ELSE "getUserData"))

\* Mutant: Create waits for phase Provisioning to be over.
existsNeverCreates ==
  /\ pc = "exists"
  /\ Read(Goto(IF vms[name] # Absent THEN "getForUpdate"
               ELSE IF machineIsProvisioned(m) THEN "failAnnotation"
               ELSE IF m.phase \in NoPhase \cup {"Provisioning"} THEN "setProvisioning"
               ELSE "getUserData"))

exists ==
  /\ pc = "exists"
  /\ Read(Goto(IF vms[name] # Absent THEN "getForUpdate"
               ELSE IF machineIsProvisioned(m) THEN "failAnnotation"
               ELSE IF m.phase \in NoPhase THEN "setProvisioning"
               ELSE "getUserData"))
=============================================================================
