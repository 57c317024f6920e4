-------------------------- MODULE MachineController -------------------------
(***************************************************************************)
(* The machine controller (vendored from machine-api-operator): Reconcile, *)
(* which decides from the cached Machine what to do and calls the          *)
(* actuator, and the composition of everything: the controller and its     *)
(* process, the infra cluster and the tenant cluster.                      *)
(***************************************************************************)
EXTENDS Actuator

\* Mutant: a Machine in phase Provisioned is done.
ReconcileProvisionedDone(k) ==
  /\ pc = "idle" /\ k \in queue /\ cache[k] # Absent
  /\ IF cache[k].phase = "Provisioned" /\ ~cache[k].deleted
     THEN queue' = queue \ {k} /\ UNCHANGED localVars
     ELSE /\ pc' = IF cache[k].deleted THEN "setDeleting"
                   ELSE IF cache[k].finalizer THEN "exists" ELSE "addFinalizer"
          /\ key' = k /\ m' = cache[k] /\ version' = cache[k]
          /\ queue' = queue \ {k}
          /\ UNCHANGED <<origin, vm>>
  /\ UNCHANGED <<clusterVars, cache, faults>>

\* Mutant: a Machine in phase Deleting is not deleted a second time.
ReconcileDeletesOnce(k) ==
  /\ pc = "idle" /\ k \in queue /\ cache[k] # Absent
  /\ pc' = IF cache[k].deleted /\ cache[k].phase # "Deleting" THEN "setDeleting"
           ELSE IF cache[k].finalizer THEN "exists" ELSE "addFinalizer"
  /\ key' = k /\ m' = cache[k] /\ version' = cache[k]
  /\ queue' = queue \ {k}
  /\ UNCHANGED <<origin, vm, clusterVars, cache, faults>>

\* Reconcile of the key k, up to its first call.
Reconcile(k) ==
  /\ pc = "idle" /\ k \in queue
  /\ LET c == cache[k]
         Start(label) ==
           /\ pc' = label /\ key' = k /\ m' = c /\ version' = c
           /\ queue' = queue \ {k}
           /\ UNCHANGED <<cache, origin, vm>>
         Finish(requeue) ==
           /\ queue' = IF requeue THEN queue ELSE queue \ {k}
           /\ UNCHANGED <<cache, localVars>>
     IN CASE c = Absent -> Finish(FALSE)
          [] c # Absent -> IF ~Validate(c.config) THEN Finish(TRUE)
                           ELSE IF c.deleted THEN Start("setDeleting")
                           ELSE IF ~c.finalizer THEN Start("addFinalizer")
                           ELSE IF c.phase = "Failed" THEN Finish(FALSE)
                           ELSE Start("exists")
  /\ UNCHANGED <<clusterVars, faults>>

addFinalizer ==
  /\ pc = "addFinalizer"
  /\ WriteTenant(UpdateAccepted(key, version, m),
                 StoreMachine(key, UpdatedMachine(version, [m EXCEPT !.finalizer = TRUE])),
                 Return(FALSE))

-----------------------------------------------------------------------------
\* updateStatus: the phase is in the patch only if the handler's copy had another.
UpdatedStatus(phase) ==
  PatchedStatus(m, [m EXCEPT !.phase = phase], machines[key])
updateStatus(phase, then) ==
  WriteTenant(PatchAccepted(key), StoreMachine(key, UpdatedStatus(phase)), then)

\* Mutant: a Machine already in phase Deleting was drained by an earlier attempt.
setDeletingDrainOnce ==
  /\ pc = "setDeleting"
  /\ LET answer == UpdatedStatus("Deleting")
         copy == Decoded(answer, m)
     IN updateStatus("Deleting",
          IF ~copy.finalizer THEN Return(FALSE)
          ELSE GotoWith(IF /\ copy.nodeRef /\ ~copy.config.excludeNodeDraining
                           /\ m.phase # "Deleting"
                        THEN "drain" ELSE "getForDelete", answer))

\* What follows looks at the copy the answer was decoded into.
setDeleting ==
  /\ pc = "setDeleting"
  /\ LET answer == UpdatedStatus("Deleting")
         copy == Decoded(answer, m)
     IN updateStatus("Deleting",
          IF ~copy.finalizer THEN Return(FALSE)
          ELSE GotoWith(IF copy.nodeRef /\ ~copy.config.excludeNodeDraining
                        THEN "drain" ELSE "getForDelete", answer))

\* Mutant: a Node that is not there cannot be drained.
drainNeedsNode ==
  /\ pc = "drain"
  /\ WriteTenant(nodes[name] # Absent,
                 /\ nodes' = [nodes EXCEPT ![name].drained = TRUE]
                 /\ UNCHANGED <<machines, uids, userData>>,
                 Goto("getForDelete"))

\* The pods are evicted from the Node, which is cordoned first; a Node that is not
\* there has none.
drain ==
  /\ pc = "drain"
  /\ WriteTenant(TRUE,
                 /\ nodes' = [nodes EXCEPT ![name] =
                                IF @ = Absent THEN Absent ELSE [@ EXCEPT !.drained = TRUE]]
                 /\ UNCHANGED <<machines, uids, userData>>,
                 Goto("getForDelete"))

\* The Node is looked up in the cache, and one that is not there is done with.  A cache
\* that has not seen the Node yet counts as a fault; so does one that still shows a Node
\* that is gone, whose deletion is then refused.
deleteNode ==
  /\ pc = "deleteNode"
  /\ \/ WriteTenant(TRUE,
                    /\ nodes' = [nodes EXCEPT ![name] = Absent]
                    /\ UNCHANGED <<machines, uids, userData>>,
                    Goto("removeFinalizer"))
     \/ Fault /\ Goto("removeFinalizer") /\ UNCHANGED clusterVars

\* Mutant: whatever is stored is overwritten.
removeFinalizerBlindly ==
  /\ pc = "removeFinalizer"
  /\ WriteTenant(PatchAccepted(key),
                 StoreMachine(key, UpdatedMachine(machines[key], [m EXCEPT !.finalizer = FALSE])),
                 Return(FALSE))

removeFinalizer ==
  /\ pc = "removeFinalizer"
  /\ WriteTenant(UpdateAccepted(key, version, m),
                 StoreMachine(key, UpdatedMachine(version, [m EXCEPT !.finalizer = FALSE])),
                 Return(FALSE))

-----------------------------------------------------------------------------
setProvisioning ==
  /\ pc = "setProvisioning"
  /\ updateStatus("Provisioning", Return(TRUE))

\* After a successful Update.
setRunning ==
  /\ pc = "setRunning"
  /\ \/ /\ machineIsProvisioned(m)
        /\ updateStatus(IF m.nodeRef THEN "Running" ELSE "Provisioned",
                        Return(~m.nodeRef))
     \/ /\ ~machineIsProvisioned(m)
        /\ Reports
        /\ UNCHANGED <<clusterVars, faults>>

\* updateStatus for phase Failed patches the annotation first, and goes on with
\* the copy as answered; the provider status has none of the fields it would override.
failAnnotation ==
  /\ pc = "failAnnotation"
  /\ LET patched == PatchedMachine(m, [m EXCEPT !.instanceState = "Unknown"], machines[key])
     IN WriteTenant(PatchAccepted(key), StoreMachine(key, patched),
                    GotoWith("failStatus", patched))

failStatus ==
  /\ pc = "failStatus"
  /\ updateStatus("Failed", Return(FALSE))

\* After an error of Exists or Update, for a copy without a phase (see Reports).
reportError ==
  /\ pc = "reportError"
  /\ updateStatus("empty", Return(TRUE))

-----------------------------------------------------------------------------
\* One step of Reconcile.
Call ==
  \/ addFinalizer \/ setDeleting \/ drain \/ getForDelete \/ deleteVM
  \/ existsAfterDelete \/ deleteNode \/ removeFinalizer \/ exists \/ setProvisioning
  \/ getUserData \/ createSecret \/ createVM \/ getForUpdate \/ updateVM \/ getVMI
  \/ patchMachine \/ patchStatus \/ setRunning \/ failAnnotation \/ failStatus
  \/ reportError

ControllerNext ==
  \/ Call
  \/ \E k \in Machines : Reconcile(k) \/ Sync(k) \/ Resync(k)
  \/ Crash

\* One step of the infra cluster: KubeVirt's, what goes wrong there, and the guests'.
KubeVirt(n) == StartVMI(n) \/ SyncVMStatus(n) \/ StopVMI(n) \/ FinishVM(n)
InfraNext(n) ==
  \/ KubeVirt(n) /\ UNCHANGED <<tenantVars, workerVars, faults>>
  \/ FailVMI(n) /\ UNCHANGED <<tenantVars, workerVars, faults>>
  \/ DropVM(n) /\ UNCHANGED <<tenantVars, workerVars, faults>>
  \/ BootGuest(n) /\ UNCHANGED <<workerVars, faults>>
  \/ KubeletWrites(n) /\ UNCHANGED <<workerVars, faults>>

\* One step of the tenant cluster: its users' and its nodelink controller's.
TenantNext(k) ==
  \/ UserCreates(k) /\ UNCHANGED <<workerVars, faults>>
  \/ UserDeletes(k) /\ UNCHANGED <<workerVars, faults>>
  \/ UserEdits(k) /\ UNCHANGED <<workerVars, faults>>
  \/ UserEditsUserData /\ UNCHANGED <<workerVars, faults>>
  \/ NodeLink(k) /\ UNCHANGED <<workerVars, faults>>
  \/ NodeUnlink(k) /\ UNCHANGED <<workerVars, faults>>

Init == InfraInit /\ TenantInit /\ WorkerInit
Next == \/ ControllerNext
        \/ \E n \in Names : InfraNext(n)
        \/ \E k \in Machines : TenantNext(k)
Spec == Init /\ [][Next]_vars

TypeOK == InfraTypeOK /\ TenantTypeOK /\ WorkerTypeOK
=============================================================================
