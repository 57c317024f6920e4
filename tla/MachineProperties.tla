-------------------------- MODULE MachineProperties -------------------------
(***************************************************************************)
(* What the machine controller, the actuator and the wrapper have to       *)
(* guarantee together, and the fairness under which they make progress.    *)
(***************************************************************************)
EXTENDS MachineController

Has(mach) == mach # Absent
HasFinalizer(mach) == Has(mach) /\ mach.finalizer
Live(mach) == HasFinalizer(mach) /\ ~mach.deleted

-----------------------------------------------------------------------------
(* Safety. *)

\* A VirtualMachine is never left behind: some Machine of its name still has the
\* finalizer that makes the controller delete the VirtualMachine before the Machine
\* goes (Reconcile, controller.go:244-268), whatever fails, is lost or is restarted
\* between creating the one and releasing the other.
NoOrphanedVM ==
  \A n \in Names : vms[n] # Absent =>
    \E k \in Machines : NameOf[k] = n /\ HasFinalizer(machines[k])

\* Why no VirtualMachine is left behind: the facts that carry NoOrphanedVM, and
\* NodeOutlivesVM, from one step to the next.
HandlesLive == {"exists", "setProvisioning", "getUserData", "createSecret", "createVM",
                "getForUpdate", "updateVM", "getVMI", "patchMachine", "patchStatus",
                "setRunning", "failAnnotation", "failStatus", "reportError"}
HandlesDeleted == {"setDeleting", "drain", "getForDelete", "deleteVM",
                   "existsAfterDelete", "deleteNode", "removeFinalizer"}
Deleted(mach) == Has(mach) /\ mach.deleted

\* A stored Machine with a deletion timestamp has the finalizer, or it would be gone.
DeletedHasFinalizer == \A k \in Machines : Deleted(machines[k]) => machines[k].finalizer

\* A cache that shows the finalizer and no deletion is right about the finalizer: only
\* the controller takes it away, and it has to have seen the deletion first.
CachedLive == \A k \in Machines : Live(cache[k]) => HasFinalizer(machines[k])

\* A cache that shows a deletion is right that this Machine is done for: a new one of
\* the same key has no finalizer until the controller has seen it.
CachedDeleted == \A k \in Machines : Deleted(cache[k]) => ~Live(machines[k])

\* The same of a Reconcile under way, which may be working from a cache that has moved
\* on; and the Node and the finalizer are removed only with the VirtualMachine gone.
HandlerIsRight ==
  /\ pc \in HandlesLive => HasFinalizer(machines[key])
  /\ pc \in HandlesDeleted => ~Live(machines[key]) /\ ~Live(cache[key])
  /\ pc = "addFinalizer" /\ ~HasFinalizer(machines[key]) => ~Deleted(cache[key])
  /\ pc \in {"deleteNode", "removeFinalizer"} => vms[name] = Absent

FinalizerInv ==
  DeletedHasFinalizer /\ CachedLive /\ CachedDeleted /\ HandlerIsRight /\ NoOrphanedVM

\* The names that are used up: their ignition secret exists, and it is not the one a
\* Create under way has just made for its VirtualMachine.
Used == {n \in secrets : ~(pc = "createVM" /\ name = n)}

\* A VirtualMachine that is created does not take over what an earlier one of its name
\* has left: no instance that is still being stopped, in whose place none would be
\* started, and no Node that has yet to be deleted.  Delete waits for the VirtualMachine
\* only (kubevirt.go:111-146, controller.go:250-261); a new Machine of the name may be
\* created at once.
VMStartsFresh ==
  [][\A n \in Names : vms[n] = Absent /\ vms'[n] # Absent
       => vmis[n] = "none" /\ nodes[n] = Absent]_vars

\* The life cycle the controller implements: a claim is the finalizer, condemned is
\* the deletion timestamp.
ClaimOf(mach) ==
  IF ~HasFinalizer(mach) THEN "none" ELSE IF mach.deleted THEN "condemned" ELSE "held"
Claims == [k \in Machines |-> ClaimOf(machines[k])]
BackedNames == {n \in Names : vms[n] # Absent}
JoinedNames == {n \in Names : nodes[n] # Absent}
Lifecycle == INSTANCE MachineLifecycle WITH
  claims <- Claims, used <- Used, backed <- BackedNames, joined <- JoinedNames

\* Every step of the controller, the clusters and their faults is a step of the life
\* cycle, or none: a VirtualMachine is created for a Machine that claims it, once, the
\* claim is released only after it, and the Node leaves only after it
\* (controller.go:187-272, kubevirt.go:50-146).
ImplementsLifecycle == Lifecycle!LifecycleSpec

\* No Node is deleted while its VirtualMachine is there (controller.go:250-261).
NodeOutlivesVM ==
  [][\A n \in Names : nodes[n] # Absent /\ nodes'[n] = Absent => vms[n] = Absent]_vars

\* A VirtualMachine whose Machine has a Node, as far as the handler knows, is
\* deleted only once the pods are evicted from it (controller.go:224-231), also on
\* a second or third attempt.
DrainedBeforeDelete ==
  pc = "deleteVM" /\ m.nodeRef /\ ~m.config.excludeNodeDraining
    => nodes[name] = Absent \/ nodes[name].drained

\* A Machine that was given its VirtualMachine is never given another: one that is
\* lost stays lost, even when the cached Machine has not been given it yet
\* (controller.go:332-346, and the ignition secret created first, kubevirt.go:60).
VMNeverReplaced ==
  [][\A k \in Machines :
       vms[NameOf[k]] = Absent /\ vms'[NameOf[k]] # Absent
         => ~(Has(machines[k]) /\ machines[k].providerID # NoProviderID)]_vars

\* A Machine in phase Failed has no VirtualMachine (controller.go:332-346): nothing
\* that is running is given up.
FailedMeansNoVM ==
  \A k \in Machines : Has(machines[k]) /\ machines[k].phase = "Failed"
    => vms[NameOf[k]] = Absent

\* "This can only be reached if an instance was deleted outside the machine API"
\* (controller.go:333): without such a deletion (the upset "VM dropped") no Machine is
\* failed.  It holds of Machines with names of their own, and not of two Machines of
\* one name in two namespaces: see the run shared_name.
FailedOnlyFromOutside ==
  \A k \in Machines : Has(machines[k]) => machines[k].phase # "Failed"

\* The phases Provisioned and Running promise a provider ID and addresses
\* (controller.go:82-90), which two earlier patches have to have stored.
ProvisionedMeansReachable ==
  \A k \in Machines : Has(machines[k]) /\ machines[k].phase \in {"Provisioned", "Running"}
    => machines[k].providerID # NoProviderID /\ machines[k].addresses

\* However stale the cache a phase is computed from: a failed Machine is not revived,
\* and a deleted one in phase Deleting stays in it (controller.go:207-277).  The first
\* holds of Machines with names of their own, the second of keys that are used once
\* (MaxIncarnations = 1): a late Reconcile of a deleted Machine writes phase Deleting
\* into the one created under its key since, which then goes on from there.
FinalPhasesStay ==
  [][\A k \in Machines :
       Has(machines[k]) /\ Has(machines'[k]) /\ machines'[k].uid = machines[k].uid =>
         LET old == machines[k].phase  new == machines'[k].phase
         IN /\ old = "Failed" => new \in {"Failed", "Deleting"}
            /\ old = "Deleting" /\ machines[k].deleted => new = "Deleting"]_vars

\* A Machine with a VirtualMachine never goes back to a phase before it was created,
\* although the phase is computed from a cached Machine, the VirtualMachine may have been
\* lost and the report of an error writes an empty phase over whatever is stored
\* (controller.go:279-362).  There is one way back, through that report: it came in
\* between an earlier phase Provisioning and the Create, and what it wrote is what the
\* cache still shows when the VirtualMachine is lost.  It holds of Machines with names of
\* their own.
ProvisionedStaysProvisioned ==
  [][\A k \in Machines :
       Has(machines[k]) /\ Has(machines'[k]) /\ machines[k].phase \in {"Provisioned", "Running"} =>
         /\ machines'[k].phase \notin NoPhase
         /\ machines'[k].phase = "Provisioning" => pc = "setProvisioning" /\ m.phase = "empty"]_vars

\* No VirtualMachine is stored with a quantity or an access mode its Machine's owner
\* misspelt (machine_scope.go:82-144, 159-345), whatever is edited between the
\* creation and an update.
ValidVMsOnly ==
  \A n \in Names : vms[n] # Absent =>
    /\ {vms[n].spec.template.memory, vms[n].spec.bootVolume.storage} \subseteq Quantities
    /\ vms[n].spec.bootVolume.accessMode \in AccessModes

-----------------------------------------------------------------------------
(* Fairness.  The process runs: a Reconcile that has started takes its next   *)
(* step, and the queue hands out every key, in order.  The watch delivers,    *)
(* the informer resyncs, KubeVirt and the nodelink controller do their work.  *)
(* Users, administrators and faults owe nothing.                              *)
Fairness ==
  /\ WF_vars(Call)
  /\ \A k \in Machines : /\ SF_vars(Reconcile(k))
                         /\ WF_vars(Sync(k))
                         /\ WF_vars(Resync(k))
                         /\ WF_vars(NodeLink(k) /\ UNCHANGED <<workerVars, faults>>)
  /\ \A n \in Names :
       /\ WF_vars(KubeVirt(n) /\ UNCHANGED <<tenantVars, workerVars, faults>>)
       /\ WF_vars(BootGuest(n) /\ UNCHANGED <<workerVars, faults>>)
FairSpec == Spec /\ Fairness

(* Liveness. *)

\* A deleted Machine eventually goes, and its VirtualMachine with it
\* (controller.go:207-272): after every failed attempt the key comes back.
DeletionCompletes ==
  \A k \in Machines : \A u \in 1 .. MaxIncarnations :
    (Has(machines[k]) /\ machines[k].uid = u /\ machines[k].deleted)
      ~> (Has(machines[k]) => machines[k].uid # u)

\* A VirtualMachine can be made of a configuration and the user data.
Creatable(c) ==
  /\ Validate(c) /\ CreateMachineScope(c) /\ BuildOutcome(c) = "ok"
  /\ userData \notin {"noSecret", "noKey"} /\ AddHostnameToUserData(userData) # "panic"

\* A Machine with a finalizer is eventually given a VirtualMachine, or is deleted first,
\* or goes to phase Failed (controller.go:355-377), unless its configuration or its user
\* data have to be repaired first: a process that panics on the user data
\* (actuator.go:266-294) over and over picks the Machine up when they are.
LiveMachineGetsVM ==
  \A k \in Machines :
    Live(machines[k]) ~> \/ ~Live(machines[k])
                         \/ vms[NameOf[k]] # Absent
                         \/ machines[k].phase = "Failed"
                         \/ ~Creatable(machines[k].config)

\* A VirtualMachine that is lost is eventually noticed: its Machine goes to phase
\* Failed (controller.go:332-346), although nothing tells the controller of it but
\* the next resync.
LostVMIsNoticed ==
  \A k \in Machines :
    (Live(machines[k]) /\ machines[k].providerID # NoProviderID /\ vms[NameOf[k]] = Absent)
      ~> (Live(machines[k]) => machines[k].phase = "Failed")

\* A VirtualMachine that stays ready makes its Machine Running (actuator.go Update,
\* controller.go:296-329), through two patches and a nodelink in between.
ReadyMachineRuns ==
  \A k \in Machines :
    (Live(machines[k]) /\ vms[NameOf[k]] # Absent)
      ~> \/ ~Live(machines[k])
         \/ vms[NameOf[k]] = Absent
         \/ machines[k].phase = "Running"

\* What an owner writes into a Machine eventually arrives in its VirtualMachine
\* (kubevirt.go:148-169), or the Machine is edited or deleted, or the VirtualMachine lost.
SpecFollowsMachine ==
  \A k \in Machines : \A c \in Configs :
    (Live(machines[k]) /\ machines[k].config = c /\ vms[NameOf[k]] # Absent)
      ~> \/ ~Live(machines[k])
         \/ machines[k].config # c
         \/ vms[NameOf[k]] = Absent
         \/ vms[NameOf[k]].spec = CreateVirtualMachineFromMachine(c)

\* The Machine and the VirtualMachine are copied into each other - annotations one
\* way, the state the other (machine_scope.go:110-141, 347-404); it does not go on
\* for ever.
Settles == <>[][machines' = machines /\ vms' = vms]_<<machines, vms>>

-----------------------------------------------------------------------------
(* What comments in the code say of it, and what the code does not do.        *)

\* "isInvalidMachineConfiguration will take care of the case where the configuration
\* is invalid from the beginning" (controller.go:232): such a Machine can be deleted.
InvalidMachineCanBeDeleted == DeletionCompletes

\* "Create creates resources in the InfraCluster for the provided Machine, if it does
\* not exist" (kubevirt.go:27), "All methods should be idempotent" (actuator.go:26-27
\* of the machine controller): an attempt that failed half-way is made up for, and so is
\* one that panicked on a configuration that has been repaired since.
CreateIsRetried == LiveMachineGetsVM

\* "Delete deletes the resources of the provided Machine from the InfraCluster"
\* (kubevirt.go:29), "it is assumed that all dependent resources have been cleaned up"
\* (actuator.go:31 of the machine controller): there is no ignition secret without a
\* Machine that has yet to be deleted.
SecretsAreDeleted ==
  \A n \in secrets : \E k \in Machines : NameOf[k] = n /\ HasFinalizer(machines[k])
=============================================================================
