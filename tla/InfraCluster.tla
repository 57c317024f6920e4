---------------------------- MODULE InfraCluster ----------------------------
(***************************************************************************)
(* The infra cluster: the KubeVirt cluster in which the virtual machines   *)
(* run.  Its API server stores ignition secrets, VirtualMachines and       *)
(* VirtualMachineInstances of one namespace, by name; KubeVirt starts an   *)
(* instance for every VirtualMachine (run strategy Always), copies its     *)
(* state into the VirtualMachine's status, and cleans up after a deletion. *)
(*                                                                         *)
(* The requests of pkg/clients/infracluster are operators: what the        *)
(* request does to the store, and the condition under which the server     *)
(* accepts it.  KubeVirt and the cluster's administrators are external.    *)
(***************************************************************************)
EXTENDS MachineScope, ProviderConfig, Naturals

CONSTANTS Names,            \* names of Machines, hence of VMs, instances and Nodes
          InfraNamespace,   \* the namespace of every object of the infra cluster
          Absent,           \* "no such object"
          UpsetKinds,       \* which upsets happen: what administrators, owners and
          MaxUpsets         \* failing guests do; and the bound on how many of them

VARIABLES secrets,          \* names whose ignition secret "<name>-ignition" exists
          vms,              \* name -> VirtualMachine, or Absent
          vmis,             \* name -> state of the VirtualMachineInstance
          upsets            \* bound counter
infraVars == <<secrets, vms, vmis>>

InstanceStates == VMStates \cup {"", "Unknown"}

VM == [ spec : VMSpecs,
        annotations : InstanceStates,   \* the Machine's, copied: only this one matters
        created : BOOLEAN,              \* status.created
        ready : BOOLEAN,                \* status.ready
        terminating : BOOLEAN ]         \* a deletion timestamp is set

VMIs == {"none", "starting", "ready"}

ASSUME InfraAssumption ==
  /\ MaxUpsets \in Nat
  /\ InfraNamespace \in Namespaces
  /\ Absent \notin VM

InfraTypeOK ==
  /\ secrets \subseteq Names
  /\ vms \in [Names -> VM \cup {Absent}]
  /\ vmis \in [Names -> VMIs]
  /\ upsets \in 0 .. MaxUpsets

InfraInit ==
  /\ secrets = {}
  /\ vms = [n \in Names |-> Absent]
  /\ vmis = [n \in Names |-> "none"]
  /\ upsets = 0

Upset(kind) == kind \in UpsetKinds /\ upsets < MaxUpsets /\ upsets' = upsets + 1

-----------------------------------------------------------------------------
\* Mutant: a secret that exists already is as good as a new one.
CreateSecretAlways(n) == TRUE

\* A Create is refused when the name is taken, and by the client already when the
\* namespace is empty.
CreateSecretAccepted(n) == InfraNamespace # "" /\ n \notin secrets
CreateSecret(n) == secrets' = secrets \cup {n} /\ UNCHANGED <<vms, vmis>>

\* The status of a new object is empty.
NewVM(spec, annotations) ==
  [ spec |-> spec, annotations |-> annotations,
    created |-> FALSE, ready |-> FALSE, terminating |-> FALSE ]

CreateVirtualMachineAccepted(n) == vms[n] = Absent
CreateVirtualMachine(n, v) ==
  vms' = [vms EXCEPT ![n] = v] /\ UNCHANGED <<secrets, vmis>>

\* Mutant: the update wipes the status.
UpdatedVMNoStatus(v, spec, annotations) ==
  [NewVM(spec, annotations) EXCEPT !.terminating = v.terminating]

\* Mutant: the spec is not sent.
UpdatedVMNoSpec(v, spec, annotations) == [v EXCEPT !.annotations = annotations]

\* An Update carries the resource version of the object it was computed from and
\* is refused when the object has changed since.  It leaves the status alone.
UpdatedVM(v, spec, annotations) ==
  [v EXCEPT !.spec = spec, !.annotations = annotations]

\* What is sent has no finalizers, which releases a VirtualMachine that is terminating.
UpdateVirtualMachineAccepted(n, read) == vms[n] = read
UpdateVirtualMachine(n, v) ==
  /\ vms' = [vms EXCEPT ![n] = IF v.terminating THEN Absent ELSE v]
  /\ UNCHANGED <<secrets, vmis>>

\* The DeleteOptions of the caller are dropped: a VirtualMachine without a
\* finalizer is gone at once and its instance is collected in the background;
\* one with a finalizer stays, terminating, until its instance is gone.
DeleteVirtualMachineAccepted(n) == vms[n] # Absent
DeleteVirtualMachine(n) ==
  /\ \/ vms' = [vms EXCEPT ![n] = Absent]
     \/ vms' = [vms EXCEPT ![n].terminating = TRUE]
  /\ UNCHANGED <<secrets, vmis>>

-----------------------------------------------------------------------------
\* KubeVirt's own steps.
StartVMI(n) ==
  /\ vms[n] # Absent /\ vmis[n] = "none"
  /\ ~vms[n].terminating
  /\ vmis' = [vmis EXCEPT ![n] = "starting"]
  /\ UNCHANGED <<secrets, vms, upsets>>

SyncVMStatus(n) ==
  /\ vms[n] # Absent
  /\ <<vms[n].created, vms[n].ready>> # <<vmis[n] # "none", vmis[n] = "ready">>
  /\ vms' = [vms EXCEPT ![n].created = (vmis[n] # "none"),
                        ![n].ready = (vmis[n] = "ready")]
  /\ UNCHANGED <<secrets, vmis, upsets>>

\* The instance of a deleted VirtualMachine is stopped ...
StopVMI(n) ==
  /\ vmis[n] # "none"
  /\ vms[n] # Absent => vms[n].terminating
  /\ vmis' = [vmis EXCEPT ![n] = "none"]
  /\ UNCHANGED <<secrets, vms, upsets>>

\* ... and only then does a terminating VirtualMachine go.
FinishVM(n) ==
  /\ vms[n] # Absent /\ vms[n].terminating /\ vmis[n] = "none"
  /\ vms' = [vms EXCEPT ![n] = Absent]
  /\ UNCHANGED <<secrets, vmis, upsets>>

\* An instance crashes, or an administrator of the infra cluster deletes a
\* VirtualMachine behind the provider's back.
FailVMI(n) ==
  /\ Upset("instance fails")
  /\ vmis[n] # "none"
  /\ vmis' = [vmis EXCEPT ![n] = "none"]
  /\ UNCHANGED <<secrets, vms>>

DropVM(n) ==
  /\ Upset("VM dropped")
  /\ DeleteVirtualMachineAccepted(n)
  /\ DeleteVirtualMachine(n)
=============================================================================
