-------------------------- MODULE SystemProperties --------------------------
(***************************************************************************)
(* What the two controllers guarantee together about the Nodes, and what   *)
(* each may rely on with the other at work on the same objects.            *)
(***************************************************************************)
EXTENDS MachineProperties, NodeUpdate

\* The composed system has the types of its parts, and the Reconcile of a Node has its
\* Node and its namespace whenever a call uses them.
SystemTypeOK == TypeOK /\ ProcessTypeOK /\ NodeUpdateTypeOK

\* What the nodeupdate controller decided on is still so when it acts: a Node that was
\* read belongs to a name that is used up, so that a VirtualMachine that was not found
\* (nodeupdate_controller.go:79-88) cannot have been created since.
NodeDecisionsHold ==
  /\ \A n \in Names : nodeCache[n] # Absent => n \in Used
  /\ nodePc # "idle" => nodeName \in Used
  /\ nodePc = "deleteNode" => vms[nodeName] = Absent

-----------------------------------------------------------------------------
(* Fairness of the nodeupdate controller, as of the machine controller: its   *)
(* worker runs, its queue is served in order, watch and resync deliver; and   *)
(* KubeVirt and the guests do their work.  The process is started again.      *)
(* The machine controller owes nothing here: it may be stuck in a call.       *)
NodeFairness ==
  /\ WF_systemVars(Start)
  /\ WF_systemVars(NodeCall)
  /\ \A n \in Names :
       /\ SF_systemVars(NodeReconcile(n))
       /\ WF_systemVars(NodeSync(n))
       /\ WF_systemVars(NodeResync(n))
       /\ WF_vars(KubeVirt(n) /\ UNCHANGED <<tenantVars, workerVars, faults>>)
       /\ WF_vars(BootGuest(n) /\ UNCHANGED <<workerVars, faults>>)

\* The ConfigMap lets the process start and the nodeupdate controller work.
Complete(c) == NewActuator(c) = "actuator"

\* "In case the infrastructure machine was delete, delete its node"
\* (nodeupdate_controller.go:3): the Node of a VirtualMachine that is gone goes, and
\* stays away, although nothing watches the VirtualMachine and a Node that has its
\* provider ID is not looked at again until the resync (nodeupdate_controller.go:96).
NodeOfLostVMGoes ==
  \A n \in Names :
    (nodes[n] # Absent /\ vms[n] = Absent)
      ~> ([](nodes[n] = Absent) \/ ~Complete(configMap))

\* A Node is eventually given its provider ID (nodeupdate_controller.go:91-106), as long
\* as there is a VirtualMachine, although updates of the Node by its kubelet, a
\* VirtualMachine that is not ready yet or again and failed calls all end the Reconcile
\* early.
ReadyNodeIsIdentified ==
  \A n \in Names :
    (nodes[n] # Absent /\ vms[n] # Absent)
      ~> \/ nodes[n] = Absent \/ vms[n] = Absent
         \/ nodes[n].providerID # NoProviderID
         \/ ~Complete(configMap)

-----------------------------------------------------------------------------
\* "In case the infrastructure machine (kubevirt VirtualMachine) was delete, delete its
\* node" (nodeupdate_controller.go:3): it is not deleted in any other case.  The
\* ConfigMap that says where the VirtualMachine is may change under the controller.
NodeOfVMStays == NodeOutlivesVM

\* "Delete the machine. If no error is returned, it is assumed that all dependent
\* resources have been cleaned up." (actuator.go:31 of the machine controller): a Machine
\* is not released while its VirtualMachine is there.  The actuator looks for it where
\* the ConfigMap said when the process started (actuator.go:69-86), and nothing records
\* where it was created.
DeleteCleansUp == NoOrphanedVM
=============================================================================
