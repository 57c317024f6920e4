----------------------------- MODULE NodeUpdate -----------------------------
(***************************************************************************)
(* The nodeupdate controller: it gives every Node the provider ID of its   *)
(* VirtualMachine and deletes the Node of a VirtualMachine that is gone.   *)
(* It runs in the process of the machine controller, with a worker, queue  *)
(* and cache of its own, on the same Nodes and VirtualMachines; this       *)
(* module also composes the two.  The actuator holds the namespace it was  *)
(* started with; this controller goes by the ConfigMap as it is now.       *)
(***************************************************************************)
EXTENDS Process

VARIABLES nodeCache,        \* name -> the Node as the informer last delivered it
          nodeQueue,        \* names of Nodes waiting to be reconciled
          nodePc,           \* the next call of Reconcile, or "idle"
          nodeName,         \* what is being reconciled
          node,             \* the handler's copy of the Node
          namespace         \* infraClusterNamespace
nodeLocals == <<nodePc, nodeName, node, namespace>>
nodeWorkerVars == <<nodeCache, nodeQueue, nodeLocals>>
systemVars == <<vars, processVars, nodeWorkerVars>>

NodeLabels == {"idle", "getVM", "deleteNode", "updateNode"}

ASSUME NodeUpdateAssumption == Absent \notin Names

NodeUpdateTypeOK ==
  /\ nodeCache \in [Names -> Node \cup {Absent}]
  /\ nodeQueue \subseteq Names
  /\ nodePc \in NodeLabels
  /\ nodeName \in Names \cup {Absent}
  /\ node \in Node \cup {Absent}
  /\ namespace \in Namespaces \cup {NoKey}
  /\ (nodePc = "idle") = (nodeName = Absent)
  /\ nodePc # "idle" => node # Absent /\ namespace # NoKey
  /\ ~Runs => pc = "idle" /\ nodePc = "idle"

NodeDone == nodePc' = "idle" /\ nodeName' = Absent /\ node' = Absent /\ namespace' = NoKey

NodeUpdateInit ==
  /\ nodeCache = nodes
  /\ nodeQueue = {}
  /\ nodePc = "idle" /\ nodeName = Absent /\ node = Absent /\ namespace = NoKey

-----------------------------------------------------------------------------
\* How a call continues.  RequeueAfter and an error both bring the Node back.
NodeGoto(label) ==
  nodePc' = label /\ UNCHANGED <<nodeCache, nodeQueue, nodeName, node, namespace>>
NodeReturn(requeue) ==
  /\ NodeDone
  /\ nodeQueue' = IF requeue THEN nodeQueue \cup {nodeName} ELSE nodeQueue
  /\ UNCHANGED nodeCache

\* A call that reads, and one that writes the Node, with its ways to fail.
NodeRead(then) ==
  /\ \/ then /\ UNCHANGED faults
     \/ Fault /\ NodeReturn(TRUE)
  /\ UNCHANGED <<clusterVars, workerVars, processVars>>
NodeWrite(accepted, object) ==
  /\ \/ /\ accepted
        /\ nodes' = [nodes EXCEPT ![nodeName] = object]
        /\ \/ NodeReturn(FALSE) /\ UNCHANGED faults
           \/ NodeReturn(TRUE) /\ Fault
     \/ ~accepted /\ NodeReturn(TRUE) /\ UNCHANGED <<nodes, faults>>
     \/ Fault /\ NodeReturn(TRUE) /\ UNCHANGED nodes
  /\ UNCHANGED <<machines, uids, userData, infraVars, upsets, workerVars, processVars>>

\* Mutant: a Node that was not found is gone on with.
NodeReconcileMissing(n) ==
  /\ Runs /\ nodePc = "idle" /\ n \in nodeQueue
  /\ GetConfigMapValue(configMap) /\ HasNamespace(configMap)
  /\ nodeQueue' = nodeQueue \ {n}
  /\ nodePc' = "getVM" /\ nodeName' = n /\ node' = nodeCache[n]
  /\ namespace' = configMap.namespace
  /\ UNCHANGED <<clusterVars, workerVars, faults, processVars, nodeCache>>

\* Reconcile of the Node n, up to its second call: the Node is read from the cache and
\* the ConfigMap from the server.  What happens between the two is as if the cache had
\* been behind.  An error, and a ConfigMap without a namespace, bring the Node back.
NodeReconcile(n) ==
  /\ Runs /\ nodePc = "idle" /\ n \in nodeQueue
  /\ \/ /\ nodeCache[n] = Absent
        /\ nodeQueue' = nodeQueue \ {n}
        /\ UNCHANGED <<nodeLocals, faults>>
     \/ /\ nodeCache[n] # Absent
        /\ GetConfigMapValue(configMap) /\ HasNamespace(configMap)
        /\ nodeQueue' = nodeQueue \ {n}
        /\ nodePc' = "getVM" /\ nodeName' = n /\ node' = nodeCache[n]
        /\ namespace' = configMap.namespace
        /\ UNCHANGED faults
     \/ /\ nodeCache[n] # Absent
        /\ Fault
        /\ UNCHANGED <<nodeQueue, nodeLocals>>
  /\ UNCHANGED <<clusterVars, workerVars, processVars, nodeCache>>

\* Mutant: a VirtualMachine that is terminating is as good as gone.
getVMUnlessTerminating ==
  /\ nodePc = "getVM"
  /\ LET v == VMIn(namespace, nodeName)
     IN NodeRead(IF v = Absent THEN NodeGoto("deleteNode")
                 ELSE IF v.terminating THEN NodeGoto("deleteNode")
                 ELSE IF ~v.ready THEN NodeReturn(TRUE)
                 ELSE IF node.providerID # NoProviderID THEN NodeReturn(FALSE)
                 ELSE NodeGoto("updateNode"))

\* The VirtualMachine is there and ready, or not ready, or not there.
getVM ==
  /\ nodePc = "getVM"
  /\ LET v == VMIn(namespace, nodeName)
     IN NodeRead(IF v = Absent THEN NodeGoto("deleteNode")
                 ELSE IF ~v.ready THEN NodeReturn(TRUE)
                 ELSE IF node.providerID # NoProviderID THEN NodeReturn(FALSE)
                 ELSE NodeGoto("updateNode"))

\* By name, whatever Node has that name now.
deleteNodeOfNoVM ==
  /\ nodePc = "deleteNode"
  /\ NodeWrite(nodes[nodeName] # Absent, Absent)

\* Mutant: the Node that is sent is the one that was read.
updateNodeUnset ==
  /\ nodePc = "updateNode"
  /\ NodeWrite(nodes[nodeName] = node, node)

\* With the resource version of the copy.
updateNode ==
  /\ nodePc = "updateNode"
  /\ NodeWrite(nodes[nodeName] = node,
               [node EXCEPT !.providerID = FormatProviderID(namespace, nodeName)])

NodeCall == getVM \/ deleteNodeOfNoVM \/ updateNode

\* The watch on Nodes, and the resync.
NodeSync(n) ==
  /\ Runs /\ nodeCache[n] # nodes[n]
  /\ nodeCache' = [nodeCache EXCEPT ![n] = nodes[n]]
  /\ nodeQueue' = nodeQueue \cup {n}
  /\ UNCHANGED <<vars, processVars, nodeLocals>>

\* Mutant: there is no resync.
NodeResyncNever(n) == FALSE /\ UNCHANGED systemVars

NodeResync(n) ==
  /\ Runs /\ nodeCache[n] # Absent /\ n \notin nodeQueue
  /\ nodeQueue' = nodeQueue \cup {n}
  /\ UNCHANGED <<vars, processVars, nodeCache, nodeLocals>>

NodeUpdateNext ==
  \/ NodeCall
  \/ \E n \in Names : NodeReconcile(n) \/ NodeSync(n) \/ NodeResync(n)

-----------------------------------------------------------------------------
\* Both controllers, in one process: it stops for both, and is started again for both.
Stops ==
  /\ serving' = NoProcess
  /\ NodeDone
  /\ nodeCache' = [n \in Names |-> Absent] /\ nodeQueue' = {}

\* The process comes up, with both informers filled and everything enqueued.  When
\* actuator.New fails to read the ConfigMap that is no error, and there is no actuator.
Start ==
  /\ ~Runs
  /\ \/ serving' = Started(configMap) /\ serving' # NoProcess /\ UNCHANGED faults
     \/ serving' = NilActuator /\ Fault
  /\ Restart /\ UNCHANGED clusterVars
  /\ NodeDone
  /\ nodeCache' = nodes
  /\ nodeQueue' = {n \in Names : nodes[n] # Absent}
  /\ UNCHANGED <<configMap, otherVars>>

\* A step of everything but the nodeupdate controller.
MachineSideNext ==
  \/ /\ ServingCall
     /\ IF Panics /\ faults' = faults THEN Stops ELSE UNCHANGED <<serving, nodeWorkerVars>>
  \/ Runs /\ Crash /\ Stops /\ UNCHANGED otherVars
  \/ /\ \/ Runs /\ \E k \in Machines : Reconcile(k) \/ Sync(k) \/ Resync(k)
        \/ \E k \in Machines : TenantNext(k)
     /\ UNCHANGED <<serving, otherVars, nodeWorkerVars>>
  \/ /\ \E n \in Names : BothInfraNext(n)
     /\ UNCHANGED <<serving, nodeWorkerVars>>

SystemInit == Init /\ ProcessInit /\ NodeUpdateInit
SystemNext ==
  \/ MachineSideNext /\ UNCHANGED configMap
  \/ Start
  \/ NodeUpdateNext
  \/ EditsConfigMap /\ UNCHANGED nodeWorkerVars
SystemSpec == SystemInit /\ [][SystemNext]_systemVars
=============================================================================
