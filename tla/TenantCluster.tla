---------------------------- MODULE TenantCluster ---------------------------
(***************************************************************************)
(* The tenant cluster: the OpenShift cluster whose nodes the virtual       *)
(* machines are.  Its API server stores the Machines and the Nodes; its    *)
(* users create, edit and delete Machines, its nodelink controller relates *)
(* Machines to Nodes.  Users and that controller are external.             *)
(*                                                                         *)
(* A key of Machines is a namespace and a name; the name alone, NameOf, is *)
(* what the infra cluster and the Node are given.  A resource version is   *)
(* modelled by the content it is the version of: two versions are equal    *)
(* when the object is.                                                     *)
(***************************************************************************)
EXTENDS InfraCluster

CONSTANTS Machines,         \* keys of the Machines of the tenant cluster
          NameOf,           \* key -> name
          Configs,          \* the configurations users give to Machines
          UserData,         \* what the user data secret may hold
          MaxIncarnations   \* bound: how often a Machine of one key is created

VARIABLES machines,         \* key -> Machine, or Absent
          uids,             \* key -> how many Machines of that key were created
          nodes,            \* name -> Node, or Absent
          userData          \* what the user data secret holds
tenantVars == <<machines, uids, nodes, userData>>

\* The phase is a pointer: "" is nil, "empty" a pointer to the empty string.
NoPhase == {"", "empty"}
Phases == NoPhase \cup {"Provisioning", "Provisioned", "Running", "Deleting", "Failed"}

ProviderIDs ==
  {NoProviderID} \cup {FormatProviderID(ns, n) : ns \in Namespaces, n \in Names}

Machine == [ uid : Nat,
             config : Config,
             deleted : BOOLEAN,                    \* a deletion timestamp is set
             finalizer : BOOLEAN,                  \* machine.machine.openshift.io
             providerID : ProviderIDs,
             instanceState : InstanceStates,       \* annotation
             phase : Phases,                       \* from here on: status
             addresses : BOOLEAN,                  \* the list is not empty
             nodeRef : BOOLEAN ]                   \* always to the Node NameOf names

Node == [ providerID : ProviderIDs,
          drained : BOOLEAN,
          status : BOOLEAN ]                       \* what the kubelet wrote last

ASSUME TenantAssumption ==
  /\ NameOf \in [Machines -> Names]
  /\ Configs \subseteq Config
  /\ UserData \subseteq UserDataKinds
  /\ MaxIncarnations \in Nat
  /\ Absent \notin Machine /\ Absent \notin Node /\ Absent \notin Machines

TenantTypeOK ==
  /\ machines \in [Machines -> Machine \cup {Absent}]
  /\ uids \in [Machines -> 0 .. MaxIncarnations]
  /\ nodes \in [Names -> Node \cup {Absent}]
  /\ userData \in UserData

TenantInit ==
  /\ machines = [k \in Machines |-> Absent]
  /\ uids = [k \in Machines |-> 0]
  /\ nodes = [n \in Names |-> Absent]
  /\ userData \in UserData

-----------------------------------------------------------------------------
\* The requests of the controller-runtime client.  An Update replaces what is not
\* status; it is refused when the stored Machine is not the version sent, or would
\* be given a deletion timestamp it does not have.  A deleted Machine goes with its
\* last finalizer.  A merge patch carries the fields in which two copies of the caller
\* differ; sent to the Machine it leaves the status alone, sent to the status it
\* changes nothing else.
UpdateAccepted(k, read, sent) ==
  machines[k] = read /\ (sent.deleted => read.deleted)
UpdatedMachine(stored, sent) ==
  IF stored.deleted /\ ~sent.finalizer THEN Absent
  ELSE [stored EXCEPT !.config = sent.config, !.finalizer = sent.finalizer,
                      !.providerID = sent.providerID,
                      !.instanceState = sent.instanceState]

PatchAccepted(k) == machines[k] # Absent
Delta(before, after, stored) == IF after # before THEN after ELSE stored

PatchedMachine(before, after, stored) ==
  [stored EXCEPT
     !.providerID = Delta(before.providerID, after.providerID, @),
     !.instanceState = Delta(before.instanceState, after.instanceState, @)]

\* Mutant: the whole status is sent.
PatchedStatusWhole(before, after, stored) ==
  [stored EXCEPT !.phase = after.phase, !.addresses = after.addresses]

PatchedStatus(before, after, stored) ==
  [stored EXCEPT
     !.phase = Delta(before.phase, after.phase, @),
     !.addresses = Delta(before.addresses, after.addresses, @)]

\* The answer is decoded into the caller's copy: a field that is empty in the
\* answer is not in it, and keeps the value it has in the copy.
Kept(answer, none, copy) == IF answer = none THEN copy ELSE answer

DecodedConfig(answer, copy) ==
  LET base == IF answer.providerSpec = "nil" THEN copy ELSE answer
  IN [base EXCEPT
        !.clusterIDLabel = answer.clusterIDLabel \/ copy.clusterIDLabel,
        !.excludeNodeDraining = answer.excludeNodeDraining \/ copy.excludeNodeDraining]

Decoded(answer, copy) ==
  [ uid |-> answer.uid,
    config |-> DecodedConfig(answer.config, copy.config),
    deleted |-> answer.deleted \/ copy.deleted,
    finalizer |-> answer.finalizer \/ copy.finalizer,
    providerID |-> Kept(answer.providerID, NoProviderID, copy.providerID),
    instanceState |-> Kept(answer.instanceState, "", copy.instanceState),
    phase |-> Kept(answer.phase, "", copy.phase),
    addresses |-> answer.addresses \/ copy.addresses,
    nodeRef |-> answer.nodeRef \/ copy.nodeRef ]

\* The object with the status of another copy.
WithStatus(object, copy) ==
  [object EXCEPT !.phase = copy.phase, !.addresses = copy.addresses,
                 !.nodeRef = copy.nodeRef]

StoreMachine(k, object) ==
  machines' = [machines EXCEPT ![k] = object] /\ UNCHANGED <<uids, nodes, userData>>

-----------------------------------------------------------------------------
\* Users.
NewMachine(k, c) ==
  [ uid |-> uids[k] + 1, config |-> c, deleted |-> FALSE, finalizer |-> FALSE,
    providerID |-> NoProviderID, instanceState |-> "", phase |-> "",
    addresses |-> FALSE, nodeRef |-> FALSE ]

UserCreates(k) ==
  /\ machines[k] = Absent
  /\ uids[k] < MaxIncarnations
  /\ \E c \in Configs : machines' = [machines EXCEPT ![k] = NewMachine(k, c)]
  /\ uids' = [uids EXCEPT ![k] = @ + 1]
  /\ UNCHANGED <<nodes, userData, infraVars, upsets>>

UserDeletes(k) ==
  /\ machines[k] # Absent
  /\ ~machines[k].deleted
  /\ machines' = [machines EXCEPT ![k] =
                    IF @.finalizer THEN [@ EXCEPT !.deleted = TRUE] ELSE Absent]
  /\ UNCHANGED <<uids, nodes, userData, infraVars, upsets>>

UserEdits(k) ==
  /\ Upset("Machine edited")
  /\ machines[k] # Absent
  /\ \E c \in Configs \ {machines[k].config} :
       machines' = [machines EXCEPT ![k].config = c]
  /\ UNCHANGED <<uids, nodes, userData, infraVars>>

UserEditsUserData ==
  /\ Upset("user data edited")
  /\ userData' \in UserData \ {userData}
  /\ UNCHANGED <<machines, uids, nodes, infraVars>>

-----------------------------------------------------------------------------
NewNode == [providerID |-> NoProviderID, drained |-> FALSE, status |-> FALSE]

\* The guest finishes booting and its kubelet registers a Node named after the
\* host name in the user data, unless the Node of an earlier boot is still there.
BootGuest(n) ==
  /\ vmis[n] = "starting"
  /\ vmis' = [vmis EXCEPT ![n] = "ready"]
  /\ nodes' = [nodes EXCEPT ![n] = IF @ = Absent THEN NewNode ELSE @]
  /\ UNCHANGED <<machines, uids, userData, secrets, vms, upsets>>

\* The kubelet writes the status of its Node.  It does so all the time; what matters is
\* that the resource version of the Node is another one then, so it is bounded like what
\* goes wrong.
KubeletWrites(n) ==
  /\ Upset("Node written")
  /\ vmis[n] = "ready" /\ nodes[n] # Absent
  /\ nodes' = [nodes EXCEPT ![n].status = ~@]
  /\ UNCHANGED <<machines, uids, userData, infraVars>>

\* The nodelink controller matches a Node to a Machine by address.
NodeLink(k) ==
  /\ machines[k] # Absent /\ nodes[NameOf[k]] # Absent
  /\ machines[k].addresses
  /\ ~machines[k].nodeRef
  /\ machines' = [machines EXCEPT ![k].nodeRef = TRUE]
  /\ UNCHANGED <<uids, nodes, userData, infraVars, upsets>>

NodeUnlink(k) ==
  /\ machines[k] # Absent /\ nodes[NameOf[k]] = Absent
  /\ machines[k].nodeRef
  /\ machines' = [machines EXCEPT ![k].nodeRef = FALSE]
  /\ UNCHANGED <<uids, nodes, userData, infraVars, upsets>>
=============================================================================
