------------------------------ MODULE MCSystem ------------------------------
(***************************************************************************)
(* Values for the constants of NodeUpdate, and a state to start from.      *)
(***************************************************************************)
EXTENDS SystemProperties, MCMachineController

Good == [data |-> "map", infraID |-> TRUE, namespace |-> InfraNamespace]
Unreadable == [Good EXCEPT !.data = "missing"]
Moved == [Good EXCEPT !.namespace = OtherNamespace]

ReadableOrNot == {Good, Unreadable}
AnywhereOrNot == {Good, Unreadable, Moved}
HereOrElsewhere == {Good, Moved}
NodeUpsets == {"VM dropped", "instance fails", "Node written", "ConfigMap edited"}
ConfigMapEdits == {"ConfigMap edited"}

\* The Machine is created, its guest has just booted and joined, and neither controller
\* has noticed yet, nor has the process been started since the ConfigMap was edited, if it
\* was: a state of many behaviours of SystemSpec.
Joined(c, u, map) ==
  /\ secrets = Names
  /\ vms = [n \in Names |-> NewVM(CreateVirtualMachineFromMachine(c), "")]
  /\ vmis = [n \in Names |-> "ready"]
  /\ machines = [k \in Machines |->
                   [ uid |-> 1, config |-> c, deleted |-> FALSE, finalizer |-> TRUE,
                     providerID |-> FormatProviderID(InfraNamespace, NameOf[k]),
                     instanceState |-> "vmNotCreated", phase |-> "Provisioning",
                     addresses |-> FALSE, nodeRef |-> FALSE ]]
  /\ uids = [k \in Machines |-> 1]
  /\ nodes = [n \in Names |-> NewNode]
  /\ userData \in UserData
  /\ cache = machines /\ queue = Machines
  /\ pc = "idle"
  /\ key = Absent /\ m = Absent /\ origin = Absent /\ version = Absent /\ vm = Absent
  /\ faults = 0 /\ upsets = u
  /\ configMap = map /\ serving = InfraNamespace
  /\ otherSecrets = {}
  /\ otherVMs = [n \in Names |-> Absent] /\ otherVMIs = [n \in Names |-> "none"]
  /\ nodeCache = [n \in Names |-> Absent] /\ nodeQueue = {}
  /\ nodePc = "idle" /\ nodeName = Absent /\ node = Absent /\ namespace = NoKey

\* From there, a Machine both controllers work on, with nothing more going wrong, in the
\* old namespace or, once the process is started again, in another; and one that lost its
\* cluster label in an edit, which the machine controller leaves alone, so that the
\* nodeupdate controller is on its own with whatever still goes wrong.
JoinedConfigs == {Undrained, Unlabelled}
FairJoinedSpec ==
  /\ \/ Joined(Undrained, MaxUpsets, Good)
     \/ Joined(Undrained, MaxUpsets, Moved)
     \/ Joined(Unlabelled, 0, Good)
  /\ [][SystemNext]_systemVars
  /\ NodeFairness
=============================================================================
