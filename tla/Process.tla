------------------------------- MODULE Process ------------------------------
(***************************************************************************)
(* The process the machine controller runs in, and what it was started     *)
(* with: actuator.New reads the namespace of the infra cluster from the    *)
(* ConfigMap as it is when the process starts, and nothing reads it again. *)
(* A process that is started under an edited ConfigMap works in another    *)
(* namespace, without an actuator, or not at all.                          *)
(*                                                                         *)
(* The namespace of MachineController is InfraNamespace.  The other one is *)
(* a second copy of its module, with secrets, VirtualMachines and          *)
(* instances of its own and the same Machines, Nodes and worker.           *)
(***************************************************************************)
EXTENDS MachineController

CONSTANTS ConfigMaps,       \* the ConfigMaps administrators write
          OtherNamespace    \* the namespace they may move to

VARIABLES configMap,        \* the tenant cluster's cloud-provider-config
          serving,          \* the namespace of the actuator, or one of the two below
          otherSecrets,     \* secrets, vms and vmis of the other namespace
          otherVMs,
          otherVMIs
otherVars == <<otherSecrets, otherVMs, otherVMIs>>
processVars == <<configMap, serving, otherVars>>

NilActuator == "nil actuator"
NoProcess == "no process"

ASSUME ProcessAssumption ==
  /\ Namespaces = {InfraNamespace, OtherNamespace} /\ InfraNamespace # OtherNamespace
  /\ {NilActuator, NoProcess, NoKey} \cap Namespaces = {}
  /\ ConfigMaps \subseteq ConfigMap

Elsewhere == INSTANCE MachineController WITH
  InfraNamespace <- OtherNamespace,
  secrets <- otherSecrets, vms <- otherVMs, vmis <- otherVMIs

\* The VirtualMachine of a name in a namespace.
VMIn(ns, n) == IF ns = InfraNamespace THEN vms[n] ELSE otherVMs[n]

\* What a process that starts under the ConfigMap c serves: main stops at an error.
Started(c) ==
  CASE NewActuator(c) = "actuator" -> c.namespace
    [] NewActuator(c) = "nil" -> NilActuator
    [] NewActuator(c) = "error" -> NoProcess

Runs == serving # NoProcess

ProcessTypeOK ==
  /\ configMap \in ConfigMaps
  /\ serving \in Namespaces \cup {NilActuator, NoProcess}
  /\ Elsewhere!InfraTypeOK

ProcessInit ==
  /\ configMap \in {c \in ConfigMaps : Started(c) = InfraNamespace}
  /\ serving = InfraNamespace
  /\ Elsewhere!InfraInit

-----------------------------------------------------------------------------
\* The next call is the first one of an actuator that is not there.
NilPanics == serving = NilActuator /\ pc \in {"exists", "getForDelete"}

\* The next call panics, if it is not the call that fails: there is no actuator, or the
\* machine scope or the user data panic.
Panics ==
  \/ NilPanics
  \/ /\ pc \in {"createVM", "getForDelete", "getForUpdate"}
     /\ CreateMachineScope(m.config) /\ BuildOutcome(m.config) = "panic"
  \/ /\ pc = "getUserData"
     /\ CreateMachineScope(m.config)
     /\ m.config.ignitionSecretName /\ m.config.providerSpec # "nil"
     /\ userData \notin {"noSecret", "noKey"}
     /\ AddHostnameToUserData(userData) = "panic"

\* A call of the machine controller, in the namespace of its actuator.
ServingCall ==
  \/ serving = InfraNamespace /\ Call /\ UNCHANGED otherVars
  \/ serving = OtherNamespace /\ Elsewhere!Call /\ UNCHANGED infraVars
  \/ serving = NilActuator /\ ~NilPanics /\ Call /\ UNCHANGED otherVars
  \/ NilPanics /\ Panic /\ UNCHANGED otherVars

\* Both namespaces of the infra cluster go on by themselves.
BothInfraNext(n) ==
  \/ InfraNext(n) /\ UNCHANGED otherVars
  \/ Elsewhere!InfraNext(n) /\ UNCHANGED infraVars

\* An administrator edits the ConfigMap.
EditsConfigMap ==
  /\ Upset("ConfigMap edited")
  /\ configMap' \in ConfigMaps \ {configMap}
  /\ UNCHANGED <<infraVars, tenantVars, workerVars, faults, serving, otherVars>>
=============================================================================
