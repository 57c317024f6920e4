------------------------------- MODULE Startup ------------------------------
(***************************************************************************)
(* The start of the process (cmd/manager/main.go): it builds the manager,  *)
(* the two clients and the actuator, registers the two controllers and     *)
(* runs them.  A step that fails ends the process, whose container is      *)
(* started again.  The credentials of the infra cluster and the ConfigMap  *)
(* are read once on the way; administrators may still be writing them.     *)
(*                                                                         *)
(* Of the machine controller only this is left: it calls the actuator for  *)
(* a Machine that waits.  What the call does is in MachineController.      *)
(***************************************************************************)
EXTENDS ProviderConfig, Naturals

CONSTANTS StartupConfigMaps, \* the ConfigMaps administrators write
          MaxEdits,          \* bound: edits of the credentials and the ConfigMap
          MaxFailures        \* bound: failed calls and kills

VARIABLES stage,             \* what main does next, "running", or "down"
          credentials,       \* the secret openshift-machine-api/kubevirt-credentials
          cloudConfig,       \* the ConfigMap openshift-config/cloud-provider-config
          actuator,          \* what the machine controller was given
          machineWaits,      \* there is a Machine to call the actuator for
          edits, failures    \* bound counters
startupVars == <<stage, credentials, cloudConfig, actuator, machineWaits, edits, failures>>

Stages == {"down", "newManager", "newInfraClient", "newActuator", "addControllers",
           "running"}

\* A secret that is missing, one without the key "kubeconfig", one whose kubeconfig
\* does not make a client configuration, and one that does.
Credentials == {"missing", "noKey", "malformed", "good"}

ASSUME StartupAssumption ==
  /\ StartupConfigMaps \subseteq ConfigMap
  /\ MaxEdits \in Nat /\ MaxFailures \in Nat

\* The machine controller is registered with what actuator.New returned, nil or not, and
\* never without asking it.
StartupTypeOK ==
  /\ stage \in Stages
  /\ credentials \in Credentials
  /\ cloudConfig \in StartupConfigMaps
  /\ actuator \in {"none", "nil", "actuator"}
  /\ stage \in {"addControllers", "running"} <=> actuator # "none"
  /\ machineWaits \in BOOLEAN
  /\ edits \in 0 .. MaxEdits /\ failures \in 0 .. MaxFailures

StartupInit ==
  /\ stage = "down" /\ actuator = "none"
  /\ credentials \in Credentials
  /\ cloudConfig \in StartupConfigMaps
  /\ machineWaits = FALSE
  /\ edits = 0 /\ failures = 0

Failure == failures < MaxFailures /\ failures' = failures + 1
environment == <<credentials, cloudConfig, machineWaits, edits>>

-----------------------------------------------------------------------------
\* klog.Fatalf, a panic or a kill: nothing of the process survives.
Exit == stage' = "down" /\ actuator' = "none"

Start ==
  /\ stage = "down"
  /\ stage' = "newManager"
  /\ UNCHANGED <<actuator, environment, failures>>

\* config.GetConfig, manager.New, AddToScheme and tenantcluster.New: the API server is
\* asked for its resources, and nothing else can go wrong.
NewManager ==
  /\ stage = "newManager"
  /\ \/ stage' = "newInfraClient" /\ UNCHANGED <<actuator, failures>>
     \/ Failure /\ Exit
  /\ UNCHANGED environment

\* infracluster.New.
NewInfraClient ==
  /\ stage = "newInfraClient"
  /\ \/ /\ credentials = "good"
        /\ stage' = "newActuator" /\ UNCHANGED <<actuator, failures>>
     \/ credentials # "good" /\ Exit /\ UNCHANGED failures
     \/ Failure /\ Exit
  /\ UNCHANGED environment

\* Mutant: main does not look at the error.
MakeActuatorUnchecked ==
  /\ stage = "newActuator"
  /\ stage' = "addControllers" /\ actuator' = NewActuator(cloudConfig)
  /\ UNCHANGED <<environment, failures>>

\* actuator.New: a ConfigMap that cannot be read, for whatever reason, is no error.
MakeActuator ==
  /\ stage = "newActuator"
  /\ \/ /\ NewActuator(cloudConfig) # "error"
        /\ stage' = "addControllers" /\ actuator' = NewActuator(cloudConfig)
        /\ UNCHANGED failures
     \/ NewActuator(cloudConfig) = "error" /\ Exit /\ UNCHANGED failures
     \/ Failure /\ stage' = "addControllers" /\ actuator' = "nil"
  /\ UNCHANGED environment

\* AddWithActuator takes whatever it is given; nodeupdate.Add, the health checks and the
\* start of the manager, which waits for the caches, follow.
AddControllers ==
  /\ stage = "addControllers"
  /\ \/ stage' = "running" /\ UNCHANGED <<actuator, failures>>
     \/ Failure /\ Exit
  /\ UNCHANGED environment

\* Mutant: a panic in Reconcile is recovered from and the key retried.
CallActuatorRecovers ==
  /\ stage = "running" /\ machineWaits
  /\ \/ actuator = "actuator" /\ machineWaits' = FALSE
     \/ actuator = "nil" /\ UNCHANGED machineWaits
  /\ UNCHANGED <<stage, actuator, credentials, cloudConfig, edits, failures>>

\* The machine controller calls the actuator; a nil one panics.
CallActuator ==
  /\ stage = "running" /\ machineWaits
  /\ \/ /\ actuator = "actuator" /\ machineWaits' = FALSE
        /\ UNCHANGED <<stage, actuator>>
     \/ actuator = "nil" /\ Exit /\ UNCHANGED machineWaits
  /\ UNCHANGED <<credentials, cloudConfig, edits, failures>>

ProcessNext ==
  Start \/ NewManager \/ NewInfraClient \/ MakeActuator \/ AddControllers \/ CallActuator

\* External: the process is killed, administrators write what it reads, users make work.
Kill == stage # "down" /\ Failure /\ Exit /\ UNCHANGED environment

EditCredentials ==
  /\ edits < MaxEdits /\ edits' = edits + 1
  /\ credentials' \in Credentials \ {credentials}
  /\ UNCHANGED <<stage, actuator, cloudConfig, machineWaits, failures>>

EditCloudConfig ==
  /\ edits < MaxEdits /\ edits' = edits + 1
  /\ cloudConfig' \in StartupConfigMaps \ {cloudConfig}
  /\ UNCHANGED <<stage, actuator, credentials, machineWaits, failures>>

MachineComes ==
  /\ ~machineWaits /\ machineWaits' = TRUE
  /\ UNCHANGED <<stage, actuator, credentials, cloudConfig, edits, failures>>

StartupNext ==
  ProcessNext \/ Kill \/ EditCredentials \/ EditCloudConfig \/ MachineComes
StartupSpec == StartupInit /\ [][StartupNext]_startupVars

-----------------------------------------------------------------------------
\* The process runs and is started again; nobody else owes anything.
FairStartupSpec == StartupSpec /\ WF_startupVars(ProcessNext)

Configured == credentials = "good" /\ NewActuator(cloudConfig) = "actuator"

\* Once the credentials and the ConfigMap are right and stay so, every Machine is handled
\* in the end (main.go:119-148), whatever was wrong while the process started, and
\* although a ConfigMap that could not be read leaves it with a nil actuator
\* (actuator.go:69-71): the panic of the first call is what makes it start over.
MachinesAreServed == <>[]Configured => (machineWaits ~> ~machineWaits)
=============================================================================
