---------------------------- MODULE StartupProofs ---------------------------
(***************************************************************************)
(* That the start of the process hands the machine controller what         *)
(* actuator.New returned and nothing else, for every set of ConfigMaps and *)
(* however often the process fails, is killed and starts over.             *)
(***************************************************************************)
EXTENDS Startup, TLAPS

\* The outcomes of actuator.New (actuator.go:64-101).
LEMMA NewActuatorOutcomes ==
  ASSUME NEW c
  PROVE  NewActuator(c) \in {"nil", "actuator", "error"}
BY DEF NewActuator

\* A step of main (main.go:111-168) keeps the types, and keeps the controllers from being
\* registered before the actuator was asked for and from surviving the process.
LEMMA ProcessKeepsType ==
  ASSUME StartupTypeOK, ProcessNext
  PROVE  StartupTypeOK'
<1> USE StartupAssumption DEF StartupTypeOK, Stages, Credentials, environment
<1>1. CASE Start
  BY <1>1 DEF Start
<1>2. CASE NewManager
  BY <1>2 DEF NewManager, Failure, Exit
<1>3. CASE NewInfraClient
  BY <1>3 DEF NewInfraClient, Failure, Exit
<1>4. CASE MakeActuator
  BY <1>4, NewActuatorOutcomes DEF MakeActuator, Failure, Exit
<1>5. CASE AddControllers
  BY <1>5 DEF AddControllers, Failure, Exit
<1>6. CASE CallActuator
  BY <1>6 DEF CallActuator, Exit
<1> QED
  BY <1>1, <1>2, <1>3, <1>4, <1>5, <1>6 DEF ProcessNext

\* The machine controller and the nodeupdate controller are registered, and run, exactly
\* while main holds what actuator.New returned (main.go:119-148): nil, when the ConfigMap
\* could not be read, or an actuator; never an error, and never what an earlier process
\* was given.
THEOREM StartupTypeCorrect == StartupSpec => []StartupTypeOK
<1>1. StartupInit => StartupTypeOK
  <2> SUFFICES ASSUME StartupInit
               PROVE  StartupTypeOK
    OBVIOUS
  <2>1. 0 \in 0 .. MaxEdits /\ 0 \in 0 .. MaxFailures
    BY StartupAssumption
  <2>2. stage \in {"addControllers", "running"} <=> actuator # "none"
    BY DEF StartupInit
  <2>3. machineWaits \in BOOLEAN
    BY Zenon DEF StartupInit
  <2> QED
    BY <2>1, <2>2, <2>3 DEF StartupInit, StartupTypeOK, Stages
<1>2. StartupTypeOK /\ [StartupNext]_startupVars => StartupTypeOK'
  <2> SUFFICES ASSUME StartupTypeOK, [StartupNext]_startupVars
               PROVE  StartupTypeOK'
    OBVIOUS
  <2> USE StartupAssumption DEF StartupTypeOK, Stages, Credentials, environment
  <2>1. CASE ProcessNext
    BY <2>1, ProcessKeepsType
  <2>2. CASE Kill
    BY <2>2 DEF Kill, Failure, Exit
  <2>3. CASE EditCredentials
    BY <2>3 DEF EditCredentials
  <2>4. CASE EditCloudConfig
    BY <2>4 DEF EditCloudConfig
  <2>5. CASE MachineComes
    BY <2>5 DEF MachineComes
  <2>6. CASE UNCHANGED startupVars
    BY <2>6 DEF startupVars
  <2> QED
    BY <2>1, <2>2, <2>3, <2>4, <2>5, <2>6 DEF StartupNext
<1> QED
  BY <1>1, <1>2, PTL DEF StartupSpec
=============================================================================
