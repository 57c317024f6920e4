CONSTANTS
  Absent = Absent
  InfraNamespace = "infra"
  Namespaces = {"infra"}
  Machines <- OneMachine
  Names = {"worker-1"}
  NameOf <- NameOfKey
  Configs <- LifecycleConfigs
  UserData <- AnyUserData
  UpsetKinds <- AllUpsets
  MaxUpsets = 1
  MaxFaults = 1
  MaxIncarnations = 1
SPECIFICATION Spec
INVARIANTS TypeOK NoOrphanedVM DrainedBeforeDelete FailedMeansNoVM ProvisionedMeansReachable
  ValidVMsOnly
PROPERTIES NodeOutlivesVM VMNeverReplaced FinalPhasesStay ProvisionedStaysProvisioned
  ImplementsLifecycle
CHECK_DEADLOCK FALSE
