CONSTANTS
  Absent = Absent
  InfraNamespace = "infra"
  OtherNamespace = "other"
  Namespaces = {"infra", "other"}
  Machines <- OneMachine
  Names = {"worker-1"}
  NameOf <- NameOfKey
  Configs <- UndrainedConfigs
  UserData <- GoodUserData
  ConfigMaps <- ReadableOrNot
  UpsetKinds <- ConfigMapEdits
  MaxUpsets = 0
  MaxFaults = 1
  MaxIncarnations = 2
SPECIFICATION SystemSpec
INVARIANTS SystemTypeOK NodeDecisionsHold
PROPERTIES NodeOutlivesVM ImplementsLifecycle
CHECK_DEADLOCK FALSE
