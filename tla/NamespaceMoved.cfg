CONSTANTS
  Absent = Absent
  InfraNamespace = "infra"
  OtherNamespace = "other"
  Namespaces = {"infra", "other"}
  Machines <- OneMachine
  Names = {"worker-1"}
  NameOf <- NameOfKey
  Configs <- UndrainedConfigs
  UserData <- GoodUserData
  ConfigMaps <- HereOrElsewhere
  UpsetKinds <- ConfigMapEdits
  MaxUpsets = 1
  MaxFaults = 1
  MaxIncarnations = 1
SPECIFICATION SystemSpec
INVARIANTS DeleteCleansUp
CHECK_DEADLOCK FALSE
